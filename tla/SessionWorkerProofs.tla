------------------------ MODULE SessionWorkerProofs -------------------------
(***************************************************************************)
(* Proofs about the worker of SessionWorker: nothing of an earlier epoch   *)
(* reaches its tape, the tape is in order and conserved, what is executed  *)
(* ahead of it is bounded, and the boot bracket never waits on it.         *)
(*                                                                         *)
(* The functions of the worker are composed, so most of the work is done   *)
(* on a worker's state u and the state v it becomes.  pump() and drain()   *)
(* are loops: what one round of them keeps, they keep (PumpStays,          *)
(* DrainStays), which is stated of a set of states.                        *)
(***************************************************************************)
EXTENDS SessionWorker, FoldLemmas, SequenceTheorems

-----------------------------------------------------------------------------
(* Types *)

\* What the plans are made of.
PlanEntries == UNION {{p[i] : i \in 1 .. Len(p)} : p \in Plans}
PlanOps     == UNION {{e.script[j] : j \in 1 .. Len(e.script)} : e \in PlanEntries}

Steps  == [entry : Nat, ns : Nat, last : BOOLEAN, ops : Nat, started : BOOLEAN]
Grants == [rule : {"none", "race", "step"}, round : {-1, 0}, entryLimit : Nat,
           playLimit : Nat \cup {Infinity}, scale : {0, 1}]

Workers ==
  [epoch : Nat, runner : BOOLEAN, entries : Seq(PlanEntries), cursor : Nat, drained : Int,
   limits : Grants, playback : Nat, dispFileOps : Nat, execFileOps : Nat,
   entryFileOps : Nat, prep : BOOLEAN, realCmd : Nat \cup {Idle}, parked : BOOLEAN,
   queue : Seq(Steps), executed : Nat]

Fibers == [epoch : Nat, index : Nat, script : Seq(PlanOps)]

Mail == [type : {"ENTRIES"}, epoch : Nat, from : Nat, list : Seq(PlanEntries)]
          \cup [type : {"GRANT"}, epoch : Nat, grant : Grants]
          \cup [type : {"RESET"}, epoch : Nat]

Acked == [round : {-1, 0}, playback : Nat, cursor : Nat, drained : Int, fileOps : Nat]
Acks  == [epoch : Nat, round : {-1, 0}, playback : Nat, cursor : Nat, drained : Int,
          fileOps : Nat]

Types ==
  /\ plan \in Plans
  /\ epoch \in Nat
  /\ sent \in 0 .. Len(plan)
  /\ acked \in Acked
  /\ inbox \in Seq(Mail)
  /\ outbox \in Seq(Acks)
  /\ w \in Workers
  /\ fibers \in SUBSET Fibers

-----------------------------------------------------------------------------
(* The inductive invariant *)

\* The worker executes what it holds, and a command in flight is the entry at its cursor.
Sound(u) ==
  /\ u.cursor <= Len(u.entries)
  /\ u.realCmd # Idle => u.realCmd = u.cursor /\ u.cursor < Len(u.entries)
  /\ \A k \in 1 .. Len(u.queue) : u.queue[k].entry < Len(u.entries)

\* What the worker holds and what is shipped to it are pieces of the plan.
Held(u) ==
  /\ Len(u.entries) <= Len(plan)
  /\ \A i \in 1 .. Len(u.entries) : u.entries[i] = plan[i]

OfPlan(box) ==
  \A n \in 1 .. Len(box) : box[n].type = "ENTRIES" =>
    box[n].from < Len(plan) /\ box[n].list = <<plan[box[n].from + 1]>>

Shipped == Held(w) /\ OfPlan(inbox)

\* Resets arrive in order, each for an epoch later than e.
Rising(box, e) ==
  \A n \in 1 .. Len(box) : box[n].type = "RESET" =>
    /\ e < box[n].epoch
    /\ box[n].epoch <= epoch
    /\ \A m \in 1 .. n - 1 : box[m].type = "RESET" => box[m].epoch < box[n].epoch

EpochsRise == w.epoch <= epoch /\ epoch <= MaxEpoch /\ Rising(inbox, w.epoch)

\* The command in flight has one body; the others that have not settled are of the past.
OneBody ==
  /\ \A f \in fibers : f.epoch <= w.epoch
  /\ \A f \in fibers : f.epoch = w.epoch => f.index = w.realCmd
  /\ \A f, g \in fibers : f.epoch = w.epoch /\ g.epoch = w.epoch => f = g

WInv == Types /\ Sound(w) /\ Shipped /\ EpochsRise /\ OneBody

\* Metered: no bracket and no format in any plan.
MeteredPlans ==
  /\ \A e \in PlanEntries : e.kind \in {"churn", "command", "garbled"}
  /\ \A op \in PlanOps : op.does \in {"io", "raw", "throw"}

\* A queue where c entries are executed and those up to d are drained: it holds the
\* markers of the others, in order and after the tape of each, and if a command is in
\* flight, the tape of it.
InOrder(q, c, d, idle) ==
  /\ -1 <= d /\ d < c
  /\ \A k \in 1 .. Len(q) :
       /\ q[k].entry <= c
       /\ idle => q[k].entry < c
       /\ q[k].last => d < q[k].entry /\ q[k].entry < c
  /\ \A e \in d + 1 .. c - 1 : \E k \in 1 .. Len(q) : q[k].last /\ q[k].entry = e
  /\ \A k, l \in 1 .. Len(q) :
       k < l => q[k].entry <= q[l].entry /\ (q[k].last => q[k].entry < q[l].entry)

\* The tape of a worker that meters everything.
Tape(u) ==
  /\ ~u.prep
  /\ InOrder(u.queue, u.cursor, u.drained, u.realCmd = Idle)
  /\ u.executed = u.playback + Unplayed(u.queue)

\* The first k steps of the queue are below the caps.
Below(q, k) == Unplayed(SubSeq(q, 1, k)) < TAPE_CAP_FRAMES /\ k < BACKLOG_CAP

\* What is older than entry n is below the caps.
CappedBy(q, n) == \A k \in 1 .. Len(q) : q[k].entry < n => Below(q, k)

\* What is older than the newest entry, or than the command in flight, is below the caps.
Capped(u) ==
  CappedBy(u.queue, IF u.realCmd = Idle THEN u.queue[Len(u.queue)].entry ELSE u.realCmd)

MInv == WInv /\ Tape(w) /\ Capped(w)

Flying(u) == IF u.realCmd = Idle THEN 0 ELSE u.entryFileOps
Conserved(u) == u.dispFileOps + Credits(u.queue) + Flying(u) = u.execFileOps

-----------------------------------------------------------------------------
(* Constants and types *)

\* The caps are positive, and what a plan is made of are entries and operations.
LEMMA PlanTypes ==
  /\ PlanEntries \subseteq Entries
  /\ PlanOps \subseteq Operations
  /\ \A p \in Plans : p \in Seq(PlanEntries)
  /\ \A e \in PlanEntries : e.script \in Seq(PlanOps)
<1>1. PlanEntries \subseteq Entries
  <2> SUFFICES ASSUME NEW p \in Plans, NEW i \in 1 .. Len(p) PROVE p[i] \in Entries
    BY DEF PlanEntries
  <2>1. p \in Seq(Entries)
    BY PlansAssumption
  <2> QED BY <2>1
<1>2. ASSUME NEW e \in PlanEntries PROVE e.script \in Seq(Operations)
  BY <1>1 DEF Entries
<1>3. PlanOps \subseteq Operations
  <2> SUFFICES ASSUME NEW e \in PlanEntries, NEW j \in 1 .. Len(e.script)
               PROVE  e.script[j] \in Operations
    BY DEF PlanOps
  <2>1. PICK s \in Seq(Operations) : s = e.script
    BY <1>2
  <2> QED BY <2>1
<1>4. ASSUME NEW p \in Plans PROVE p \in Seq(PlanEntries)
  <2>1. p \in Seq(Entries)
    BY PlansAssumption
  <2>2. \A i \in 1 .. Len(p) : p[i] \in PlanEntries
    BY DEF PlanEntries
  <2> QED BY <2>1, <2>2
<1>5. ASSUME NEW e \in PlanEntries PROVE e.script \in Seq(PlanOps)
  <2>1. e.script \in Seq(Operations)
    BY <1>2
  <2>2. \A j \in 1 .. Len(e.script) : e.script[j] \in PlanOps
    BY DEF PlanOps
  <2> QED BY <2>1, <2>2
<1> QED BY <1>1, <1>3, <1>4, <1>5

\* The caps are positive numbers.
LEMMA Caps ==
  /\ TAPE_CAP_FRAMES \in Nat \ {0} /\ BACKLOG_CAP \in Nat \ {0}
  /\ MAX_OPS_PER_FRAME \in Nat \ {0}
  /\ MaxChunks \in Nat /\ Infinity \notin Int /\ Idle = -1
BY WorkerAssumption DEF Idle

\* The fields of a worker.
LEMMA WorkerFields ==
  ASSUME NEW u \in Workers
  PROVE  /\ u.epoch \in Nat /\ u.runner \in BOOLEAN /\ u.entries \in Seq(PlanEntries)
         /\ u.cursor \in Nat /\ u.drained \in Int /\ u.limits \in Grants
         /\ u.playback \in Nat /\ u.dispFileOps \in Nat /\ u.execFileOps \in Nat
         /\ u.entryFileOps \in Nat /\ u.prep \in BOOLEAN /\ u.realCmd \in Nat \cup {Idle}
         /\ u.parked \in BOOLEAN /\ u.queue \in Seq(Steps) /\ u.executed \in Nat
BY DEF Workers

\* The fields of a step.
LEMMA StepFields ==
  ASSUME NEW q \in Seq(Steps), NEW k \in 1 .. Len(q)
  PROVE  /\ q[k] \in Steps
         /\ q[k].entry \in Nat /\ q[k].ns \in Nat /\ q[k].last \in BOOLEAN
         /\ q[k].ops \in Nat /\ q[k].started \in BOOLEAN
<1>1. q[k] \in Steps
  OBVIOUS
<1> QED BY <1>1 DEF Steps

-----------------------------------------------------------------------------
(* What a queue has left to play and to credit *)

\* The times of the steps of a queue, and their credits.
Times(q) == [k \in DOMAIN q |-> q[k].ns]
Marks(q) == [k \in DOMAIN q |-> q[k].ops]

\* The two are sequences of numbers.
LEMMA TimesType ==
  ASSUME NEW q \in Seq(Steps)
  PROVE  /\ Times(q) \in Seq(Nat) /\ Len(Times(q)) = Len(q)
         /\ Marks(q) \in Seq(Nat) /\ Len(Marks(q)) = Len(q)
<1>1. DOMAIN q = 1 .. Len(q) /\ Len(q) \in Nat
  OBVIOUS
<1>2. \A k \in 1 .. Len(q) : q[k].ns \in Nat /\ q[k].ops \in Nat
  BY StepFields
<1>3. Times(q) = [k \in 1 .. Len(q) |-> q[k].ns] /\ Marks(q) = [k \in 1 .. Len(q) |-> q[k].ops]
  BY <1>1 DEF Times, Marks
<1> QED BY <1>1, <1>2, <1>3

\* What a queue has left are numbers.
LEMMA UnplayedType ==
  ASSUME NEW q \in Seq(Steps)
  PROVE  Unplayed(q) \in Nat /\ Credits(q) \in Nat
<1>1. Times(q) \in Seq(Nat) /\ Marks(q) \in Seq(Nat)
  BY TimesType
<1>2. Summable(Times(q)) /\ Summable(Marks(q))
  BY <1>1, SequencesAreSummable
<1>3. SumFunction(Times(q)) \in Nat /\ SumFunction(Marks(q)) \in Nat
  BY <1>2, SumType
<1> QED BY <1>3 DEF Unplayed, Credits, Times, Marks

\* Nothing is left of the empty queue.
LEMMA UnplayedOfNothing == Unplayed(<<>>) = 0 /\ Credits(<<>>) = 0
<1>1. DOMAIN Times(<<>>) = {} /\ DOMAIN Marks(<<>>) = {}
  BY DEF Times, Marks
<1>2. SumFunction(Times(<<>>)) = 0 /\ SumFunction(Marks(<<>>)) = 0
  BY <1>1, SumOfNothing
<1> QED BY <1>2 DEF Unplayed, Credits, Times, Marks

\* Two queues one after the other have left what each of them has.
LEMMA UnplayedOfJoin ==
  ASSUME NEW q \in Seq(Steps), NEW r \in Seq(Steps)
  PROVE  /\ Unplayed(q \o r) = Unplayed(q) + Unplayed(r)
         /\ Credits(q \o r) = Credits(q) + Credits(r)
<1>1. PICK s \in Seq(Steps) : s = q \o r
  BY ConcatProperties
<1>2. /\ Times(q) \in Seq(Nat) /\ Len(Times(q)) = Len(q)
      /\ Marks(q) \in Seq(Nat) /\ Len(Marks(q)) = Len(q)
      /\ Times(r) \in Seq(Nat) /\ Len(Times(r)) = Len(r)
      /\ Marks(r) \in Seq(Nat) /\ Len(Marks(r)) = Len(r)
      /\ Times(s) \in Seq(Nat) /\ Len(Times(s)) = Len(s)
      /\ Marks(s) \in Seq(Nat) /\ Len(Marks(s)) = Len(s)
  BY TimesType
<1>3. /\ Len(s) = Len(q) + Len(r) /\ Len(q) \in Nat /\ Len(r) \in Nat
      /\ \A k \in 1 .. Len(s) : s[k] = IF k <= Len(q) THEN q[k] ELSE r[k - Len(q)]
  BY <1>1, ConcatProperties
<1>4. /\ \A k \in 1 .. Len(q) : Times(q)[k] = q[k].ns /\ Marks(q)[k] = q[k].ops
      /\ \A k \in 1 .. Len(r) : Times(r)[k] = r[k].ns /\ Marks(r)[k] = r[k].ops
      /\ \A k \in 1 .. Len(s) : Times(s)[k] = s[k].ns /\ Marks(s)[k] = s[k].ops
  BY DEF Times, Marks
<1>5. Times(s) = Times(q) \o Times(r) /\ Marks(s) = Marks(q) \o Marks(r)
  <2>1. /\ \A k \in 1 .. Len(s) : Times(s)[k] = IF k <= Len(q) THEN Times(q)[k]
                                                             ELSE Times(r)[k - Len(q)]
        /\ \A k \in 1 .. Len(s) : Marks(s)[k] = IF k <= Len(q) THEN Marks(q)[k]
                                                             ELSE Marks(r)[k - Len(q)]
    <3> SUFFICES ASSUME NEW k \in 1 .. Len(s)
                 PROVE  /\ Times(s)[k] = IF k <= Len(q) THEN Times(q)[k]
                                                        ELSE Times(r)[k - Len(q)]
                        /\ Marks(s)[k] = IF k <= Len(q) THEN Marks(q)[k]
                                                        ELSE Marks(r)[k - Len(q)]
      OBVIOUS
    <3>1. Times(s)[k] = s[k].ns /\ Marks(s)[k] = s[k].ops
      BY <1>4
    <3>2. CASE k <= Len(q)
      <4>1. k \in 1 .. Len(q) /\ s[k] = q[k]
        BY <1>3, <3>2
      <4> QED BY <1>4, <3>1, <3>2, <4>1
    <3>3. CASE ~(k <= Len(q))
      <4>1. k - Len(q) \in 1 .. Len(r) /\ s[k] = r[k - Len(q)]
        BY <1>3, <3>3
      <4> QED BY <1>4, <3>1, <3>3, <4>1
    <3> QED BY <3>2, <3>3
  <2>2. ASSUME NEW x \in Seq(Nat), NEW y \in Seq(Nat), NEW z \in Seq(Nat),
               Len(z) = Len(x) + Len(y),
               \A k \in 1 .. Len(z) : z[k] = IF k <= Len(x) THEN x[k] ELSE y[k - Len(x)]
        PROVE  z = x \o y
    <3>1. /\ x \o y \in Seq(Nat) /\ Len(x \o y) = Len(z)
          /\ \A k \in 1 .. Len(z) : z[k] = (x \o y)[k]
      BY <2>2, ConcatProperties
    <3> QED BY <3>1, SeqEqual
  <2>3. Times(s) = Times(q) \o Times(r)
    <3>1. /\ Times(q) \in Seq(Nat) /\ Times(r) \in Seq(Nat) /\ Times(s) \in Seq(Nat)
          /\ Len(Times(s)) = Len(Times(q)) + Len(Times(r))
          /\ \A k \in 1 .. Len(Times(s)) :
               Times(s)[k] = IF k <= Len(Times(q)) THEN Times(q)[k]
                                                  ELSE Times(r)[k - Len(Times(q))]
      BY <1>2, <1>3, <2>1
    <3> QED BY ONLY <2>2, <3>1
  <2>4. Marks(s) = Marks(q) \o Marks(r)
    <3>1. /\ Marks(q) \in Seq(Nat) /\ Marks(r) \in Seq(Nat) /\ Marks(s) \in Seq(Nat)
          /\ Len(Marks(s)) = Len(Marks(q)) + Len(Marks(r))
          /\ \A k \in 1 .. Len(Marks(s)) :
               Marks(s)[k] = IF k <= Len(Marks(q)) THEN Marks(q)[k]
                                                  ELSE Marks(r)[k - Len(Marks(q))]
      BY <1>2, <1>3, <2>1
    <3> QED BY ONLY <2>2, <3>1
  <2> QED BY <2>3, <2>4
<1>6. /\ SumFunction(Times(q) \o Times(r)) = SumFunction(Times(q)) + SumFunction(Times(r))
      /\ SumFunction(Marks(q) \o Marks(r)) = SumFunction(Marks(q)) + SumFunction(Marks(r))
  BY <1>2, SumOfJoin
<1> QED BY <1>1, <1>5, <1>6 DEF Unplayed, Credits, Times, Marks

\* A queue has left what its first k steps and the others have.
LEMMA UnplayedOfParts ==
  ASSUME NEW q \in Seq(Steps), NEW k \in 0 .. Len(q)
  PROVE  /\ SubSeq(q, 1, k) \in Seq(Steps)
         /\ SubSeq(q, k + 1, Len(q)) \in Seq(Steps)
         /\ Unplayed(q) = Unplayed(SubSeq(q, 1, k)) + Unplayed(SubSeq(q, k + 1, Len(q)))
         /\ Credits(q) = Credits(SubSeq(q, 1, k)) + Credits(SubSeq(q, k + 1, Len(q)))
<1>0. \A i \in 1 .. Len(q) : q[i] \in Steps
  OBVIOUS
<1>1. SubSeq(q, 1, k) \in Seq(Steps) /\ SubSeq(q, k + 1, Len(q)) \in Seq(Steps)
  BY <1>0
<1>2. q = SubSeq(q, 1, k) \o SubSeq(q, k + 1, Len(q))
  <2>1. Len(q) \in Nat /\ 1 \in 1 .. Len(q) + 1 /\ k \in 1 - 1 .. Len(q) /\ Len(q) \in k .. Len(q)
    OBVIOUS
  <2>2. SubSeq(q, 1, k) \o SubSeq(q, k + 1, Len(q)) = SubSeq(q, 1, Len(q))
    BY <2>1, ConcatAdjacentSubSeq
  <2> QED BY <2>2, SubSeqFull
<1> QED BY <1>1, <1>2, UnplayedOfJoin

-----------------------------------------------------------------------------
(* Queueing a batch *)

\* r is q with a batch of entry i behind it, whose last step is a marker if "last".
Extends(q, r, i, last) ==
  /\ Len(q) <= Len(r)
  /\ \A k \in 1 .. Len(q) : r[k] = q[k]
  /\ \A k \in Len(q) + 1 .. Len(r) :
       r[k].entry = i /\ (r[k].last => last /\ k = Len(r))
  /\ last => Len(q) < Len(r) /\ r[Len(r)].last

\* The same, with what r has left to play and to credit.
Queued(q, r, i, tape, last, ops) ==
  /\ r \in Seq(Steps)
  /\ Extends(q, r, i, last)
  /\ Unplayed(r) = Unplayed(q) + Total(tape)
  /\ Credits(r) = Credits(q) + (IF last THEN ops ELSE 0)
  /\ \A k \in Len(q) + 1 .. Len(r) : r[k].ops = IF r[k].last THEN ops ELSE 0

\* v is u after a batch of entry i, in the bracket and outside.
Enqueued(u, v, i, tape, last, ops) ==
  /\ v \in Workers
  /\ v.epoch = u.epoch /\ v.runner = u.runner /\ v.entries = u.entries
  /\ v.cursor = u.cursor /\ v.limits = u.limits /\ v.execFileOps = u.execFileOps
  /\ v.entryFileOps = u.entryFileOps /\ v.prep = u.prep /\ v.realCmd = u.realCmd
  /\ v.parked = u.parked
  /\ u.prep => v.queue = u.queue /\ v.drained = IF last THEN i ELSE u.drained
  /\ ~u.prep =>
       /\ Queued(u.queue, v.queue, i, tape, last, ops)
       /\ v.executed = u.executed + Total(tape)
       /\ v.playback = u.playback /\ v.drained = u.drained
       /\ v.dispFileOps = u.dispFileOps

\* The batch of a tape.
Batch(i, tape, last, ops) ==
  [k \in DOMAIN tape |-> Step(i, tape[k])] \o (IF last THEN <<Marker(i, ops)>> ELSE <<>>)

\* A batch is steps of its entry, with its marker last, as long as its tape.
LEMMA BatchFacts ==
  ASSUME NEW i \in Nat, NEW tape \in Seq(Nat), NEW last \in BOOLEAN, NEW ops \in Nat
  PROVE  /\ Batch(i, tape, last, ops) \in Seq(Steps)
         /\ Len(Batch(i, tape, last, ops)) = Len(tape) + (IF last THEN 1 ELSE 0)
         /\ \A k \in 1 .. Len(Batch(i, tape, last, ops)) :
              /\ Batch(i, tape, last, ops)[k].entry = i
              /\ Batch(i, tape, last, ops)[k].last => last /\ k = Len(tape) + 1
              /\ Batch(i, tape, last, ops)[k].ops =
                   IF Batch(i, tape, last, ops)[k].last THEN ops ELSE 0
         /\ last => Batch(i, tape, last, ops)[Len(tape) + 1].last
         /\ Unplayed(Batch(i, tape, last, ops)) = Total(tape)
         /\ Credits(Batch(i, tape, last, ops)) = IF last THEN ops ELSE 0
<1> DEFINE a == [k \in DOMAIN tape |-> Step(i, tape[k])]
           b == IF last THEN <<Marker(i, ops)>> ELSE <<>>
<1>1. /\ DOMAIN tape = 1 .. Len(tape) /\ Len(tape) \in Nat
      /\ \A k \in 1 .. Len(tape) : tape[k] \in Nat
  OBVIOUS
<1>2. Marker(i, ops) \in Steps /\ Marker(i, ops).entry = i /\ Marker(i, ops).last
      /\ Marker(i, ops).ns = 0 /\ Marker(i, ops).ops = ops
  BY DEF Marker, Steps
<1>3. \A k \in 1 .. Len(tape) :
        Step(i, tape[k]) \in Steps /\ a[k] = Step(i, tape[k])
  BY <1>1 DEF Step, Steps
<1>4. a \in Seq(Steps) /\ Len(a) = Len(tape)
  <2>1. a = [k \in 1 .. Len(tape) |-> Step(i, tape[k])]
    BY <1>1
  <2>2. a \in [1 .. Len(tape) -> Steps]
    BY <1>3, <2>1
  <2> QED BY <1>1, <2>2
<1>5. b \in Seq(Steps) /\ Len(b) = IF last THEN 1 ELSE 0
  BY <1>2
<1>6. \A k \in 1 .. Len(tape) : /\ a[k].entry = i /\ a[k].ns = tape[k] /\ a[k].last = FALSE
                               /\ a[k].ops = 0
  BY <1>3 DEF Step
<1>7. last => b[1] = Marker(i, ops)
  OBVIOUS
<1>8. Unplayed(a) = Total(tape) /\ Credits(a) = 0
  <2>1. Times(a) = tape
    <3>1. /\ Times(a) \in Seq(Nat) /\ Len(Times(a)) = Len(tape)
          /\ \A k \in 1 .. Len(tape) : Times(a)[k] = tape[k]
      <4>1. Times(a) \in Seq(Nat) /\ Len(Times(a)) = Len(tape)
        BY <1>4, TimesType
      <4>2. \A k \in 1 .. Len(tape) : Times(a)[k] = tape[k]
        <5>1. DOMAIN a = 1 .. Len(tape)
          BY <1>1
        <5> HIDE DEF a
        <5> QED BY <1>6, <5>1 DEF Times
      <4> QED BY <4>1, <4>2
    <3> HIDE DEF a
    <3> QED BY <3>1, SeqEqual
  <2>2. Credits(a) = 0
    <3>1. PICK z : z = Marks(a)
      OBVIOUS
    <3>2. Summable(z) /\ \A k \in DOMAIN z : z[k] = 0
      <4>1. Marks(a) \in Seq(Nat)
        BY <1>4, TimesType
      <4>2. Summable(Marks(a))
        <5> HIDE DEF a
        <5> QED BY <4>1, SequencesAreSummable
      <4>3. DOMAIN a = 1 .. Len(tape)
        BY <1>1
      <4> HIDE DEF a
      <4> QED BY <1>6, <3>1, <4>2, <4>3 DEF Marks
    <3>3. PICK e : e = [k \in {} |-> 0]
      OBVIOUS
    <3>4. SumFunction(z) <= 0
      <4> QED BY <3>2, SumOfZeros
    <3>5. SumFunction(z) \in Nat
      BY <3>2, SumType
    <3> HIDE DEF a
    <3> QED BY <3>1, <3>4, <3>5 DEF Credits, Marks
  <2> HIDE DEF a
  <2> QED BY <2>1, <2>2 DEF Unplayed, Times, Total
<1>9. Unplayed(b) = 0 /\ Credits(b) = IF last THEN ops ELSE 0
  <2>1. CASE ~last
    BY <2>1, UnplayedOfNothing
  <2>2. CASE last
    <3>1. PICK m \in Steps : m = Marker(i, ops)
      BY <1>2
    <3>2. b = Append(<<>>, m)
      BY <2>2, <3>1
    <3>3. Times(b) = Append(<<>>, 0) /\ Marks(b) = Append(<<>>, ops)
      <4>1. b = <<m>> /\ m.ns = 0 /\ m.ops = ops
        BY <1>2, <2>2, <3>1
      <4> HIDE DEF b
      <4> QED BY <4>1 DEF Times, Marks
    <3>4. SumFunction(Append(<<>>, 0)) = 0 /\ SumFunction(Append(<<>>, ops)) = ops
      <4>1. PICK z \in Seq(Nat) : z = <<>>
        BY EmptySeq
      <4>2. SumFunction(z) = 0
        BY <4>1, SumOfNothing
      <4>3. SumFunction(Append(z, 0)) = SumFunction(z) + 0
            /\ SumFunction(Append(z, ops)) = SumFunction(z) + ops
        BY SumOfAppend
      <4> QED BY <4>1, <4>2, <4>3
    <3> HIDE DEF b
    <3> QED BY <2>2, <3>3, <3>4 DEF Unplayed, Credits, Times, Marks
  <2> QED BY <2>1, <2>2
<1>10. Batch(i, tape, last, ops) = a \o b
  BY DEF Batch
<1>11. PICK c : c = a \o b
  OBVIOUS
<1> HIDE DEF a, b
<1>12. /\ c \in Seq(Steps) /\ Len(c) = Len(a) + Len(b)
       /\ \A k \in 1 .. Len(a) + Len(b) : c[k] = IF k <= Len(a) THEN a[k] ELSE b[k - Len(a)]
  <2>1. a \in Seq(Steps) /\ b \in Seq(Steps) /\ c = a \o b
    BY <1>4, <1>5, <1>11
  <2> QED BY ONLY <2>1, ConcatProperties
<1>13. Unplayed(c) = Unplayed(a) + Unplayed(b) /\ Credits(c) = Credits(a) + Credits(b)
  BY <1>4, <1>5, <1>11, UnplayedOfJoin
<1>14. Len(c) = Len(tape) + (IF last THEN 1 ELSE 0)
  BY <1>4, <1>5, <1>12
<1>15. ASSUME NEW k \in 1 .. Len(c)
       PROVE  /\ c[k].entry = i /\ (c[k].last => last /\ k = Len(tape) + 1)
              /\ c[k].ops = IF c[k].last THEN ops ELSE 0
  <2>1. CASE k <= Len(tape)
    <3>1. k \in 1 .. Len(tape) /\ k \in 1 .. Len(a) + Len(b) /\ k <= Len(a)
      BY <1>1, <1>4, <1>5, <1>14, <2>1
    <3>2. c[k] = a[k]
      BY <1>12, <3>1
    <3> QED BY <1>6, <3>1, <3>2
  <2>2. CASE ~(k <= Len(tape))
    <3>1. last /\ k = Len(tape) + 1 /\ k - Len(a) = 1 /\ k \in 1 .. Len(a) + Len(b)
      BY <1>1, <1>4, <1>5, <1>14, <2>2
    <3>2. c[k] = b[1]
      BY <1>4, <1>12, <2>2, <3>1
    <3> QED BY <1>2, <1>7, <3>1, <3>2
  <2> QED BY <2>1, <2>2
<1>16. last => c[Len(tape) + 1].last
  <2> SUFFICES ASSUME last PROVE c[Len(tape) + 1].last
    OBVIOUS
  <2>1. /\ Len(tape) + 1 \in 1 .. Len(a) + Len(b) /\ ~(Len(tape) + 1 <= Len(a))
        /\ Len(tape) + 1 - Len(a) = 1
    BY <1>1, <1>4, <1>5
  <2>2. c[Len(tape) + 1] = b[1]
    BY <1>12, <2>1
  <2> QED BY <1>2, <1>7, <2>2
<1>17. Total(tape) \in Nat
  <2>1. Summable(tape)
    BY SequencesAreSummable
  <2> QED BY <2>1, SumType DEF Total
<1>18. Unplayed(c) = Total(tape) /\ Credits(c) = IF last THEN ops ELSE 0
  BY <1>8, <1>9, <1>13, <1>17
<1> QED BY <1>10, <1>11, <1>12, <1>14, <1>15, <1>16, <1>18

\* A queue with a batch behind it.
LEMMA BatchExtends ==
  ASSUME NEW q \in Seq(Steps), NEW i \in Nat, NEW tape \in Seq(Nat), NEW last \in BOOLEAN,
         NEW ops \in Nat
  PROVE  Queued(q, q \o Batch(i, tape, last, ops), i, tape, last, ops)
<1>0. PICK r : r = q \o Batch(i, tape, last, ops)
  OBVIOUS
<1> DEFINE b == Batch(i, tape, last, ops)
<1>1. b = Batch(i, tape, last, ops)
  OBVIOUS
<1>2. /\ b \in Seq(Steps)
      /\ Len(b) = Len(tape) + (IF last THEN 1 ELSE 0)
      /\ \A k \in 1 .. Len(b) : b[k].entry = i /\ (b[k].last => last /\ k = Len(tape) + 1)
      /\ \A k \in 1 .. Len(b) : b[k].ops = IF b[k].last THEN ops ELSE 0
      /\ last => b[Len(tape) + 1].last
      /\ Unplayed(b) = Total(tape)
      /\ Credits(b) = IF last THEN ops ELSE 0
  BY BatchFacts
<1> HIDE DEF b
<1>3. /\ r \in Seq(Steps) /\ Len(r) = Len(q) + Len(b)
      /\ \A k \in 1 .. Len(q) + Len(b) : r[k] = IF k <= Len(q) THEN q[k] ELSE b[k - Len(q)]
  <2>1. b \in Seq(Steps) /\ q \in Seq(Steps) /\ r = q \o b
    BY <1>0, <1>1, <1>2
  <2> QED BY ONLY <2>1, ConcatProperties
<1>4. Len(q) \in Nat /\ Len(b) \in Nat /\ Len(tape) \in Nat
  BY <1>2
<1>5. Unplayed(r) = Unplayed(q) + Unplayed(b) /\ Credits(r) = Credits(q) + Credits(b)
  BY <1>0, <1>1, <1>2, UnplayedOfJoin
<1>6. Len(q) <= Len(r) /\ \A k \in 1 .. Len(q) : r[k] = q[k]
  <2>1. Len(q) <= Len(r)
    BY <1>3, <1>4
  <2>2. ASSUME NEW k \in 1 .. Len(q) PROVE r[k] = q[k]
    <3>1. k \in 1 .. Len(q) + Len(b) /\ k <= Len(q)
      BY <1>4
    <3> QED BY <1>3, <3>1
  <2> QED BY <2>1, <2>2
<1>7. ASSUME NEW k \in Len(q) + 1 .. Len(r)
      PROVE  /\ r[k].entry = i /\ (r[k].last => last /\ k = Len(r))
             /\ r[k].ops = IF r[k].last THEN ops ELSE 0
  <2>1. /\ k \in 1 .. Len(q) + Len(b) /\ ~(k <= Len(q)) /\ k - Len(q) \in 1 .. Len(b)
    BY <1>3, <1>4
  <2>2. r[k] = b[k - Len(q)]
    BY <1>3, <2>1
  <2>3. /\ r[k].entry = i /\ (r[k].last => last /\ k - Len(q) = Len(tape) + 1)
        /\ r[k].ops = IF r[k].last THEN ops ELSE 0
    BY <1>2, <2>1, <2>2
  <2>4. last /\ k - Len(q) = Len(tape) + 1 => k = Len(r)
    <3>1. last => Len(b) = Len(tape) + 1
      BY <1>2
    <3>2. Len(r) = Len(q) + Len(b)
      BY <1>3
    <3> QED BY <1>4, <3>1, <3>2
  <2> QED BY <2>3, <2>4
<1>8. ASSUME last PROVE Len(q) < Len(r) /\ r[Len(r)].last
  <2>1. /\ Len(b) = Len(tape) + 1 /\ Len(r) \in 1 .. Len(q) + Len(b)
        /\ ~(Len(r) <= Len(q)) /\ Len(r) - Len(q) = Len(tape) + 1
    BY <1>2, <1>3, <1>4, <1>8
  <2>2. r[Len(r)] = b[Len(tape) + 1]
    BY <1>3, <2>1
  <2>3. Len(q) < Len(r)
    BY <1>3, <1>4, <2>1
  <2>4. r[Len(r)].last
    BY <1>2, <1>8, <2>2
  <2> QED BY <2>3, <2>4
<1>9. Extends(q, r, i, last)
  BY <1>6, <1>7, <1>8 DEF Extends
<1>10. Queued(q, r, i, tape, last, ops)
  BY <1>2, <1>3, <1>5, <1>7, <1>9 DEF Queued
<1> QED BY <1>0, <1>10

\* enqueueBatch() queues the batch, or plays it in the bracket.
LEMMA EnqueueIs ==
  ASSUME NEW u \in Workers, NEW i \in Nat, NEW tape \in Seq(Nat), NEW last \in BOOLEAN,
         NEW ops \in Nat
  PROVE  Enqueued(u, EnqueueBatch(u, i, tape, last, ops), i, tape, last, ops)
<1> DEFINE v == EnqueueBatch(u, i, tape, last, ops)
<1>1. /\ u.queue \in Seq(Steps) /\ u.prep \in BOOLEAN /\ u.playback \in Nat
      /\ u.executed \in Nat /\ u.drained \in Int /\ u.dispFileOps \in Nat
  BY WorkerFields
<1>2. Total(tape) \in Nat
  <2>1. Summable(tape)
    BY SequencesAreSummable
  <2> QED BY <2>1, SumType DEF Total
<1>3. CASE u.prep
  <2>1. v = [u EXCEPT !.playback = @ + Total(tape),
                      !.drained = IF last THEN i ELSE @,
                      !.dispFileOps = IF last THEN @ + ops ELSE @]
    BY <1>3 DEF EnqueueBatch, Metered
  <2>2. v \in Workers
    <3>1. /\ u.playback + Total(tape) \in Nat /\ u.dispFileOps + ops \in Nat /\ i \in Int
      BY <1>1, <1>2
    <3>2. PICK p \in Nat, d \in Int, o \in Nat :
            /\ p = u.playback + Total(tape)
            /\ d = IF last THEN i ELSE u.drained
            /\ o = IF last THEN u.dispFileOps + ops ELSE u.dispFileOps
      BY <1>1, <3>1
    <3>3. v = [u EXCEPT !.playback = p, !.drained = d, !.dispFileOps = o]
      BY <2>1, <3>2 DEF Workers
    <3> HIDE DEF v
    <3> QED BY <3>3 DEF Workers
  <2>3. /\ v.epoch = u.epoch /\ v.runner = u.runner /\ v.entries = u.entries
        /\ v.cursor = u.cursor /\ v.limits = u.limits /\ v.execFileOps = u.execFileOps
        /\ v.entryFileOps = u.entryFileOps /\ v.prep = u.prep /\ v.realCmd = u.realCmd
        /\ v.parked = u.parked /\ v.queue = u.queue
        /\ v.drained = IF last THEN i ELSE u.drained
    BY <2>1 DEF Workers
  <2> HIDE DEF v
  <2>4. Enqueued(u, v, i, tape, last, ops)
    BY <1>3, <2>2, <2>3 DEF Enqueued
  <2> QED BY <2>4 DEF v
<1>4. CASE ~u.prep
  <2>1. PICK r : r = u.queue \o Batch(i, tape, last, ops)
    OBVIOUS
  <2>2. Queued(u.queue, r, i, tape, last, ops)
    BY <1>1, <2>1, BatchExtends
  <2>3. v = [u EXCEPT !.executed = @ + Total(tape), !.queue = r]
    BY <1>4, <2>1 DEF EnqueueBatch, Metered, Batch, Closed, ClosingMarker
  <2>4. v \in Workers
    <3>1. PICK x \in Nat : x = u.executed + Total(tape)
      BY <1>1, <1>2
    <3>2. v = [u EXCEPT !.executed = x, !.queue = r]
      BY <2>3, <3>1
    <3> HIDE DEF v
    <3>3. r \in Seq(Steps)
      BY <2>2 DEF Queued
    <3> QED BY <3>2, <3>3 DEF Workers
  <2>5. /\ v.epoch = u.epoch /\ v.runner = u.runner /\ v.entries = u.entries
        /\ v.cursor = u.cursor /\ v.limits = u.limits /\ v.execFileOps = u.execFileOps
        /\ v.entryFileOps = u.entryFileOps /\ v.prep = u.prep /\ v.realCmd = u.realCmd
        /\ v.parked = u.parked /\ v.queue = r
        /\ v.executed = u.executed + Total(tape)
        /\ v.playback = u.playback /\ v.drained = u.drained
        /\ v.dispFileOps = u.dispFileOps
    BY <2>3 DEF Workers
  <2> HIDE DEF v
  <2>6. Enqueued(u, v, i, tape, last, ops)
    BY <1>4, <2>2, <2>4, <2>5 DEF Enqueued
  <2> QED BY <2>6 DEF v
<1> QED BY <1>1, <1>3, <1>4

\* A metered batch goes behind the queue.
LEMMA EnqueueQueue ==
  ASSUME NEW u \in Workers, ~u.prep, NEW i \in Nat, NEW tape \in Seq(Nat),
         NEW last \in BOOLEAN, NEW ops \in Nat
  PROVE  EnqueueBatch(u, i, tape, last, ops).queue = u.queue \o Batch(i, tape, last, ops)
<1>1. PICK r : r = u.queue \o Batch(i, tape, last, ops)
  OBVIOUS
<1>2. PICK x : x = u.executed + Total(tape)
  OBVIOUS
<1>3. EnqueueBatch(u, i, tape, last, ops) = [u EXCEPT !.executed = x, !.queue = r]
  BY <1>1, <1>2 DEF EnqueueBatch, Metered, Batch, Closed, ClosingMarker, Workers
<1>4. EnqueueBatch(u, i, tape, last, ops).queue = r
  BY <1>3 DEF Workers
<1> QED BY <1>1, <1>4

-----------------------------------------------------------------------------
(* pump() *)

\* The rounds of pump(), one after the other.
IsPumping(g, u, n) ==
  \A k \in 0 .. n :
    g[k] = IF k = 0 THEN u
           ELSE IF PumpGoesOn(g[k - 1]) THEN PumpOnce(g[k - 1]) ELSE g[k - 1]

\* The recursion in Pump has a solution.
LEMMA PumpingExists ==
  ASSUME NEW u, NEW n \in Nat
  PROVE  \E g : g = [k \in 0 .. n |-> g[k]] /\ IsPumping(g, u, n)
<1> DEFINE Runs(m) == \E g : g = [k \in 0 .. m |-> g[k]] /\ IsPumping(g, u, m)
           T == {m \in Nat : Runs(m)}
<1>1. 0 \in T
  <2>1. PICK g : g = [k \in 0 .. 0 |-> u]
    OBVIOUS
  <2>2. g = [k \in 0 .. 0 |-> g[k]] /\ IsPumping(g, u, 0)
    BY <2>1 DEF IsPumping
  <2>3. Runs(0)
    BY <2>2
  <2> HIDE DEF Runs
  <2> QED BY <2>3
<1>2. \A m \in Nat : m \in T => m + 1 \in T
  <2> SUFFICES ASSUME NEW m \in Nat, Runs(m) PROVE Runs(m + 1)
    <3> HIDE DEF Runs
    <3> QED OBVIOUS
  <2>1. PICK g : g = [k \in 0 .. m |-> g[k]] /\ IsPumping(g, u, m)
    OBVIOUS
  <2>2. PICK next : next = IF PumpGoesOn(g[m]) THEN PumpOnce(g[m]) ELSE g[m]
    OBVIOUS
  <2>3. PICK h : h = [k \in 0 .. m + 1 |-> IF k = m + 1 THEN next ELSE g[k]]
    OBVIOUS
  <2>4. h[m + 1] = next /\ \A k \in 0 .. m : h[k] = g[k]
    BY <2>3
  <2>5. ASSUME NEW k \in 0 .. m + 1
        PROVE  h[k] = IF k = 0 THEN u
                      ELSE IF PumpGoesOn(h[k - 1]) THEN PumpOnce(h[k - 1]) ELSE h[k - 1]
    <3>1. CASE k = m + 1
      <4>1. k # 0 /\ k - 1 = m /\ h[k - 1] = g[m] /\ h[k] = next
        BY <2>4, <3>1
      <4> QED BY <2>2, <4>1
    <3>2. CASE k # m + 1
      <4>1. k \in 0 .. m /\ h[k] = g[k] /\ (k # 0 => h[k - 1] = g[k - 1])
        BY <2>4, <3>2
      <4>2. g[k] = IF k = 0 THEN u
                   ELSE IF PumpGoesOn(g[k - 1]) THEN PumpOnce(g[k - 1]) ELSE g[k - 1]
        BY <2>1, <4>1 DEF IsPumping
      <4> QED BY <4>1, <4>2
    <3> QED BY <3>1, <3>2
  <2>6. IsPumping(h, u, m + 1)
    BY <2>5 DEF IsPumping
  <2>7. h = [k \in 0 .. m + 1 |-> h[k]]
    BY <2>3
  <2> QED BY <2>6, <2>7
<1>3. n \in T
  <2>1. Nat \subseteq T
    <3> HIDE DEF T
    <3> QED BY <1>1, <1>2, SetInduction
  <2> HIDE DEF T
  <2> QED BY <2>1
<1>4. Runs(n)
  <2> HIDE DEF Runs
  <2> QED BY <1>3
<1> QED BY <1>4

\* What every round of pump() keeps, pump() keeps.
LEMMA PumpStays ==
  ASSUME NEW S, NEW u \in S, Len(u.entries) \in Nat,
         \A v \in S : PumpGoesOn(v) => PumpOnce(v) \in S,
         \A v \in S : [v EXCEPT !.parked = FALSE] \in S
  PROVE  Pump(u) \in S
<1> DEFINE rounds == Len(u.entries) + 1
           Eq(g) == g = [n \in 0 .. rounds |->
                           IF n = 0 THEN u
                           ELSE IF PumpGoesOn(g[n - 1]) THEN PumpOnce(g[n - 1]) ELSE g[n - 1]]
           after == CHOOSE g : Eq(g)
<1>1. rounds \in Nat
  OBVIOUS
<1>2. PICK g : g = [k \in 0 .. rounds |-> g[k]] /\ IsPumping(g, u, rounds)
  <2> HIDE DEF rounds
  <2> QED BY <1>1, PumpingExists
<1>3. Eq(g)
  <2> HIDE DEF rounds
  <2> QED BY <1>2 DEF IsPumping
<1>4. Eq(after)
  <2> HIDE DEF Eq
  <2> QED BY <1>3
<1>5. /\ after[0] = u
      /\ \A k \in 0 .. rounds : k # 0 =>
           after[k] = IF PumpGoesOn(after[k - 1]) THEN PumpOnce(after[k - 1]) ELSE after[k - 1]
  <2> HIDE DEF after, rounds
  <2> QED BY <1>1, <1>4
<1>6. Pump(u) = [after[rounds] EXCEPT !.parked = FALSE]
  BY DEF Pump
<1> HIDE DEF after, rounds
<1> DEFINE T == {n \in Nat : n <= rounds => after[n] \in S}
<1>7. 0 \in T
  BY <1>5
<1>8. \A n \in Nat : n \in T => n + 1 \in T
  <2> SUFFICES ASSUME NEW n \in Nat, n \in T, n + 1 <= rounds PROVE after[n + 1] \in S
    OBVIOUS
  <2>1. n + 1 \in 0 .. rounds /\ n + 1 # 0 /\ (n + 1) - 1 = n /\ after[n] \in S
    BY <1>1
  <2>2. after[n + 1] = IF PumpGoesOn(after[n]) THEN PumpOnce(after[n]) ELSE after[n]
    BY <1>5, <2>1
  <2> QED BY <2>1, <2>2
<1>9. rounds \in T
  <2>1. Nat \subseteq T
    <3> HIDE DEF T
    <3> QED BY <1>7, <1>8, SetInduction
  <2> HIDE DEF T
  <2> QED BY <1>1, <2>1
<1>10. after[rounds] \in S
  BY <1>1, <1>9
<1> QED BY <1>6, <1>10

-----------------------------------------------------------------------------
(* drain() *)

\* A queue whose steps are no longer than those of another has no more left to play.
LEMMA UnplayedPointwise ==
  ASSUME NEW q \in Seq(Steps), NEW r \in Seq(Steps), Len(r) = Len(q),
         \A i \in 1 .. Len(r) : r[i].ns <= q[i].ns
  PROVE  Unplayed(r) <= Unplayed(q)
<1>1. /\ Times(q) \in Seq(Nat) /\ Len(Times(q)) = Len(q)
      /\ Times(r) \in Seq(Nat) /\ Len(Times(r)) = Len(r)
  BY TimesType
<1>2. Summable(Times(q)) /\ Summable(Times(r))
  BY <1>1, SequencesAreSummable
<1>3. /\ \A i \in 1 .. Len(q) : Times(q)[i] = q[i].ns
      /\ \A i \in 1 .. Len(r) : Times(r)[i] = r[i].ns
  BY DEF Times
<1>4. DOMAIN Times(r) = 1 .. Len(r) /\ DOMAIN Times(q) = 1 .. Len(q)
  BY <1>1
<1>5. SumFunction(Times(r)) <= SumFunction(Times(q))
  <2>1. PICK f : f = Times(r)
    OBVIOUS
  <2>2. PICK g : g = Times(q)
    OBVIOUS
  <2>3. /\ Summable(f) /\ Summable(g) /\ DOMAIN f \subseteq DOMAIN g
        /\ \A x \in DOMAIN f : f[x] <= g[x]
    BY <1>2, <1>3, <1>4, <2>1, <2>2
  <2>4. SumFunction(f) <= SumFunction(g)
    BY ONLY <2>3, SumMonotone
  <2> QED BY <2>1, <2>2, <2>4
<1> QED BY <1>5 DEF Unplayed, Times

\* A queue of one step has the time of the step left.
LEMMA UnplayedOfOne ==
  ASSUME NEW x \in Steps
  PROVE  Unplayed(<<x>>) = x.ns /\ Credits(<<x>>) = x.ops
<1>1. x.ns \in Nat /\ x.ops \in Nat
  BY DEF Steps
<1>2. PICK z \in Seq(Nat) : z = <<>>
  BY EmptySeq
<1>3. SumFunction(z) = 0
  BY <1>2, SumOfNothing
<1>4. /\ SumFunction(Append(z, x.ns)) = SumFunction(z) + x.ns
      /\ SumFunction(Append(z, x.ops)) = SumFunction(z) + x.ops
  BY <1>1, SumOfAppend
<1>5. Times(<<x>>) = Append(<<>>, x.ns) /\ Marks(<<x>>) = Append(<<>>, x.ops)
  BY DEF Times, Marks
<1> QED BY <1>1, <1>2, <1>3, <1>4, <1>5 DEF Unplayed, Credits, Times, Marks

\* r is what q leaves when its first k steps are done and a of the next.
Remains(q, r, k, a) ==
  /\ r \in Seq(Steps)
  /\ Len(r) = Len(q) - k
  /\ \A n \in 1 .. Len(r) :
       /\ r[n].entry = q[k + n].entry /\ r[n].last = q[k + n].last
       /\ r[n].ops = q[k + n].ops /\ r[n].ns <= q[k + n].ns
  /\ Unplayed(q) = Unplayed(SubSeq(q, 1, k)) + a + Unplayed(r)
  /\ Credits(q) = Credits(SubSeq(q, 1, k)) + Credits(r)

\* What is left of each step.
Leaves(q, r, k, a) ==
  \A n \in 1 .. Len(r) : r[n].ns = IF n = 1 THEN q[k + 1].ns - a ELSE q[k + n].ns

\* The entry of the last marker among the first k steps.
LastClosed(q, k, d) ==
  IF {n \in 1 .. k : q[n].last} = {} THEN d ELSE q[Max({n \in 1 .. k : q[n].last})].entry

\* v is u when the first k steps of its queue have been played and a of the next.
Spent(u, v, k, a) ==
  /\ v \in Workers
  /\ v.epoch = u.epoch /\ v.runner = u.runner /\ v.entries = u.entries
  /\ v.cursor = u.cursor /\ v.limits = u.limits /\ v.execFileOps = u.execFileOps
  /\ v.entryFileOps = u.entryFileOps /\ v.prep = u.prep /\ v.realCmd = u.realCmd
  /\ v.parked = u.parked /\ v.executed = u.executed
  /\ k \in 0 .. Len(u.queue) /\ a \in Nat
  /\ Remains(u.queue, v.queue, k, a)
  /\ v.playback = u.playback + Unplayed(SubSeq(u.queue, 1, k)) + a
  /\ v.dispFileOps = u.dispFileOps + Credits(SubSeq(u.queue, 1, k))
  /\ v.drained = LastClosed(u.queue, k, u.drained)

\* Nothing of the next step is played.
LEMMA RemainsWhole ==
  ASSUME NEW q \in Seq(Steps), NEW k \in 0 .. Len(q)
  PROVE  /\ Remains(q, SubSeq(q, k + 1, Len(q)), k, 0)
         /\ Leaves(q, SubSeq(q, k + 1, Len(q)), k, 0)
<1>1. PICK r : r = SubSeq(q, k + 1, Len(q))
  OBVIOUS
<1>2. r \in Seq(Steps) /\ Unplayed(q) = Unplayed(SubSeq(q, 1, k)) + Unplayed(r)
      /\ Credits(q) = Credits(SubSeq(q, 1, k)) + Credits(r) /\ SubSeq(q, 1, k) \in Seq(Steps)
  BY <1>1, UnplayedOfParts
<1>3. Len(r) = Len(q) - k /\ \A n \in 1 .. Len(r) : r[n] = q[k + n]
  <2>1. /\ k + 1 \in Int /\ Len(q) \in Int /\ \A i \in k + 1 .. Len(q) : q[i] \in Steps
    OBVIOUS
  <2>2. /\ Len(r) = IF k + 1 <= Len(q) THEN Len(q) - (k + 1) + 1 ELSE 0
        /\ \A i \in 1 .. Len(q) - (k + 1) + 1 : r[i] = q[(k + 1) + i - 1]
    BY <1>1, <2>1, SubSeqProperties
  <2>3. Len(r) = Len(q) - k
    BY <2>2
  <2>4. ASSUME NEW n \in 1 .. Len(r) PROVE r[n] = q[k + n]
    <3>1. n \in 1 .. Len(q) - (k + 1) + 1 /\ (k + 1) + n - 1 = k + n
      BY <2>3
    <3> QED BY <2>2, <3>1
  <2> QED BY <2>3, <2>4
<1>4. \A n \in 1 .. Len(r) : r[n].ns <= q[k + n].ns
  <2> SUFFICES ASSUME NEW n \in 1 .. Len(r) PROVE r[n].ns <= q[k + n].ns
    OBVIOUS
  <2>1. r[n].ns \in Nat
    BY <1>2, StepFields
  <2> QED BY <1>3, <2>1
<1>5. PICK head : head = SubSeq(q, 1, k)
  OBVIOUS
<1>6. Unplayed(head) \in Nat /\ Unplayed(r) \in Nat
  <2>1. head \in Seq(Steps) /\ r \in Seq(Steps)
    BY <1>2, <1>5
  <2> QED BY ONLY <2>1, UnplayedType
<1>7. Unplayed(q) = Unplayed(head) + 0 + Unplayed(r)
  BY <1>2, <1>5, <1>6
<1>8. Remains(q, r, k, 0)
  BY <1>2, <1>3, <1>4, <1>5, <1>7 DEF Remains
<1>9. Leaves(q, r, k, 0)
  <2> SUFFICES ASSUME NEW n \in 1 .. Len(r)
               PROVE  r[n].ns = IF n = 1 THEN q[k + 1].ns - 0 ELSE q[k + n].ns
    BY DEF Leaves
  <2>1. r[n].ns \in Nat /\ r[n] = q[k + n]
    BY <1>2, <1>3, StepFields
  <2> QED BY <2>1
<1> QED BY <1>1, <1>8, <1>9

\* A part of the next step is played, and it is carried forward.
LEMMA RemainsCarried ==
  ASSUME NEW q \in Seq(Steps), NEW k \in Nat, k < Len(q), NEW a \in Nat, a <= q[k + 1].ns
  PROVE  /\ Remains(q, <<Carried(q[k + 1], a)>> \o SubSeq(q, k + 2, Len(q)), k, a)
         /\ Leaves(q, <<Carried(q[k + 1], a)>> \o SubSeq(q, k + 2, Len(q)), k, a)
<1>1. PICK rest : rest = SubSeq(q, k + 2, Len(q))
  OBVIOUS
<1>2. PICK x : x = Carried(q[k + 1], a)
  OBVIOUS
<1>3. k + 1 \in 1 .. Len(q) /\ k + 1 \in 0 .. Len(q) /\ k \in 0 .. Len(q) /\ Len(q) \in Nat
  OBVIOUS
<1>4. q[k + 1] \in Steps /\ q[k + 1].ns \in Nat
  BY <1>3, StepFields
<1>5. /\ x \in Steps /\ x.entry = q[k + 1].entry /\ x.last = q[k + 1].last
      /\ x.ops = q[k + 1].ops /\ x.ns = q[k + 1].ns - a /\ x.ns <= q[k + 1].ns
  <2>1. PICK s \in Steps : s = q[k + 1]
    BY <1>4
  <2>2. s.ns \in Nat
    BY <2>1, <1>4
  <2>3. PICK ns \in Nat : ns = s.ns - a /\ ns <= s.ns
    <3>1. s.ns - a \in Nat /\ s.ns - a <= s.ns
      BY <2>1, <2>2
    <3> QED BY <3>1
  <2>4. x = [s EXCEPT !.ns = ns, !.started = TRUE]
    BY <1>2, <2>1, <2>3 DEF Carried
  <2>5. x \in Steps /\ x.entry = s.entry /\ x.last = s.last /\ x.ops = s.ops /\ x.ns = ns
    BY <2>4 DEF Steps
  <2> QED BY <2>1, <2>3, <2>5
<1>6. /\ rest \in Seq(Steps)
      /\ Unplayed(q) = Unplayed(SubSeq(q, 1, k + 1)) + Unplayed(rest)
      /\ Credits(q) = Credits(SubSeq(q, 1, k + 1)) + Credits(rest)
  <2>1. (k + 1) + 1 = k + 2
    OBVIOUS
  <2> QED BY <1>1, <1>3, <2>1, UnplayedOfParts
<1>7. /\ SubSeq(q, 1, k) \in Seq(Steps)
      /\ Unplayed(SubSeq(q, 1, k + 1)) = Unplayed(SubSeq(q, 1, k)) + q[k + 1].ns
      /\ Credits(SubSeq(q, 1, k + 1)) = Credits(SubSeq(q, 1, k)) + q[k + 1].ops
  <2>1. SubSeq(q, 1, k) \in Seq(Steps) /\ <<q[k + 1]>> \in Seq(Steps)
    BY <1>3, <1>4, UnplayedOfParts
  <2>2. SubSeq(q, 1, k + 1) = SubSeq(q, 1, k) \o <<q[k + 1]>>
    <3>1. 1 \in 1 .. Len(q) /\ k + 1 \in 1 .. Len(q) /\ (k + 1) - 1 = k
      BY <1>3
    <3> QED BY <3>1, SubSeqRecursiveSecond
  <2>3. /\ Unplayed(SubSeq(q, 1, k) \o <<q[k + 1]>>) = Unplayed(SubSeq(q, 1, k)) + Unplayed(<<q[k + 1]>>)
        /\ Credits(SubSeq(q, 1, k) \o <<q[k + 1]>>) = Credits(SubSeq(q, 1, k)) + Credits(<<q[k + 1]>>)
    BY <2>1, UnplayedOfJoin
  <2>4. Unplayed(<<q[k + 1]>>) = q[k + 1].ns /\ Credits(<<q[k + 1]>>) = q[k + 1].ops
    BY <1>4, UnplayedOfOne
  <2> QED BY <2>1, <2>2, <2>3, <2>4
<1>8. PICK r : r = <<x>> \o rest
  OBVIOUS
<1>9. PICK h : h = <<x>>
  OBVIOUS
<1>10. h \in Seq(Steps) /\ Len(h) = 1 /\ h[1] = x
  BY <1>5, <1>9
<1>11. /\ r \in Seq(Steps) /\ Len(r) = 1 + Len(rest)
       /\ \A n \in 1 .. 1 + Len(rest) : r[n] = IF n <= 1 THEN h[n] ELSE rest[n - 1]
  <2>1. h \in Seq(Steps) /\ rest \in Seq(Steps) /\ r = h \o rest /\ Len(h) = 1
    BY <1>6, <1>8, <1>9, <1>10
  <2>2. /\ h \o rest \in Seq(Steps) /\ Len(h \o rest) = Len(h) + Len(rest)
        /\ \A n \in 1 .. Len(h) + Len(rest) :
             (h \o rest)[n] = IF n <= Len(h) THEN h[n] ELSE rest[n - Len(h)]
    BY <1>6, <1>10, ConcatProperties
  <2> QED BY <2>1, <2>2
<1>12. Unplayed(r) = x.ns + Unplayed(rest) /\ Credits(r) = x.ops + Credits(rest)
  <2>1. Unplayed(h) = x.ns /\ Credits(h) = x.ops
    BY <1>5, <1>9, UnplayedOfOne
  <2>2. Unplayed(h \o rest) = Unplayed(h) + Unplayed(rest)
        /\ Credits(h \o rest) = Credits(h) + Credits(rest)
    BY <1>6, <1>10, UnplayedOfJoin
  <2> QED BY <1>8, <1>9, <2>1, <2>2
<1>13. Len(rest) = Len(q) - (k + 1) /\ \A n \in 1 .. Len(rest) : rest[n] = q[k + 1 + n]
  <2>1. /\ k + 2 \in Int /\ Len(q) \in Int /\ \A i \in k + 2 .. Len(q) : q[i] \in Steps
    BY <1>3
  <2>2. /\ Len(rest) = IF k + 2 <= Len(q) THEN Len(q) - (k + 2) + 1 ELSE 0
        /\ \A i \in 1 .. Len(q) - (k + 2) + 1 : rest[i] = q[(k + 2) + i - 1]
    BY <1>1, <2>1, SubSeqProperties
  <2>3. Len(rest) = Len(q) - (k + 1)
    BY <1>3, <2>2
  <2>4. ASSUME NEW n \in 1 .. Len(rest) PROVE rest[n] = q[k + 1 + n]
    <3>1. n \in 1 .. Len(q) - (k + 2) + 1 /\ (k + 2) + n - 1 = k + 1 + n
      BY <1>3, <2>3
    <3> QED BY <2>2, <3>1
  <2> QED BY <2>3, <2>4
<1>14. Len(r) = Len(q) - k
  BY <1>3, <1>11, <1>13
<1>15. ASSUME NEW n \in 1 .. Len(r)
       PROVE  /\ r[n].entry = q[k + n].entry /\ r[n].last = q[k + n].last
              /\ r[n].ops = q[k + n].ops /\ r[n].ns <= q[k + n].ns
  <2>1. CASE n = 1
    <3>1. r[n] = x
      BY <1>10, <1>11, <2>1
    <3> QED BY <1>5, <2>1, <3>1
  <2>2. CASE n # 1
    <3>1. n \in 1 .. 1 + Len(rest) /\ ~(n <= 1) /\ n - 1 \in 1 .. Len(rest)
          /\ k + 1 + (n - 1) = k + n /\ k + n \in 1 .. Len(q)
      BY <1>3, <1>11, <1>13, <2>2
    <3>2. r[n] = q[k + n]
      BY <1>11, <1>13, <3>1
    <3>3. q[k + n].ns \in Nat
      BY <3>1, StepFields
    <3> QED BY <3>2, <3>3
  <2> QED BY <2>1, <2>2
<1>16. /\ Unplayed(SubSeq(q, 1, k)) \in Nat /\ Unplayed(rest) \in Nat
       /\ Credits(SubSeq(q, 1, k)) \in Nat /\ Credits(rest) \in Nat
  BY <1>6, <1>7, UnplayedType
<1>17. q[k + 1].ops \in Nat
  BY <1>3, StepFields
<1>18. /\ Unplayed(q) = Unplayed(SubSeq(q, 1, k)) + a + Unplayed(r)
       /\ Credits(q) = Credits(SubSeq(q, 1, k)) + Credits(r)
  <2>1. PICK ua \in Nat, ub \in Nat, ca \in Nat, cb \in Nat, ns \in Nat, ops \in Nat :
          /\ ua = Unplayed(SubSeq(q, 1, k)) /\ ub = Unplayed(rest)
          /\ ca = Credits(SubSeq(q, 1, k)) /\ cb = Credits(rest)
          /\ ns = q[k + 1].ns /\ ops = q[k + 1].ops
    BY <1>4, <1>16, <1>17
  <2>2. Unplayed(q) = ua + ns + ub /\ Credits(q) = ca + ops + cb
    BY <1>6, <1>7, <2>1
  <2>3. Unplayed(r) = (ns - a) + ub /\ Credits(r) = ops + cb
    BY <1>5, <1>12, <2>1
  <2>4. ua + ns + ub = ua + a + ((ns - a) + ub) /\ ca + ops + cb = ca + (ops + cb)
    OBVIOUS
  <2> QED BY <2>1, <2>2, <2>3, <2>4
<1>19. Remains(q, r, k, a)
  BY <1>11, <1>14, <1>15, <1>18 DEF Remains
<1>20. Leaves(q, r, k, a)
  <2> SUFFICES ASSUME NEW n \in 1 .. Len(r)
               PROVE  r[n].ns = IF n = 1 THEN q[k + 1].ns - a ELSE q[k + n].ns
    BY DEF Leaves
  <2>1. CASE n = 1
    <3>1. r[n] = x
      BY <1>10, <1>11, <2>1
    <3> QED BY <1>5, <2>1, <3>1
  <2>2. CASE n # 1
    <3>1. n \in 1 .. 1 + Len(rest) /\ ~(n <= 1) /\ n - 1 \in 1 .. Len(rest)
          /\ k + 1 + (n - 1) = k + n
      BY <1>3, <1>11, <1>13, <2>2
    <3>2. r[n] = q[k + n]
      BY <1>11, <1>13, <3>1
    <3> QED BY <2>2, <3>2
  <2> QED BY <2>1, <2>2
<1> QED BY <1>1, <1>2, <1>8, <1>19, <1>20

\* Of a budget of b no more is spent, but something is; a step that is cut off has
\* something left.
Spends(q, r, b, k, a) ==
  /\ Leaves(q, r, k, a)
  /\ b # Infinity => Unplayed(SubSeq(q, 1, k)) + a <= b
  /\ k = 0 => 0 < a
  /\ 0 < a => k < Len(q) /\ a < q[k + 1].ns

\* drain() finishes as many steps as it may and begins the next one, if it may.
LEMMA SpendIs ==
  ASSUME NEW u \in Workers, u.queue # <<>>, NEW b, b = Infinity \/ (b \in Int /\ 0 < b)
  PROVE  \E k \in Nat, a \in Nat : /\ Spent(u, Spend(u, b), k, a)
                                  /\ Spends(u.queue, Spend(u, b).queue, b, k, a)
<1> DEFINE begun(q, n)  == IF n > 0 /\ q[1].started THEN n - 1 ELSE n
           time(q, n)   == Unplayed(SubSeq(q, 1, n))
           finishes(q, n) == /\ b # Infinity => time(q, n) <= b
                             /\ begun(q, n) <= MAX_OPS_PER_FRAME
           Finished(q)  == {n \in 0 .. Len(q) : finishes(q, n)}
           Best(q)      == CHOOSE n \in 0 .. Len(q) :
                             finishes(q, n) /\ \A m \in n + 1 .. Len(q) : ~finishes(q, m)
           begins(q, n) == n < Len(q) /\ begun(q, n) < MAX_OPS_PER_FRAME
<1>1. PICK q \in Seq(Steps) : q = u.queue /\ Len(q) \in Nat \ {0}
  <2>1. u.queue \in Seq(Steps)
    BY WorkerFields
  <2> QED BY <2>1
<1>2. \A n \in 0 .. Len(q) : time(q, n) \in Nat /\ begun(q, n) \in Nat
  <2> SUFFICES ASSUME NEW n \in 0 .. Len(q) PROVE time(q, n) \in Nat /\ begun(q, n) \in Nat
    OBVIOUS
  <2>1. SubSeq(q, 1, n) \in Seq(Steps)
    BY UnplayedOfParts
  <2>2. Unplayed(SubSeq(q, 1, n)) \in Nat
    BY <2>1, UnplayedType
  <2> QED BY <2>2
<1>3. time(q, 0) = 0 /\ begun(q, 0) = 0
  <2>1. SubSeq(q, 1, 0) = <<>>
    OBVIOUS
  <2>2. time(q, 0) = 0
    BY <2>1, UnplayedOfNothing
  <2> QED BY <2>2
<1>4. finishes(q, 0)
  <2>1. b # Infinity => 0 <= b
    OBVIOUS
  <2> HIDE DEF time, begun
  <2> QED BY <1>3, <2>1, Caps
<1>5. /\ Best(q) \in 0 .. Len(q)
      /\ finishes(q, Best(q)) /\ \A m \in Best(q) + 1 .. Len(q) : ~finishes(q, m)
  <2>1. Finished(q) \subseteq 0 .. Len(q) /\ Finished(q) # {}
    <3> HIDE DEF finishes
    <3> QED BY <1>1, <1>4
  <2>2. PICK s : s = Finished(q) \cap 1 .. Len(q)
    OBVIOUS
  <2>3. PICK x \in Finished(q) : \A y \in Finished(q) : x >= y
    <3>1. CASE s = {}
      <4>1. 0 \in Finished(q) /\ \A y \in Finished(q) : 0 >= y
        <5> HIDE DEF Finished
        <5> QED BY <2>1, <2>2, <3>1
      <4> HIDE DEF Finished
      <4> QED BY <4>1
    <3>2. CASE s # {}
      <4>1. s \in SUBSET (1 .. Len(q)) /\ Len(q) \in Nat
        BY <1>1, <2>2
      <4>2. PICK x : x \in s /\ \A y \in s : x >= y
        BY <3>2, <4>1, LastPosition
      <4>3. x \in Finished(q) /\ \A y \in Finished(q) : x >= y
        <5> SUFFICES ASSUME NEW y \in Finished(q) PROVE x >= y
          <6> HIDE DEF Finished
          <6> QED BY <2>2, <4>2
        <5>1. y \in s \/ y = 0
          <6> HIDE DEF Finished
          <6> QED BY <2>1, <2>2
        <5>2. x \in 1 .. Len(q)
          BY <4>1, <4>2
        <5>3. y \in s => x >= y
          BY <4>2
        <5>4. y = 0 => x >= y
          BY <5>2
        <5> HIDE DEF Finished
        <5> QED BY <5>1, <5>3, <5>4
      <4> HIDE DEF Finished
      <4> QED BY <4>3
    <3> HIDE DEF Finished
    <3> QED BY <3>1, <3>2
  <2>4. x \in 0 .. Len(q) /\ finishes(q, x) /\ \A m \in x + 1 .. Len(q) : ~finishes(q, m)
    <3> HIDE DEF finishes
    <3> QED BY <1>1, <2>3
  <2> HIDE DEF finishes
  <2> QED BY <2>4
<1>6. PICK k \in 0 .. Len(q) : /\ k = Best(q) /\ finishes(q, k)
                               /\ \A m \in k + 1 .. Len(q) : ~finishes(q, m)
  <2> HIDE DEF finishes, Best
  <2> QED BY <1>5
<1>7. PICK v : v = Spend(u, b)
  OBVIOUS
<1>8. v = [u EXCEPT
             !.playback    = @ + IF begins(q, k) THEN b ELSE time(q, k),
             !.queue       = IF begins(q, k)
                             THEN <<Carried(q[k + 1], b - time(q, k))>> \o SubSeq(q, k + 2, Len(q))
                             ELSE SubSeq(q, k + 1, Len(q)),
             !.drained     = LastClosed(q, k, @),
             !.dispFileOps = @ + Credits(SubSeq(q, 1, k))]
  <2>1. Spend(u, b) =
          [u EXCEPT
             !.playback    = @ + IF begins(u.queue, Best(u.queue)) THEN b
                                 ELSE time(u.queue, Best(u.queue)),
             !.queue       = IF begins(u.queue, Best(u.queue))
                             THEN <<Carried(u.queue[Best(u.queue) + 1],
                                            b - time(u.queue, Best(u.queue)))>>
                                    \o SubSeq(u.queue, Best(u.queue) + 2, Len(u.queue))
                             ELSE SubSeq(u.queue, Best(u.queue) + 1, Len(u.queue)),
             !.drained     = LastClosed(u.queue, Best(u.queue), @),
             !.dispFileOps = @ + Credits(SubSeq(u.queue, 1, Best(u.queue)))]
    BY DEF Spend, LastClosed
  <2> HIDE DEF Best, begins, time
  <2> QED BY <1>1, <1>6, <1>7, <2>1
<1> HIDE DEF Best
<1>9. PICK t \in Nat, c \in Nat : t = time(q, k) /\ c = Credits(SubSeq(q, 1, k))
  <2>1. SubSeq(q, 1, k) \in Seq(Steps)
    BY UnplayedOfParts
  <2>2. Credits(SubSeq(q, 1, k)) \in Nat
    BY <2>1, UnplayedType
  <2> HIDE DEF time
  <2> QED BY <1>2, <2>2
<1>10. PICK d \in Int : d = LastClosed(q, k, u.drained)
  <2>1. u.drained \in Int
    BY WorkerFields
  <2>2. CASE {n \in 1 .. k : q[n].last} = {}
    BY <2>1, <2>2 DEF LastClosed
  <2>3. CASE {n \in 1 .. k : q[n].last} # {}
    <3>1. PICK s : s = {n \in 1 .. k : q[n].last}
      OBVIOUS
    <3>2. PICK x : x = Max(s)
      OBVIOUS
    <3>3. x \in s
      <4>1. s \in SUBSET (1 .. Len(q)) /\ s # {} /\ Len(q) \in Nat
        BY <2>3, <3>1
      <4> QED BY <3>2, <4>1, LastPosition
    <3>4. x \in 1 .. Len(q)
      BY <3>1, <3>3
    <3>5. q[x].entry \in Nat
      BY <3>4, StepFields
    <3>6. LastClosed(q, k, u.drained) = q[x].entry
      BY <2>3, <3>1, <3>2 DEF LastClosed
    <3>7. q[x].entry \in Int
      BY <3>5
    <3> QED BY <3>6, <3>7
  <2> QED BY <2>2, <2>3
<1>11. PICK a \in Nat, r \in Seq(Steps) :
          /\ Remains(q, r, k, a)
          /\ v = [u EXCEPT !.playback = @ + (t + a), !.queue = r, !.drained = d,
                           !.dispFileOps = @ + c]
          /\ Spends(q, r, b, k, a)
  <2>1. CASE ~begins(q, k)
    <3>1. PICK r : r = SubSeq(q, k + 1, Len(q))
      OBVIOUS
    <3>2. Remains(q, r, k, 0) /\ Leaves(q, r, k, 0)
      BY <3>1, RemainsWhole
    <3>3. t + 0 = t /\ r \in Seq(Steps)
      BY <3>2 DEF Remains
    <3>4. v = [u EXCEPT !.playback = @ + t, !.queue = r, !.drained = d, !.dispFileOps = @ + c]
      <4> HIDE DEF begins, time
      <4> QED BY <1>1, <1>8, <1>9, <1>10, <2>1, <3>1
    <3>5. b # Infinity => Unplayed(SubSeq(q, 1, k)) + 0 <= b
      <4>1. b # Infinity => t <= b
        <5> HIDE DEF time, begun
        <5> QED BY <1>6, <1>9
      <4> QED BY <1>9, <3>3, <4>1
    <3>6. k # 0
      <4> SUFFICES ASSUME k = 0 PROVE FALSE
        OBVIOUS
      <4>1. k < Len(q) /\ begun(q, k) = 0
        <5> HIDE DEF begun
        <5> QED BY <1>1, <1>3
      <4> HIDE DEF begun
      <4> QED BY <2>1, <4>1, Caps
    <3>7. Spends(q, r, b, k, 0)
      BY <3>2, <3>5, <3>6 DEF Spends
    <3> QED BY <3>2, <3>3, <3>4, <3>7
  <2>2. CASE begins(q, k)
    <3>1. k < Len(q) /\ begun(q, k) < MAX_OPS_PER_FRAME /\ k + 1 \in k + 1 .. Len(q)
      BY <1>1, <2>2
    <3>2. ~finishes(q, k + 1)
      <4> HIDE DEF finishes
      <4> QED BY <1>6, <3>1
    <3>3. begun(q, k + 1) <= MAX_OPS_PER_FRAME
      BY <3>1, Caps
    <3>4. b # Infinity /\ ~(time(q, k + 1) <= b)
      <4> HIDE DEF time, begun
      <4> QED BY <3>2, <3>3
    <3>5. b \in Int /\ t <= b
      <4> HIDE DEF time, begun
      <4> QED BY <1>6, <1>9, <3>4
    <3>6. PICK a \in Nat : a = b - t
      BY <3>5
    <3>7. k + 1 \in 1 .. Len(q) /\ q[k + 1].ns \in Nat
      <4>1. k + 1 \in 1 .. Len(q)
        BY <3>1
      <4> QED BY <4>1, StepFields
    <3>8. time(q, k + 1) = t + q[k + 1].ns
      <4>0. SubSeq(q, 1, k) \in Seq(Steps) /\ q[k + 1] \in Steps
        BY <3>7, UnplayedOfParts, StepFields
      <4>1. PICK h \in Seq(Steps), x \in Steps :
              h = SubSeq(q, 1, k) /\ x = q[k + 1] /\ <<x>> \in Seq(Steps)
        <5>1. PICK h \in Seq(Steps) : h = SubSeq(q, 1, k)
          BY <4>0
        <5>2. PICK x \in Steps : x = q[k + 1]
          BY <4>0
        <5> QED BY <5>1, <5>2
      <4>2. SubSeq(q, 1, k + 1) = h \o <<x>>
        <5>1. 1 \in 1 .. Len(q) /\ k + 1 \in 1 .. Len(q) /\ (k + 1) - 1 = k
          BY <3>7
        <5> QED BY <4>1, <5>1, SubSeqRecursiveSecond
      <4>3. Unplayed(h \o <<x>>) = Unplayed(h) + Unplayed(<<x>>)
        BY <4>1, UnplayedOfJoin
      <4>4. Unplayed(<<x>>) = x.ns
        BY UnplayedOfOne
      <4> QED BY <1>9, <4>1, <4>2, <4>3, <4>4
    <3>9. a < q[k + 1].ns
      <4>1. time(q, k + 1) \in Nat
        <5> HIDE DEF time
        <5> QED BY <3>7, <3>8
      <4>2. t + q[k + 1].ns > b
        <5> HIDE DEF time
        <5> QED BY <3>4, <3>5, <3>7, <3>8, <4>1
      <4> QED BY <3>5, <3>6, <3>7, <4>2
    <3>10. PICK r : r = <<Carried(q[k + 1], a)>> \o SubSeq(q, k + 2, Len(q))
      OBVIOUS
    <3>11. Remains(q, r, k, a) /\ Leaves(q, r, k, a)
      <4>1. a <= q[k + 1].ns
        BY <3>7, <3>9
      <4> QED BY <3>1, <3>10, <4>1, RemainsCarried
    <3>12. t + a = b /\ r \in Seq(Steps)
      BY <3>5, <3>6, <3>11 DEF Remains
    <3>13. v = [u EXCEPT !.playback = @ + b, !.queue = r, !.drained = d, !.dispFileOps = @ + c]
      <4> HIDE DEF begins, time
      <4> QED BY <1>1, <1>8, <1>9, <1>10, <2>2, <3>6, <3>10
    <3>14. Unplayed(SubSeq(q, 1, k)) + a <= b
      BY <1>9, <3>5, <3>12
    <3>15. k = 0 => 0 < a
      <4> SUFFICES ASSUME k = 0 PROVE 0 < a
        OBVIOUS
      <4>1. t = 0
        <5> HIDE DEF time
        <5> QED BY <1>3, <1>9
      <4> QED BY <3>4, <3>6, <4>1
    <3>16. Spends(q, r, b, k, a)
      BY <3>1, <3>9, <3>11, <3>14, <3>15 DEF Spends
    <3> QED BY <3>11, <3>12, <3>13, <3>16
  <2> QED BY <2>1, <2>2
<1>12. PICK pb \in Nat, do \in Nat : pb = u.playback + (t + a) /\ do = u.dispFileOps + c
  <2>1. u.playback \in Nat /\ u.dispFileOps \in Nat
    BY WorkerFields
  <2> QED BY <2>1
<1>13. v = [u EXCEPT !.playback = pb, !.queue = r, !.drained = d, !.dispFileOps = do]
  BY <1>11, <1>12
<1>14. v \in Workers
  BY <1>13 DEF Workers
<1>15. /\ v.epoch = u.epoch /\ v.runner = u.runner /\ v.entries = u.entries
       /\ v.cursor = u.cursor /\ v.limits = u.limits /\ v.execFileOps = u.execFileOps
       /\ v.entryFileOps = u.entryFileOps /\ v.prep = u.prep /\ v.realCmd = u.realCmd
       /\ v.parked = u.parked /\ v.executed = u.executed
       /\ v.queue = r /\ v.playback = pb /\ v.dispFileOps = do /\ v.drained = d
  BY <1>13 DEF Workers
<1>16. pb = u.playback + Unplayed(SubSeq(u.queue, 1, k)) + a
  <2>1. u.playback \in Nat
    BY WorkerFields
  <2> QED BY <1>1, <1>9, <1>12, <2>1
<1>17. Spent(u, v, k, a)
  <2> HIDE DEF begun, time, finishes, begins
  <2> QED BY <1>1, <1>9, <1>10, <1>11, <1>12, <1>14, <1>15, <1>16 DEF Spent
<1>18. Spends(u.queue, v.queue, b, k, a)
  <2> HIDE DEF begun, time, finishes, begins
  <2> QED BY <1>1, <1>11, <1>15
<1> QED BY <1>7, <1>17, <1>18

\* The budget of drain() is endless or a number.
LEMMA BudgetType ==
  ASSUME NEW u \in Workers
  PROVE  Budget(u) = Infinity \/ Budget(u) \in Int
<1>1. u.limits \in Grants /\ u.playback \in Nat
  BY WorkerFields
<1>2. u.limits.playLimit \in Nat \cup {Infinity}
  BY <1>1 DEF Grants
<1> QED BY <1>1, <1>2 DEF Budget

\* What playing and pump() keep, drain() keeps.
LEMMA DrainStays ==
  ASSUME NEW S, NEW u \in S, S \subseteq Workers,
         \A x \in S, v \in Workers : (\E k \in Nat, a \in Nat : Spent(x, v, k, a)) => v \in S,
         \A v \in S : Pump(v) \in S
  PROVE  Drain(u) \in S
<1>1. CASE u.queue = <<>> \/ (Budget(u) # Infinity /\ Budget(u) <= 0)
  BY <1>1 DEF Drain
<1>2. CASE ~(u.queue = <<>> \/ (Budget(u) # Infinity /\ Budget(u) <= 0))
  <2>1. PICK v : v = Spend(u, Budget(u))
    OBVIOUS
  <2>2. PICK b : b = Budget(u) /\ (b = Infinity \/ (b \in Int /\ 0 < b))
    BY <1>2, BudgetType
  <2>3. PICK k \in Nat, a \in Nat : Spent(u, v, k, a)
    BY <1>2, <2>1, <2>2, SpendIs
  <2>4. v \in S
    BY <2>3 DEF Spent
  <2>5. Drain(u) \in {v, Pump(v)}
    BY <1>2, <2>1 DEF Drain, Released
  <2> QED BY <2>4, <2>5
<1> QED BY <1>1, <1>2

-----------------------------------------------------------------------------
(* What a round of pump() does *)

\* What neither pump() nor drain() touches.
Same(u, v) ==
  v.epoch = u.epoch /\ v.runner = u.runner /\ v.entries = u.entries /\ v.limits = u.limits

\* v is u after the entry at its cursor has been closed.
Closes(u, v, tape, ops) ==
  /\ v \in Workers
  /\ Same(u, v)
  /\ v.prep = u.prep /\ v.realCmd = Idle /\ v.cursor = u.cursor + 1
  /\ u.prep => v.queue = u.queue /\ v.drained = u.cursor
  /\ ~u.prep =>
       /\ Queued(u.queue, v.queue, u.cursor, tape, TRUE, ops)
       /\ v.executed = u.executed + Total(tape)
       /\ v.playback = u.playback /\ v.drained = u.drained
       /\ v.dispFileOps = u.dispFileOps
  /\ v.execFileOps + Flying(u) = u.execFileOps + ops

\* v is u with the command at its cursor in flight.
Starts(u, v) ==
  /\ v \in Workers
  /\ Same(u, v)
  /\ v.prep = u.prep /\ v.realCmd = u.cursor /\ v.cursor = u.cursor
  /\ v.queue = u.queue /\ v.executed = u.executed /\ v.playback = u.playback
  /\ v.drained = u.drained /\ v.dispFileOps = u.dispFileOps
  /\ v.execFileOps = u.execFileOps /\ v.entryFileOps = 0

\* The entry at the cursor is an end of the bracket.
AtEnd(u) == u.entries[u.cursor + 1].kind \in {"prepOn", "prepOff"}

\* v is u past one end of the bracket.
Brackets(u, v) ==
  /\ v \in Workers
  /\ Same(u, v)
  /\ v.realCmd = u.realCmd /\ v.cursor = u.cursor + 1 /\ v.queue = u.queue
  /\ v.prep = (u.entries[u.cursor + 1].kind = "prepOn")
  /\ v.drained = u.cursor /\ (~v.prep => v.dispFileOps = 0)

Closing(u, v) == \E tape \in Seq(Nat), ops \in Nat : Closes(u, v, tape, ops)

\* The entry at the cursor of a worker that can go on is one of a plan.
LEMMA NextEntry ==
  ASSUME NEW u \in Workers, u.cursor < Len(u.entries)
  PROVE  /\ u.entries[u.cursor + 1] \in PlanEntries
         /\ u.entries[u.cursor + 1] \in Entries
         /\ u.entries[u.cursor + 1].script \in Seq(PlanOps)
         /\ u.entries[u.cursor + 1].script \in Seq(Operations)
         /\ u.entries[u.cursor + 1].kind \in {"churn", "command", "garbled", "prepOn", "prepOff"}
<1>1. u.cursor \in Nat /\ u.entries \in Seq(PlanEntries)
  BY WorkerFields
<1>2. PICK s \in Seq(PlanEntries) : s = u.entries
  BY <1>1
<1>3. u.cursor + 1 \in 1 .. Len(s)
  BY <1>1, <1>2
<1>4. s[u.cursor + 1] \in PlanEntries
  BY <1>3
<1>5. s[u.cursor + 1].script \in Seq(PlanOps) /\ s[u.cursor + 1] \in Entries
  BY <1>4, PlanTypes
<1> QED BY <1>2, <1>4, <1>5 DEF Entries

\* A churn entry counts as a file operation unless it is a gc step or issues nothing.
FileOps(script) == IF script # <<>> /\ Counts(script[1]) THEN 1 ELSE 0

\* It is executed in one go.
LEMMA ExecEntryIs ==
  ASSUME NEW u \in Workers, u.realCmd = Idle, NEW script \in Seq(Operations)
  PROVE  \E tape \in Seq(Nat), ops \in Nat :
           /\ tape = IF script = <<>> THEN <<>> ELSE script[1].tape
           /\ ops = FileOps(script)
           /\ Closes(u, ExecEntry(u, u.cursor, script), tape, ops)
           /\ ExecEntry(u, u.cursor, script).parked = u.parked
           /\ ~u.prep => ExecEntry(u, u.cursor, script).queue
                           = u.queue \o Batch(u.cursor, tape, TRUE, ops)
<1>1. PICK i \in Nat : i = u.cursor
  BY WorkerFields
<1>2. PICK x \in Nat : x = u.execFileOps
  BY WorkerFields
<1>3. PICK ops \in Nat, y \in Nat, tape \in Seq(Nat) :
        /\ ops = FileOps(script)
        /\ y = x + ops
        /\ tape = (IF script = <<>> THEN <<>> ELSE script[1].tape)
  <2>1. CASE script = <<>>
    <3>1. <<>> \in Seq(Nat) /\ x + 0 \in Nat
      OBVIOUS
    <3> QED BY <2>1, <3>1 DEF FileOps
  <2>2. CASE script # <<>>
    <3>1. 1 \in 1 .. Len(script)
      BY <2>2
    <3>2. script[1] \in Operations
      BY <3>1
    <3>3. script[1].tape \in Seq(Nat) /\ x + 1 \in Nat /\ x + 0 \in Nat
      BY <3>2 DEF Operations
    <3> QED BY <2>2, <3>3 DEF FileOps
  <2> QED BY <2>1, <2>2
<1>4. PICK d : d = [u EXCEPT !.entryFileOps = ops, !.execFileOps = y]
  OBVIOUS
<1>5. /\ d \in Workers
      /\ d.epoch = u.epoch /\ d.runner = u.runner /\ d.entries = u.entries
      /\ d.cursor = u.cursor /\ d.limits = u.limits /\ d.execFileOps = y
      /\ d.entryFileOps = ops /\ d.prep = u.prep /\ d.realCmd = u.realCmd
      /\ d.parked = u.parked /\ d.queue = u.queue /\ d.executed = u.executed
      /\ d.playback = u.playback /\ d.drained = u.drained /\ d.dispFileOps = u.dispFileOps
  BY <1>4 DEF Workers
<1>6. d = IF script = <<>> THEN [u EXCEPT !.entryFileOps = 0]
          ELSE CountFileOp([u EXCEPT !.entryFileOps = 0], script[1])
  <2>1. CASE FileOps(script) = 0
    <3>1. ops = 0 /\ y = u.execFileOps
      BY <1>2, <1>3, <2>1
    <3>2. d = [u EXCEPT !.entryFileOps = 0]
      BY <1>4, <3>1 DEF Workers
    <3>3. script = <<>> \/ ~Counts(script[1])
      BY <2>1 DEF FileOps
    <3> QED BY <3>2, <3>3 DEF CountFileOp
  <2>2. CASE FileOps(script) # 0
    <3>1. script # <<>> /\ Counts(script[1]) /\ FileOps(script) = 1
      BY <2>2 DEF FileOps
    <3>2. ops = 0 + 1 /\ y = u.execFileOps + 1
      BY <1>2, <1>3, <3>1
    <3>3. d = BumpFileOp([u EXCEPT !.entryFileOps = 0])
      BY <1>4, <3>2 DEF Workers, BumpFileOp
    <3> QED BY <3>1, <3>3 DEF CountFileOp
  <2> QED BY <2>1, <2>2
<1>7. PICK z : z = EnqueueBatch(d, i, tape, TRUE, ops)
  OBVIOUS
<1>8. Enqueued(d, z, i, tape, TRUE, ops)
  BY <1>5, <1>7, EnqueueIs
<1>9. PICK c \in Nat : c = i + 1
  OBVIOUS
<1>10. PICK v : v = [z EXCEPT !.cursor = c]
  OBVIOUS
<1>11. v = ExecEntry(u, u.cursor, script)
  BY <1>1, <1>3, <1>5, <1>6, <1>7, <1>9, <1>10 DEF ExecEntry
<1>12. z \in Workers
  BY <1>8 DEF Enqueued
<1>13. /\ v \in Workers
       /\ v.epoch = z.epoch /\ v.runner = z.runner /\ v.entries = z.entries
       /\ v.cursor = c /\ v.limits = z.limits /\ v.execFileOps = z.execFileOps
       /\ v.prep = z.prep /\ v.realCmd = z.realCmd /\ v.queue = z.queue
       /\ v.executed = z.executed /\ v.playback = z.playback /\ v.drained = z.drained
       /\ v.dispFileOps = z.dispFileOps
  BY <1>10, <1>12 DEF Workers
<1>14. Flying(u) = 0 /\ v.execFileOps = y /\ y + 0 = x + ops
  BY <1>3, <1>5, <1>8, <1>13 DEF Flying, Enqueued
<1>15. Closes(u, v, tape, ops)
  BY <1>1, <1>2, <1>5, <1>8, <1>9, <1>13, <1>14 DEF Closes, Same, Enqueued
<1>16. v.parked = u.parked
  BY <1>5, <1>8, <1>10, <1>12 DEF Workers, Enqueued
<1>17. ASSUME ~u.prep PROVE v.queue = u.queue \o Batch(i, tape, TRUE, ops)
  <2>1. ~d.prep /\ d \in Workers
    BY <1>5, <1>17
  <2>2. EnqueueBatch(d, i, tape, TRUE, ops).queue = d.queue \o Batch(i, tape, TRUE, ops)
    BY <2>1, EnqueueQueue
  <2> QED BY <1>5, <1>7, <1>13, <2>2
<1> QED BY <1>1, <1>3, <1>11, <1>15, <1>16, <1>17

\* Source that does not compile is closed at once.
LEMMA GarbledIs ==
  ASSUME NEW u \in Workers, u.realCmd = Idle
  PROVE  \E tape \in Seq(Nat) :
           Closes(u, [EnqueueBatch([u EXCEPT !.entryFileOps = 0], u.cursor, <<>>, TRUE, 0)
                        EXCEPT !.cursor = u.cursor + 1, !.parked = TRUE], tape, 0)
<1>1. PICK i \in Nat : i = u.cursor
  BY WorkerFields
<1>2. PICK x \in Nat : x = u.execFileOps
  BY WorkerFields
<1>3. PICK tape \in Seq(Nat) : tape = <<>>
  BY EmptySeq
<1>4. PICK d : d = [u EXCEPT !.entryFileOps = 0]
  OBVIOUS
<1>5. /\ d \in Workers
      /\ d.epoch = u.epoch /\ d.runner = u.runner /\ d.entries = u.entries
      /\ d.cursor = u.cursor /\ d.limits = u.limits /\ d.execFileOps = u.execFileOps
      /\ d.prep = u.prep /\ d.realCmd = u.realCmd
      /\ d.queue = u.queue /\ d.executed = u.executed
      /\ d.playback = u.playback /\ d.drained = u.drained /\ d.dispFileOps = u.dispFileOps
  BY <1>4 DEF Workers
<1>7. PICK z : z = EnqueueBatch(d, i, tape, TRUE, 0)
  OBVIOUS
<1>8. Enqueued(d, z, i, tape, TRUE, 0)
  BY <1>5, <1>7, EnqueueIs
<1>9. PICK c \in Nat : c = i + 1
  OBVIOUS
<1>10. PICK v : v = [z EXCEPT !.cursor = c, !.parked = TRUE]
  OBVIOUS
<1>12. z \in Workers
  BY <1>8 DEF Enqueued
<1>13. /\ v \in Workers
       /\ v.epoch = z.epoch /\ v.runner = z.runner /\ v.entries = z.entries
       /\ v.cursor = c /\ v.limits = z.limits /\ v.execFileOps = z.execFileOps
       /\ v.prep = z.prep /\ v.realCmd = z.realCmd /\ v.queue = z.queue
       /\ v.executed = z.executed /\ v.playback = z.playback /\ v.drained = z.drained
       /\ v.dispFileOps = z.dispFileOps
  BY <1>10, <1>12 DEF Workers
<1>14. Flying(u) = 0 /\ v.execFileOps = x /\ x + 0 = x + 0
  BY <1>2, <1>5, <1>8, <1>13 DEF Flying, Enqueued
<1>15. Closes(u, v, tape, 0)
  BY <1>1, <1>2, <1>5, <1>8, <1>9, <1>13, <1>14 DEF Closes, Same, Enqueued
<1> QED BY <1>1, <1>3, <1>4, <1>7, <1>9, <1>10, <1>15

\* A round of pump() closes an entry, starts a command or passes an end of the bracket.
LEMMA RoundIs ==
  ASSUME NEW u \in Workers, PumpGoesOn(u)
  PROVE  \/ ~AtEnd(u) /\ Closing(u, PumpOnce(u))
         \/ ~AtEnd(u) /\ Starts(u, PumpOnce(u))
         \/ AtEnd(u) /\ Brackets(u, PumpOnce(u))
<1>1. u.realCmd = Idle /\ u.cursor < Len(u.entries)
  BY DEF PumpGoesOn
<1>2. PICK e : e = u.entries[u.cursor + 1]
  OBVIOUS
<1>3. /\ e.script \in Seq(Operations)
      /\ e.kind \in {"churn", "command", "garbled", "prepOn", "prepOff"}
  BY <1>1, <1>2, NextEntry
<1>4. CASE e.kind = "churn"
  <2>1. PumpOnce(u) = ExecEntry(u, u.cursor, e.script)
    BY <1>2, <1>4 DEF PumpOnce
  <2>2. ~AtEnd(u)
    BY <1>2, <1>4 DEF AtEnd
  <2>3. Closing(u, PumpOnce(u))
    BY <1>1, <1>3, <2>1, ExecEntryIs DEF Closing
  <2> QED BY <2>2, <2>3
<1>5. CASE e.kind = "command"
  <2>1. PumpOnce(u) = [u EXCEPT !.realCmd = u.cursor, !.entryFileOps = 0]
    BY <1>2, <1>5 DEF PumpOnce
  <2>2. PICK i \in Nat : i = u.cursor
    BY WorkerFields
  <2>3. PICK v : v = [u EXCEPT !.realCmd = i, !.entryFileOps = 0]
    OBVIOUS
  <2>4. Starts(u, v)
    BY <2>2, <2>3 DEF Workers, Starts, Same
  <2>5. ~AtEnd(u)
    BY <1>2, <1>5 DEF AtEnd
  <2> QED BY <2>1, <2>2, <2>3, <2>4, <2>5
<1>6. CASE e.kind = "garbled"
  <2>1. PumpOnce(u) = [EnqueueBatch([u EXCEPT !.entryFileOps = 0], u.cursor, <<>>, TRUE, 0)
                         EXCEPT !.cursor = u.cursor + 1, !.parked = TRUE]
    BY <1>2, <1>6 DEF PumpOnce
  <2>2. ~AtEnd(u)
    BY <1>2, <1>6 DEF AtEnd
  <2>3. Closing(u, PumpOnce(u))
    BY <1>1, <2>1, GarbledIs DEF Closing
  <2> QED BY <2>2, <2>3
<1>7. CASE e.kind \in {"prepOn", "prepOff"}
  <2>1. PICK on \in BOOLEAN : on = (e.kind = "prepOn") /\ PumpOnce(u) = Bracket(u, u.cursor, on)
    BY <1>2, <1>7 DEF PumpOnce
  <2>2. PICK i \in Nat : i = u.cursor
    BY WorkerFields
  <2>3. PICK c \in Nat : c = i + 1
    OBVIOUS
  <2>4. PICK n \in Nat : n = IF on THEN u.dispFileOps ELSE 0
    BY WorkerFields
  <2>5. PICK v : v = [u EXCEPT !.prep = on, !.dispFileOps = n, !.drained = i, !.cursor = c]
    OBVIOUS
  <2>6. v = PumpOnce(u)
    BY <2>1, <2>2, <2>3, <2>4, <2>5 DEF Bracket, SetPrep, Workers
  <2>7. i \in Int
    OBVIOUS
  <2>8. v \in Workers /\ Same(u, v) /\ v.realCmd = u.realCmd /\ v.cursor = c
        /\ v.queue = u.queue /\ v.prep = on /\ v.drained = i /\ v.dispFileOps = n
    BY <2>5, <2>7 DEF Workers, Same
  <2>9. Brackets(u, v)
    BY <1>2, <2>1, <2>2, <2>3, <2>4, <2>8 DEF Brackets
  <2>10. AtEnd(u)
    BY <1>2, <1>7 DEF AtEnd
  <2> QED BY <2>6, <2>9, <2>10
<1> QED BY <1>3, <1>4, <1>5, <1>6, <1>7

-----------------------------------------------------------------------------
(* Nothing of an earlier epoch is on the tape *)

\* v is where the worker may get from u without leaving the epoch or the command in flight.
GoesOn(u, v) ==
  /\ v.epoch = u.epoch /\ v.runner = u.runner /\ v.entries = u.entries
  /\ u.realCmd # Idle => v.realCmd = u.realCmd

Kept(u) == {v \in Workers : Sound(v) /\ GoesOn(u, v)}

\* A longer queue is of the entries held, if what is added to it is.
LEMMA SoundQueue ==
  ASSUME NEW q \in Seq(Steps), NEW r, NEW i \in Nat, NEW n \in Nat, NEW last, i < n,
         \A k \in 1 .. Len(q) : q[k].entry < n,
         r \in Seq(Steps), Extends(q, r, i, last)
  PROVE  \A k \in 1 .. Len(r) : r[k].entry < n
<1> SUFFICES ASSUME NEW k \in 1 .. Len(r) PROVE r[k].entry < n
  OBVIOUS
<1>1. Len(q) \in Nat /\ Len(r) \in Nat
  OBVIOUS
<1>2. CASE k <= Len(q)
  <2>1. k \in 1 .. Len(q)
    BY <1>1, <1>2
  <2> QED BY <2>1 DEF Extends
<1>3. CASE ~(k <= Len(q))
  <2>1. k \in Len(q) + 1 .. Len(r)
    BY <1>1, <1>3
  <2> QED BY <2>1 DEF Extends
<1> QED BY <1>2, <1>3

\* Closing an entry leaves the worker sound.
LEMMA ClosingSound ==
  ASSUME NEW u \in Workers, Sound(u), u.cursor < Len(u.entries), NEW v, Closing(u, v)
  PROVE  v \in Workers /\ Sound(v) /\ Same(u, v) /\ v.realCmd = Idle
<1>1. PICK tape \in Seq(Nat), ops \in Nat : Closes(u, v, tape, ops)
  BY DEF Closing
<1>2. v \in Workers /\ Same(u, v) /\ v.realCmd = Idle /\ v.cursor = u.cursor + 1
  BY <1>1 DEF Closes
<1>3. PICK i \in Nat, n \in Nat : i = u.cursor /\ n = Len(u.entries) /\ i < n
  <2>1. u.cursor \in Nat /\ u.entries \in Seq(PlanEntries)
    BY WorkerFields
  <2>2. Len(u.entries) \in Nat
    BY <2>1
  <2> QED BY <2>1, <2>2
<1>4. \A k \in 1 .. Len(u.queue) : u.queue[k].entry < n
  BY <1>3 DEF Sound
<1>5. \A k \in 1 .. Len(v.queue) : v.queue[k].entry < n
  <2>1. CASE u.prep
    BY <1>1, <1>4, <2>1 DEF Closes
  <2>2. CASE ~u.prep
    <3>1. v.queue \in Seq(Steps) /\ Extends(u.queue, v.queue, i, TRUE)
      BY <1>1, <1>3, <2>2 DEF Closes, Queued
    <3>2. PICK q \in Seq(Steps) : q = u.queue
      BY WorkerFields
    <3>3. PICK r \in Seq(Steps) : r = v.queue
      BY <3>1
    <3>4. \A k \in 1 .. Len(r) : r[k].entry < n
      <4>1. Extends(q, r, i, TRUE)
        BY <3>1, <3>2, <3>3
      <4>2. \A k \in 1 .. Len(q) : q[k].entry < n
        BY <1>4, <3>2
      <4> QED BY ONLY <4>1, <4>2, <1>3, SoundQueue
    <3> QED BY <3>3, <3>4
  <2> QED BY <2>1, <2>2
<1>6. v.entries = u.entries /\ v.cursor <= n
  BY <1>2, <1>3 DEF Same
<1>7. Sound(v)
  BY <1>2, <1>3, <1>5, <1>6 DEF Sound
<1> QED BY <1>2, <1>7

\* A round of pump() leaves the worker sound.
LEMMA RoundSound ==
  ASSUME NEW u \in Workers, Sound(u), PumpGoesOn(u)
  PROVE  PumpOnce(u) \in Workers /\ Sound(PumpOnce(u)) /\ Same(u, PumpOnce(u))
<1>1. PICK v : v = PumpOnce(u)
  OBVIOUS
<1>2. u.realCmd = Idle /\ u.cursor < Len(u.entries)
  BY DEF PumpGoesOn
<1>3. u.cursor \in Nat /\ Len(u.entries) \in Nat
  <2>1. u.cursor \in Nat /\ u.entries \in Seq(PlanEntries)
    BY WorkerFields
  <2> QED BY <2>1
<1>4. Closing(u, v) \/ Starts(u, v) \/ Brackets(u, v)
  BY <1>1, RoundIs
<1>5. CASE Closing(u, v)
  BY <1>1, <1>2, <1>5, ClosingSound
<1>6. CASE Starts(u, v)
  BY <1>1, <1>2, <1>3, <1>6 DEF Starts, Same, Sound
<1>7. CASE Brackets(u, v)
  BY <1>1, <1>2, <1>3, <1>7 DEF Brackets, Same, Sound
<1> QED BY <1>4, <1>5, <1>6, <1>7

\* Leaving pump() changes nothing else.
LEMMA Unparked ==
  ASSUME NEW u \in Workers
  PROVE  LET v == [u EXCEPT !.parked = FALSE]
         IN  /\ v \in Workers
             /\ Same(u, v)
             /\ v.cursor = u.cursor /\ v.realCmd = u.realCmd /\ v.prep = u.prep
             /\ v.queue = u.queue /\ v.executed = u.executed /\ v.playback = u.playback
             /\ v.drained = u.drained /\ v.dispFileOps = u.dispFileOps
             /\ v.execFileOps = u.execFileOps /\ v.entryFileOps = u.entryFileOps
BY DEF Workers, Same

\* pump() goes on from where the worker is.
LEMMA PumpKeeps ==
  ASSUME NEW u, NEW v \in Kept(u)
  PROVE  Pump(v) \in Kept(u)
<1>1. \A x \in Kept(u) : PumpGoesOn(x) => PumpOnce(x) \in Kept(u)
  <2> SUFFICES ASSUME NEW x \in Kept(u), PumpGoesOn(x) PROVE PumpOnce(x) \in Kept(u)
    OBVIOUS
  <2>1. x \in Workers /\ Sound(x) /\ GoesOn(u, x)
    BY DEF Kept
  <2>2. PICK y : y = PumpOnce(x)
    OBVIOUS
  <2>3. y \in Workers /\ Sound(y) /\ Same(x, y)
    BY <2>1, <2>2, RoundSound
  <2>4. x.realCmd = Idle
    BY DEF PumpGoesOn
  <2>5. GoesOn(u, y)
    BY <2>1, <2>3, <2>4 DEF GoesOn, Same
  <2> QED BY <2>2, <2>3, <2>5 DEF Kept
<1>2. \A x \in Kept(u) : [x EXCEPT !.parked = FALSE] \in Kept(u)
  <2> SUFFICES ASSUME NEW x \in Kept(u) PROVE [x EXCEPT !.parked = FALSE] \in Kept(u)
    OBVIOUS
  <2>1. x \in Workers /\ Sound(x) /\ GoesOn(u, x)
    BY DEF Kept
  <2>2. PICK y : y = [x EXCEPT !.parked = FALSE]
    OBVIOUS
  <2>3. y \in Workers /\ Same(x, y) /\ y.cursor = x.cursor /\ y.realCmd = x.realCmd
        /\ y.queue = x.queue
    BY <2>1, <2>2, Unparked
  <2>4. Sound(y) /\ GoesOn(u, y)
    BY <2>1, <2>3 DEF Sound, GoesOn, Same
  <2> QED BY <2>2, <2>3, <2>4 DEF Kept
<1>3. Len(v.entries) \in Nat
  <2>1. v.entries \in Seq(PlanEntries)
    BY WorkerFields DEF Kept
  <2> QED BY <2>1
<1> QED BY <1>1, <1>2, <1>3, PumpStays

\* Playing leaves the worker sound.
LEMMA SpentSound ==
  ASSUME NEW u \in Workers, Sound(u), NEW v, NEW k \in Nat, NEW a \in Nat, Spent(u, v, k, a)
  PROVE  v \in Workers /\ Sound(v) /\ GoesOn(u, v)
<1>1. /\ v \in Workers /\ v.epoch = u.epoch /\ v.runner = u.runner /\ v.entries = u.entries
      /\ v.cursor = u.cursor /\ v.realCmd = u.realCmd /\ k \in 0 .. Len(u.queue)
      /\ Remains(u.queue, v.queue, k, a)
  BY DEF Spent
<1>2. \A n \in 1 .. Len(v.queue) : v.queue[n].entry < Len(v.entries)
  <2> SUFFICES ASSUME NEW n \in 1 .. Len(v.queue) PROVE v.queue[n].entry < Len(v.entries)
    OBVIOUS
  <2>1. u.queue \in Seq(Steps) /\ v.queue \in Seq(Steps)
    BY <1>1, WorkerFields
  <2>2. Len(v.queue) = Len(u.queue) - k /\ v.queue[n].entry = u.queue[k + n].entry
    BY <1>1 DEF Remains
  <2>3. Len(u.queue) \in Nat
    BY <2>1
  <2>4. k + n \in 1 .. Len(u.queue)
    BY <1>1, <2>2, <2>3
  <2> QED BY <1>1, <2>2, <2>4 DEF Sound
<1> QED BY <1>1, <1>2 DEF Sound, GoesOn

\* drain() goes on from where the worker is.
LEMMA DrainKeeps ==
  ASSUME NEW u, NEW v \in Kept(u)
  PROVE  Drain(v) \in Kept(u)
<1>1. Kept(u) \subseteq Workers
  BY DEF Kept
<1>2. \A x \in Kept(u), y \in Workers :
        (\E k \in Nat, a \in Nat : Spent(x, y, k, a)) => y \in Kept(u)
  <2> SUFFICES ASSUME NEW x \in Kept(u), NEW y \in Workers, NEW k \in Nat, NEW a \in Nat,
                      Spent(x, y, k, a)
               PROVE  y \in Kept(u)
    OBVIOUS
  <2>1. x \in Workers /\ Sound(x) /\ GoesOn(u, x)
    BY DEF Kept
  <2>2. Sound(y) /\ GoesOn(x, y)
    BY <2>1, SpentSound
  <2>3. GoesOn(u, y)
    BY <2>1, <2>2 DEF GoesOn
  <2> QED BY <2>2, <2>3 DEF Kept
<1>3. \A x \in Kept(u) : Pump(x) \in Kept(u)
  BY PumpKeeps
<1> QED BY <1>1, <1>2, <1>3, DrainStays

-----------------------------------------------------------------------------
(* The handlers *)

\* Where the worker is, it may go on from.
LEMMA KeptSelf ==
  ASSUME NEW u \in Workers, Sound(u)
  PROVE  u \in Kept(u)
BY DEF Kept, GoesOn

\* The fiber of the command in flight.
LEMMA NewFiber ==
  ASSUME NEW v \in Workers, Sound(v), v.realCmd # Idle
  PROVE  [epoch |-> v.epoch, index |-> v.realCmd,
          script |-> v.entries[v.realCmd + 1].script] \in Fibers
<1>1. v.epoch \in Nat /\ v.realCmd \in Nat
  BY WorkerFields
<1>2. v.realCmd = v.cursor /\ v.cursor < Len(v.entries)
  BY DEF Sound
<1>3. v.entries[v.realCmd + 1].script \in Seq(PlanOps)
  BY <1>2, NextEntry
<1> QED BY <1>1, <1>3 DEF Fibers

\* A command that pump() started is the only one of its epoch.
LEMMA Becoming ==
  ASSUME Types, OneBody, NEW u, NEW v \in Kept(u), u.epoch = w.epoch, u.realCmd = w.realCmd,
         Become(v)
  PROVE  /\ w' \in Workers /\ Sound(w)' /\ OneBody' /\ fibers' \in SUBSET Fibers
         /\ w'.epoch = w.epoch /\ w'.entries = u.entries /\ w' = v
<1>1. v \in Workers /\ Sound(v) /\ v.epoch = u.epoch /\ v.entries = u.entries
      /\ (u.realCmd # Idle => v.realCmd = u.realCmd) /\ w' = v
  BY DEF Kept, GoesOn, Become
<1>2. w' \in Workers /\ Sound(w') /\ w'.epoch = w.epoch /\ w'.entries = u.entries
  BY <1>1
<1>3. Sound(w)'
  BY <1>2 DEF Sound
<1>4. CASE v.realCmd # Idle /\ v.realCmd # w.realCmd
  <2>1. PICK g : g = [epoch  |-> v.epoch, index |-> v.realCmd,
                      script |-> v.entries[v.realCmd + 1].script]
    OBVIOUS
  <2>2. fibers' = fibers \cup {g} /\ g \in Fibers /\ g.epoch = w.epoch /\ g.index = v.realCmd
    <3>1. fibers' = fibers \cup {g}
      BY <1>4, <2>1 DEF Become
    <3>2. g \in Fibers
      BY <1>1, <1>4, <2>1, NewFiber
    <3> QED BY <1>1, <2>1, <3>1, <3>2
  <2>3. w.realCmd = Idle
    BY <1>1, <1>4
  <2>4. \A f \in fibers : f.epoch # w.epoch
    <3> SUFFICES ASSUME NEW f \in fibers, f.epoch = w.epoch PROVE FALSE
      OBVIOUS
    <3>1. f \in Fibers
      BY DEF Types
    <3>2. f.index \in Nat /\ f.index = w.realCmd
      BY <3>1 DEF Fibers, OneBody
    <3> QED BY <2>3, <3>2, Caps
  <2>5. \A f \in fibers : f.epoch <= w.epoch
    BY DEF OneBody
  <2>6. w.epoch \in Nat
    BY WorkerFields DEF Types
  <2>7. OneBody'
    <3>1. ASSUME NEW f \in fibers' PROVE f.epoch <= w'.epoch
      BY <1>2, <2>2, <2>5, <2>6, <3>1
    <3>2. ASSUME NEW f \in fibers', f.epoch = w'.epoch PROVE f.index = w'.realCmd
      BY <1>1, <1>2, <2>2, <2>4, <3>2
    <3>3. ASSUME NEW f \in fibers', NEW g2 \in fibers', f.epoch = w'.epoch, g2.epoch = w'.epoch
          PROVE  f = g2
      BY <1>2, <2>2, <2>4, <3>3
    <3> QED BY <3>1, <3>2, <3>3 DEF OneBody
  <2>8. fibers' \in SUBSET Fibers
    BY <2>2 DEF Types
  <2> QED BY <1>1, <1>2, <1>3, <2>7, <2>8
<1>5. CASE ~(v.realCmd # Idle /\ v.realCmd # w.realCmd)
  <2>1. fibers' = fibers
    BY <1>5 DEF Become
  <2>2. v.realCmd = w.realCmd
    BY <1>1, <1>5
  <2>3. OneBody'
    BY <1>1, <1>2, <2>1, <2>2 DEF OneBody
  <2> QED BY <1>1, <1>2, <1>3, <2>1, <2>3 DEF Types
<1> QED BY <1>4, <1>5

\* What is left of the mail when its first letter is taken, and what the letter is.
LEMMA Received ==
  ASSUME Types, OfPlan(inbox), Rising(inbox, w.epoch), NEW type, Receives(type)
  PROVE  /\ inbox' \in Seq(Mail) /\ Head(inbox) \in Mail /\ Head(inbox).type = type
         /\ plan' = plan /\ epoch' = epoch /\ sent' = sent /\ acked' = acked
         /\ OfPlan(inbox') /\ Rising(inbox', w.epoch)
         /\ type = "ENTRIES" => /\ Head(inbox).from < Len(plan)
                                /\ Head(inbox).list = <<plan[Head(inbox).from + 1]>>
         /\ type = "RESET" => /\ w.epoch < Head(inbox).epoch /\ Head(inbox).epoch <= epoch
                              /\ Rising(inbox', Head(inbox).epoch)
<1>1. PICK box \in Seq(Mail) : box = inbox /\ box # <<>>
  BY DEF Types, Receives
<1>2. PICK rest \in Seq(Mail) : rest = Tail(box)
  <2>1. Tail(box) \in Seq(Mail)
    BY <1>1, HeadTailProperties
  <2> QED BY <2>1
<1>3. /\ Len(box) \in Nat \ {0} /\ Len(rest) = Len(box) - 1 /\ Head(box) = box[1]
      /\ \A n \in 1 .. Len(rest) : rest[n] = box[n + 1]
  BY <1>1, <1>2
<1>4. \A n \in 1 .. Len(rest) : n + 1 \in 1 .. Len(box)
  BY <1>3
<1>5. inbox' = rest /\ box[1].type = type /\ box[1] \in Mail /\ 1 \in 1 .. Len(box)
  BY <1>1, <1>2, <1>3 DEF Receives
<1>6. OfPlan(rest)
  <2>1. OfPlan(box)
    BY <1>1
  <2> SUFFICES ASSUME NEW n \in 1 .. Len(rest), rest[n].type = "ENTRIES"
               PROVE  rest[n].from < Len(plan) /\ rest[n].list = <<plan[rest[n].from + 1]>>
    BY DEF OfPlan
  <2>2. rest[n] = box[n + 1] /\ n + 1 \in 1 .. Len(box)
    BY <1>3, <1>4
  <2> QED BY <2>1, <2>2 DEF OfPlan
<1>7. Rising(box, w.epoch)
  BY <1>1
<1>8. ASSUME NEW e, \A n \in 1 .. Len(rest) : rest[n].type = "RESET" => e < rest[n].epoch
      PROVE  Rising(rest, e)
  <2> SUFFICES ASSUME NEW n \in 1 .. Len(rest), rest[n].type = "RESET"
               PROVE  /\ rest[n].epoch <= epoch
                      /\ \A m \in 1 .. n - 1 : rest[m].type = "RESET" => rest[m].epoch < rest[n].epoch
    BY <1>8 DEF Rising
  <2>1. rest[n] = box[n + 1] /\ n + 1 \in 1 .. Len(box)
    BY <1>3, <1>4
  <2>2. /\ box[n + 1].epoch <= epoch
        /\ \A m \in 1 .. (n + 1) - 1 : box[m].type = "RESET" => box[m].epoch < box[n + 1].epoch
    BY <1>7, <2>1 DEF Rising
  <2>3. ASSUME NEW m \in 1 .. n - 1, rest[m].type = "RESET" PROVE rest[m].epoch < rest[n].epoch
    <3>1. m \in 1 .. Len(rest) /\ m + 1 \in 1 .. (n + 1) - 1 /\ rest[m] = box[m + 1]
      BY <1>3
    <3> QED BY <2>1, <2>2, <2>3, <3>1
  <2> QED BY <2>1, <2>2, <2>3
<1>9. Rising(rest, w.epoch)
  <2>1. ASSUME NEW n \in 1 .. Len(rest), rest[n].type = "RESET" PROVE w.epoch < rest[n].epoch
    <3>1. rest[n] = box[n + 1] /\ n + 1 \in 1 .. Len(box)
      BY <1>3, <1>4
    <3> QED BY <1>7, <2>1, <3>1 DEF Rising
  <2> QED BY <1>8, <2>1
<1>10. ASSUME type = "RESET"
       PROVE  w.epoch < box[1].epoch /\ box[1].epoch <= epoch /\ Rising(rest, box[1].epoch)
  <2>1. w.epoch < box[1].epoch /\ box[1].epoch <= epoch
    BY <1>5, <1>7, <1>10 DEF Rising
  <2>2. ASSUME NEW n \in 1 .. Len(rest), rest[n].type = "RESET" PROVE box[1].epoch < rest[n].epoch
    <3>1. rest[n] = box[n + 1] /\ n + 1 \in 1 .. Len(box) /\ 1 \in 1 .. (n + 1) - 1
      BY <1>3, <1>4
    <3> QED BY <1>5, <1>7, <1>10, <2>2, <3>1 DEF Rising
  <2> QED BY <1>8, <2>1, <2>2
<1>11. type = "ENTRIES" => /\ box[1].from < Len(plan)
                           /\ box[1].list = <<plan[box[1].from + 1]>>
  BY <1>1, <1>5 DEF OfPlan
<1>12. plan' = plan /\ epoch' = epoch /\ sent' = sent /\ acked' = acked
  BY DEF Receives
<1>13. Head(inbox) = box[1]
  BY <1>1, <1>3
<1> QED BY <1>2, <1>5, <1>6, <1>9, <1>10, <1>11, <1>12, <1>13

\* A worker whose limits, runner or entries are replaced is as before in the rest.
Alike(u, v) ==
  /\ v.epoch = u.epoch /\ v.cursor = u.cursor /\ v.drained = u.drained
  /\ v.playback = u.playback /\ v.dispFileOps = u.dispFileOps
  /\ v.execFileOps = u.execFileOps /\ v.entryFileOps = u.entryFileOps /\ v.prep = u.prep
  /\ v.realCmd = u.realCmd /\ v.queue = u.queue /\ v.executed = u.executed

\* A grant replaces the limits.
LEMMA WithLimits ==
  ASSUME NEW u \in Workers, Sound(u), NEW g \in Grants
  PROVE  LET v == [u EXCEPT !.limits = g]
         IN  /\ v \in Workers /\ Sound(v) /\ Alike(u, v)
             /\ v.entries = u.entries /\ v.runner = u.runner
<1>1. PICK v : v = [u EXCEPT !.limits = g]
  OBVIOUS
<1>2. v \in Workers
  BY <1>1 DEF Workers
<1>3. Alike(u, v) /\ v.entries = u.entries /\ v.runner = u.runner
  BY <1>1 DEF Workers, Alike
<1>4. Sound(v)
  BY <1>3 DEF Sound, Alike
<1> QED BY <1>1, <1>2, <1>3, <1>4

\* The runner lands.
LEMMA WithRunner ==
  ASSUME NEW u \in Workers, Sound(u)
  PROVE  LET v == [u EXCEPT !.runner = TRUE]
         IN  v \in Workers /\ Sound(v) /\ Alike(u, v) /\ v.entries = u.entries
<1>1. PICK v : v = [u EXCEPT !.runner = TRUE]
  OBVIOUS
<1>2. v \in Workers
  BY <1>1 DEF Workers
<1>3. Alike(u, v) /\ v.entries = u.entries
  BY <1>1 DEF Workers, Alike
<1>4. Sound(v)
  BY <1>3 DEF Sound, Alike
<1> QED BY <1>1, <1>2, <1>3, <1>4

\* An entry is added to those held.
LEMMA WithEntry ==
  ASSUME NEW u \in Workers, Sound(u), Held(u), plan \in Plans, Len(u.entries) < Len(plan)
  PROVE  LET v == [u EXCEPT !.entries = @ \o <<plan[Len(u.entries) + 1]>>]
         IN  v \in Workers /\ Sound(v) /\ Held(v) /\ Alike(u, v) /\ v.runner = u.runner
<1>1. PICK s \in Seq(PlanEntries) : s = u.entries
  BY WorkerFields
<1>2. PICK p \in Seq(PlanEntries) : p = plan
  BY PlanTypes
<1>3. PICK e \in PlanEntries : e = p[Len(s) + 1]
  BY <1>1, <1>2
<1>4. PICK r : r = s \o <<e>>
  OBVIOUS
<1>5. /\ r \in Seq(PlanEntries) /\ Len(r) = Len(s) + 1 /\ Len(s) \in Nat
      /\ \A i \in 1 .. Len(s) : r[i] = s[i]
      /\ r[Len(s) + 1] = e
  BY <1>4
<1>6. PICK v : v = [u EXCEPT !.entries = r]
  OBVIOUS
<1>7. v \in Workers
  BY <1>5, <1>6 DEF Workers
<1>8. Alike(u, v) /\ v.entries = r /\ v.runner = u.runner
  BY <1>6 DEF Workers, Alike
<1>9. Held(v)
  <2>1. Len(r) <= Len(p)
    BY <1>1, <1>2, <1>5
  <2>2. ASSUME NEW i \in 1 .. Len(r) PROVE r[i] = p[i]
    <3>1. i \in 1 .. Len(s) \/ i = Len(s) + 1
      BY <1>5
    <3>2. \A j \in 1 .. Len(s) : s[j] = p[j]
      BY <1>1, <1>2 DEF Held
    <3> QED BY <1>3, <1>5, <3>1, <3>2
  <2> QED BY <1>2, <1>8, <2>1, <2>2 DEF Held
<1>10. Sound(v)
  <2>1. u.cursor \in Nat /\ u.queue \in Seq(Steps)
    BY WorkerFields
  <2>2. \A k \in 1 .. Len(u.queue) : u.queue[k].entry \in Nat /\ u.queue[k].entry < Len(s)
    BY <1>1, <2>1, StepFields DEF Sound
  <2>3. u.cursor <= Len(s) /\ (u.realCmd # Idle => u.realCmd = u.cursor /\ u.cursor < Len(s))
    BY <1>1 DEF Sound
  <2> QED BY <1>5, <1>8, <2>1, <2>2, <2>3 DEF Sound, Alike
<1>11. v = [u EXCEPT !.entries = @ \o <<plan[Len(u.entries) + 1]>>]
  BY <1>1, <1>2, <1>3, <1>4, <1>6
<1> QED BY <1>7, <1>8, <1>9, <1>10, <1>11

\* What an ack tells is of the type of an ack.
LEMMA AckType ==
  ASSUME NEW u \in Workers
  PROVE  AckOf(u) \in Acks
<1>1. u.limits \in Grants
  BY WorkerFields
<1>2. u.limits.round \in {-1, 0}
  BY <1>1 DEF Grants
<1> QED BY <1>2, WorkerFields DEF AckOf, Acks

\* A worker that has gone on from what it holds keeps the invariant.
LEMMA WorkerMoves ==
  ASSUME Types, Sound(w)', OneBody', fibers' \in SUBSET Fibers, w' \in Workers,
         epoch <= MaxEpoch, w'.epoch <= epoch, OfPlan(inbox'), Rising(inbox', w'.epoch),
         inbox' \in Seq(Mail), Held(w'), plan' = plan, epoch' = epoch, sent' = sent,
         acked' = acked, outbox' \in Seq(Acks)
  PROVE  WInv'
<1>1. Types'
  BY DEF Types
<1>2. Shipped'
  BY DEF Shipped, OfPlan, Held
<1>3. EpochsRise'
  BY DEF EpochsRise, Rising
<1> QED BY <1>1, <1>2, <1>3 DEF WInv

\* What is held depends on the entries only.
LEMMA HeldSame ==
  ASSUME NEW u, NEW v, v.entries = u.entries, Held(u)
  PROVE  Held(v)
BY DEF Held

\* A grant keeps the invariant.
LEMMA GrantKeeps == WInv /\ HandleGrant => WInv'
<1> SUFFICES ASSUME WInv, HandleGrant PROVE WInv'
  OBVIOUS
<1>1. /\ Types /\ Sound(w) /\ OneBody /\ Held(w) /\ OfPlan(inbox) /\ Rising(inbox, w.epoch)
      /\ w.epoch <= epoch /\ epoch <= MaxEpoch /\ w \in Workers /\ outbox \in Seq(Acks)
      /\ fibers \in SUBSET Fibers
  BY DEF WInv, Shipped, EpochsRise, Types
<1>2. Receives("GRANT")
  BY DEF HandleGrant
<1>3. PICK m \in Mail : m = Head(inbox) /\ m.type = "GRANT"
  BY <1>1, <1>2, Received
<1>4. /\ inbox' \in Seq(Mail) /\ plan' = plan /\ epoch' = epoch /\ sent' = sent /\ acked' = acked
      /\ OfPlan(inbox') /\ Rising(inbox', w.epoch)
  BY <1>1, <1>2, Received
<1>5. m.grant \in Grants
  BY <1>3 DEF Mail
<1>6. CASE m.epoch = w.epoch
  <2>1. PICK u : u = [w EXCEPT !.limits = m.grant]
    OBVIOUS
  <2>2. u \in Workers /\ Sound(u) /\ Alike(w, u) /\ u.entries = w.entries
    BY <1>1, <1>5, <2>1, WithLimits
  <2>3. PICK v : v = Drain(Pump(u))
    OBVIOUS
  <2>4. v \in Kept(u)
    <3>1. Pump(u) \in Kept(u)
      BY <2>2, KeptSelf, PumpKeeps
    <3> QED BY <2>3, <3>1, DrainKeeps
  <2>5. Become(v) /\ outbox' = Append(outbox, AckOf(v))
    BY <1>3, <1>6, <2>1, <2>3 DEF HandleGrant
  <2>6. /\ w' \in Workers /\ Sound(w)' /\ OneBody' /\ fibers' \in SUBSET Fibers
        /\ w'.epoch = w.epoch /\ w'.entries = u.entries
    BY <1>1, <2>2, <2>4, <2>5, Becoming DEF Alike
  <2>7. AckOf(v) \in Acks
    BY <2>4, AckType DEF Kept
  <2>8. outbox' \in Seq(Acks)
    BY <1>1, <2>5, <2>7
  <2>9. Held(w')
    BY <1>1, <2>2, <2>6, HeldSame
  <2> QED BY <1>1, <1>4, <2>6, <2>8, <2>9, WorkerMoves
<1>7. CASE m.epoch # w.epoch
  <2>1. w' = w /\ fibers' = fibers /\ outbox' = outbox
    BY <1>3, <1>7 DEF HandleGrant
  <2>2. Sound(w)' /\ OneBody'
    BY <1>1, <2>1 DEF Sound, OneBody
  <2> QED BY <1>1, <1>4, <2>1, <2>2, WorkerMoves
<1> QED BY <1>6, <1>7

\* An entry that is shipped keeps the invariant.
LEMMA EntriesKeep == WInv /\ HandleEntries => WInv'
<1> SUFFICES ASSUME WInv, HandleEntries PROVE WInv'
  OBVIOUS
<1>1. /\ Types /\ Sound(w) /\ OneBody /\ Held(w) /\ OfPlan(inbox) /\ Rising(inbox, w.epoch)
      /\ w.epoch <= epoch /\ epoch <= MaxEpoch /\ w \in Workers /\ outbox \in Seq(Acks)
      /\ fibers \in SUBSET Fibers /\ plan \in Plans
  BY DEF WInv, Shipped, EpochsRise, Types
<1>2. Receives("ENTRIES") /\ outbox' = outbox
  BY DEF HandleEntries
<1>3. PICK m \in Mail : m = Head(inbox) /\ m.type = "ENTRIES"
  BY <1>1, <1>2, Received
<1>4. /\ inbox' \in Seq(Mail) /\ plan' = plan /\ epoch' = epoch /\ sent' = sent /\ acked' = acked
      /\ OfPlan(inbox') /\ Rising(inbox', w.epoch)
      /\ m.from < Len(plan) /\ m.list = <<plan[m.from + 1]>>
  BY <1>1, <1>2, <1>3, Received
<1>6. CASE m.epoch = w.epoch /\ m.from = Len(w.entries)
  <2>1. PICK u : u = [w EXCEPT !.entries = @ \o <<plan[Len(w.entries) + 1]>>]
    OBVIOUS
  <2>2. u \in Workers /\ Sound(u) /\ Held(u) /\ Alike(w, u)
    <3>1. Len(w.entries) < Len(plan)
      BY <1>4, <1>6
    <3> QED BY <1>1, <2>1, <3>1, WithEntry
  <2>3. PICK v : v = Pump(u)
    OBVIOUS
  <2>4. v \in Kept(u)
    BY <2>2, <2>3, KeptSelf, PumpKeeps
  <2>5. Become(v)
    <3>1. u = [w EXCEPT !.entries = @ \o m.list]
      BY <1>4, <1>6, <2>1
    <3> QED BY <1>3, <1>6, <2>3, <3>1 DEF HandleEntries
  <2>6. /\ w' \in Workers /\ Sound(w)' /\ OneBody' /\ fibers' \in SUBSET Fibers
        /\ w'.epoch = w.epoch /\ w'.entries = u.entries
    BY <1>1, <2>2, <2>4, <2>5, Becoming DEF Alike
  <2>9. Held(w')
    BY <2>2, <2>6, HeldSame
  <2> QED BY <1>1, <1>2, <1>4, <2>6, <2>9, WorkerMoves
<1>7. CASE ~(m.epoch = w.epoch /\ m.from = Len(w.entries))
  <2>1. w' = w /\ fibers' = fibers
    BY <1>3, <1>7 DEF HandleEntries
  <2>2. Sound(w)' /\ OneBody'
    BY <1>1, <2>1 DEF Sound, OneBody
  <2> QED BY <1>1, <1>2, <1>4, <2>1, <2>2, WorkerMoves
<1> QED BY <1>6, <1>7

\* A worker that starts over.
LEMMA FreshIs ==
  ASSUME NEW e \in Nat, NEW runner \in BOOLEAN
  PROVE  /\ Fresh(e, runner) \in Workers
         /\ Fresh(e, runner).epoch = e /\ Fresh(e, runner).entries = <<>>
         /\ Fresh(e, runner).queue = <<>> /\ Fresh(e, runner).realCmd = Idle
         /\ Fresh(e, runner).cursor = 0 /\ Fresh(e, runner).drained = -1
<1>1. NoGrant \in Grants
  BY DEF NoGrant, Grants
<1>2. /\ <<>> \in Seq(PlanEntries) /\ <<>> \in Seq(Steps) /\ Idle \in Nat \cup {Idle} /\ -1 \in Int
  OBVIOUS
<1> QED BY <1>1, <1>2 DEF Fresh, Workers

\* It holds nothing and executes nothing.
LEMMA FreshSound ==
  ASSUME NEW e \in Nat, NEW runner \in BOOLEAN, plan \in Plans
  PROVE  Sound(Fresh(e, runner)) /\ Held(Fresh(e, runner))
<1>1. PICK u \in Workers : /\ u = Fresh(e, runner) /\ u.entries = <<>> /\ u.queue = <<>>
                           /\ u.realCmd = Idle /\ u.cursor = 0
  BY FreshIs
<1>2. Len(u.entries) = 0 /\ Len(u.queue) = 0
  BY <1>1
<1>3. plan \in Seq(PlanEntries)
  BY PlanTypes
<1>4. Sound(u)
  BY <1>1, <1>2 DEF Sound
<1>5. Held(u)
  BY <1>1, <1>2, <1>3 DEF Held
<1> QED BY <1>1, <1>4, <1>5

\* A reset keeps the invariant: the fibers are of the past.
LEMMA ResetKeeps == WInv /\ HandleReset => WInv'
<1> SUFFICES ASSUME WInv, HandleReset PROVE WInv'
  OBVIOUS
<1>1. /\ Types /\ Sound(w) /\ OneBody /\ Held(w) /\ OfPlan(inbox) /\ Rising(inbox, w.epoch)
      /\ w.epoch <= epoch /\ epoch <= MaxEpoch /\ w \in Workers /\ outbox \in Seq(Acks)
      /\ fibers \in SUBSET Fibers /\ plan \in Plans
  BY DEF WInv, Shipped, EpochsRise, Types
<1>2. Receives("RESET") /\ outbox' = outbox /\ fibers' = fibers
  BY DEF HandleReset
<1>3. PICK m \in Mail : m = Head(inbox) /\ m.type = "RESET"
  BY <1>1, <1>2, Received
<1>4. /\ inbox' \in Seq(Mail) /\ plan' = plan /\ epoch' = epoch /\ sent' = sent /\ acked' = acked
      /\ OfPlan(inbox') /\ w.epoch < m.epoch /\ m.epoch <= epoch /\ Rising(inbox', m.epoch)
  BY <1>1, <1>2, <1>3, Received
<1>5. m.epoch \in Nat /\ w.runner \in BOOLEAN /\ w.epoch \in Nat
  BY <1>1, <1>3, WorkerFields DEF Mail
<1>6. PICK u : u = Fresh(m.epoch, w.runner)
  OBVIOUS
<1>7. u \in Workers /\ u.epoch = m.epoch /\ Sound(u) /\ Held(u) /\ w' = u
  BY <1>1, <1>3, <1>5, <1>6, FreshIs, FreshSound DEF HandleReset
<1>8. Sound(w)'
  BY <1>7 DEF Sound
<1>9. OneBody'
  <2>1. ASSUME NEW f \in fibers PROVE f.epoch <= m.epoch /\ f.epoch # m.epoch
    <3>1. f.epoch \in Nat /\ f.epoch <= w.epoch
      BY <1>1 DEF Fibers, OneBody
    <3> QED BY <1>4, <1>5, <3>1
  <2> QED BY <1>2, <1>7, <2>1 DEF OneBody
<1> QED BY <1>1, <1>2, <1>4, <1>7, <1>8, <1>9, WorkerMoves

\* The landing of the runner keeps the invariant.
LEMMA LandingKeeps == WInv /\ RunnerLands => WInv'
<1> SUFFICES ASSUME WInv, RunnerLands PROVE WInv'
  OBVIOUS
<1>1. /\ Types /\ Sound(w) /\ OneBody /\ Held(w) /\ OfPlan(inbox) /\ Rising(inbox, w.epoch)
      /\ w.epoch <= epoch /\ epoch <= MaxEpoch /\ w \in Workers /\ outbox \in Seq(Acks)
      /\ fibers \in SUBSET Fibers /\ plan \in Plans /\ inbox \in Seq(Mail)
  BY DEF WInv, Shipped, EpochsRise, Types
<1>2. /\ plan' = plan /\ epoch' = epoch /\ sent' = sent /\ acked' = acked
      /\ inbox' = inbox /\ outbox' = outbox
  BY DEF RunnerLands
<1>3. PICK u : u = [w EXCEPT !.runner = TRUE]
  OBVIOUS
<1>4. u \in Workers /\ Sound(u) /\ Alike(w, u) /\ u.entries = w.entries
  BY <1>1, <1>3, WithRunner
<1>5. PICK v : v = Pump(u)
  OBVIOUS
<1>6. v \in Kept(u)
  BY <1>4, <1>5, KeptSelf, PumpKeeps
<1>7. Become(v)
  BY <1>3, <1>5 DEF RunnerLands
<1>8. /\ w' \in Workers /\ Sound(w)' /\ OneBody' /\ fibers' \in SUBSET Fibers
      /\ w'.epoch = w.epoch /\ w'.entries = u.entries
  BY <1>1, <1>4, <1>6, <1>7, Becoming DEF Alike
<1>9. Held(w')
  BY <1>1, <1>4, <1>8, HeldSame
<1>10. OfPlan(inbox') /\ Rising(inbox', w'.epoch)
  BY <1>1, <1>2, <1>8
<1> QED BY <1>1, <1>2, <1>8, <1>9, <1>10, WorkerMoves

-----------------------------------------------------------------------------
(* Fibers *)

\* v is u after an operation of entry i that left a tape, or threw and left none.
Issues(u, v, i, tape) ==
  /\ v \in Workers
  /\ Same(u, v)
  /\ v.cursor = u.cursor /\ v.realCmd = u.realCmd /\ v.prep = u.prep
  /\ u.prep => v.queue = u.queue /\ v.drained = u.drained
  /\ ~u.prep =>
       /\ Queued(u.queue, v.queue, i, tape, FALSE, 0)
       /\ v.executed = u.executed + Total(tape)
       /\ v.playback = u.playback /\ v.drained = u.drained
       /\ v.dispFileOps = u.dispFileOps
  /\ \E n \in {0, 1} :
       v.execFileOps = u.execFileOps + n /\ v.entryFileOps = u.entryFileOps + n

\* An operation counts itself.
LEMMA BumpIs ==
  ASSUME NEW u \in Workers
  PROVE  LET v == BumpFileOp(u)
         IN  /\ v \in Workers /\ Same(u, v)
             /\ v.cursor = u.cursor /\ v.realCmd = u.realCmd /\ v.prep = u.prep
             /\ v.queue = u.queue /\ v.executed = u.executed /\ v.playback = u.playback
             /\ v.drained = u.drained /\ v.dispFileOps = u.dispFileOps
             /\ v.execFileOps = u.execFileOps + 1 /\ v.entryFileOps = u.entryFileOps + 1
<1>1. PICK x \in Nat, y \in Nat : x = u.execFileOps + 1 /\ y = u.entryFileOps + 1
  <2>1. u.execFileOps \in Nat /\ u.entryFileOps \in Nat
    BY WorkerFields
  <2> QED BY <2>1
<1>2. PICK v : v = [u EXCEPT !.execFileOps = x, !.entryFileOps = y]
  OBVIOUS
<1>3. v = BumpFileOp(u)
  BY <1>1, <1>2 DEF BumpFileOp
<1>4. v \in Workers
  BY <1>2 DEF Workers
<1>5. /\ Same(u, v)
      /\ v.cursor = u.cursor /\ v.realCmd = u.realCmd /\ v.prep = u.prep
      /\ v.queue = u.queue /\ v.executed = u.executed /\ v.playback = u.playback
      /\ v.drained = u.drained /\ v.dispFileOps = u.dispFileOps
      /\ v.execFileOps = x /\ v.entryFileOps = y
  BY <1>2 DEF Workers, Same
<1> QED BY <1>1, <1>3, <1>4, <1>5

\* One of the raw tier does not.
LEMMA CountIs ==
  ASSUME NEW u \in Workers, NEW op
  PROVE  LET v == CountFileOp(u, op)
         IN  /\ v \in Workers /\ Same(u, v)
             /\ v.cursor = u.cursor /\ v.realCmd = u.realCmd /\ v.prep = u.prep
             /\ v.queue = u.queue /\ v.executed = u.executed /\ v.playback = u.playback
             /\ v.drained = u.drained /\ v.dispFileOps = u.dispFileOps
             /\ v.parked = u.parked
             /\ \E n \in {0, 1} : /\ v.execFileOps = u.execFileOps + n
                                  /\ v.entryFileOps = u.entryFileOps + n
<1>1. CASE Counts(op)
  <2>1. CountFileOp(u, op) = BumpFileOp(u)
    BY <1>1 DEF CountFileOp
  <2>2. BumpFileOp(u).parked = u.parked
    BY DEF BumpFileOp, Workers
  <2> QED BY <2>1, <2>2, BumpIs
<1>2. CASE ~Counts(op)
  <2>1. CountFileOp(u, op) = u
    BY <1>2 DEF CountFileOp
  <2>2. u.execFileOps = u.execFileOps + 0 /\ u.entryFileOps = u.entryFileOps + 0
    BY WorkerFields
  <2> QED BY <2>1, <2>2 DEF Same
<1> QED BY <1>1, <1>2

\* Flash traffic goes behind the queue.
LEMMA IoIs ==
  ASSUME NEW u \in Workers, NEW i \in Nat, NEW tape \in Seq(Nat), NEW op
  PROVE  Issues(u, EnqueueBatch(CountFileOp(u, op), i, tape, FALSE, 0), i, tape)
<1>1. PICK x : x = CountFileOp(u, op)
  OBVIOUS
<1>2. /\ x \in Workers /\ Same(u, x)
      /\ x.cursor = u.cursor /\ x.realCmd = u.realCmd /\ x.prep = u.prep
      /\ x.queue = u.queue /\ x.executed = u.executed /\ x.playback = u.playback
      /\ x.drained = u.drained /\ x.dispFileOps = u.dispFileOps
      /\ \E n \in {0, 1} : /\ x.execFileOps = u.execFileOps + n
                           /\ x.entryFileOps = u.entryFileOps + n
  BY <1>1, CountIs
<1>3. PICK v : v = EnqueueBatch(x, i, tape, FALSE, 0)
  OBVIOUS
<1>4. Enqueued(x, v, i, tape, FALSE, 0)
  BY <1>2, <1>3, EnqueueIs
<1>5. Issues(u, v, i, tape)
  BY <1>2, <1>4 DEF Issues, Enqueued, Same
<1> QED BY <1>1, <1>3, <1>5

\* An operation that throws leaves nothing.
LEMMA ThrowIs ==
  ASSUME NEW u \in Workers, NEW i \in Nat
  PROVE  Issues(u, BumpFileOp(u), i, <<>>)
<1>1. PICK x : x = BumpFileOp(u)
  OBVIOUS
<1>2. /\ x \in Workers /\ Same(u, x)
      /\ x.cursor = u.cursor /\ x.realCmd = u.realCmd /\ x.prep = u.prep
      /\ x.queue = u.queue /\ x.executed = u.executed /\ x.playback = u.playback
      /\ x.drained = u.drained /\ x.dispFileOps = u.dispFileOps
      /\ x.execFileOps = u.execFileOps + 1 /\ x.entryFileOps = u.entryFileOps + 1
  BY <1>1, BumpIs
<1>3. PICK tape \in Seq(Nat) : tape = <<>>
  BY EmptySeq
<1>4. Total(tape) = 0
  BY <1>3, SumOfNothing DEF Total
<1>5. PICK q \in Seq(Steps) : q = u.queue
  BY WorkerFields
<1>6. Len(q) \in Nat /\ Unplayed(q) \in Nat /\ Credits(q) \in Nat
  BY UnplayedType
<1>7. Extends(q, q, i, FALSE)
  BY <1>6 DEF Extends
<1>8. Unplayed(q) = Unplayed(q) + Total(tape) /\ Credits(q) = Credits(q) + 0
  BY <1>4, <1>6
<1>9. Queued(u.queue, x.queue, i, tape, FALSE, 0)
  <2>1. \A k \in Len(q) + 1 .. Len(q) : FALSE
    BY <1>6
  <2> QED BY <1>2, <1>5, <1>7, <1>8, <2>1 DEF Queued
<1>10. x.executed = u.executed + Total(tape)
  <2>1. u.executed \in Nat
    BY WorkerFields
  <2> QED BY <1>2, <1>4, <2>1
<1>11. Issues(u, x, i, tape)
  BY <1>2, <1>9, <1>10 DEF Issues
<1> QED BY <1>1, <1>3, <1>11

\* v is a worker where a fiber has gone on: its entry and its command are the same.
Resumes(u, v) ==
  /\ v \in Workers /\ Sound(v)
  /\ v.epoch = u.epoch /\ v.entries = u.entries /\ v.realCmd = u.realCmd

\* An operation of the command in flight leaves the worker sound.
LEMMA IssueSound ==
  ASSUME NEW u \in Workers, Sound(u), u.realCmd # Idle, NEW v, NEW tape,
         Issues(u, v, u.realCmd, tape)
  PROVE  Resumes(u, v)
<1>1. /\ v \in Workers /\ Same(u, v)
      /\ v.cursor = u.cursor /\ v.realCmd = u.realCmd
  BY DEF Issues
<1>2. PICK i \in Nat, n \in Nat : i = u.cursor /\ i = u.realCmd /\ n = Len(u.entries) /\ i < n
  <2>1. u.cursor \in Nat /\ u.entries \in Seq(PlanEntries)
    BY WorkerFields
  <2>2. Len(u.entries) \in Nat
    BY <2>1
  <2>3. u.realCmd = u.cursor /\ u.cursor < Len(u.entries)
    BY DEF Sound
  <2> QED BY <2>1, <2>2, <2>3
<1>3. \A k \in 1 .. Len(u.queue) : u.queue[k].entry < n
  BY <1>2 DEF Sound
<1>4. \A k \in 1 .. Len(v.queue) : v.queue[k].entry < n
  <2>1. CASE u.prep
    BY <1>3, <2>1 DEF Issues
  <2>2. CASE ~u.prep
    <3>1. v.queue \in Seq(Steps) /\ Extends(u.queue, v.queue, i, FALSE)
      BY <1>2, <2>2 DEF Issues, Queued
    <3>2. PICK q \in Seq(Steps) : q = u.queue
      BY WorkerFields
    <3>3. PICK r \in Seq(Steps) : r = v.queue
      BY <3>1
    <3>4. Extends(q, r, i, FALSE) /\ \A k \in 1 .. Len(q) : q[k].entry < n
      BY <1>3, <3>1, <3>2, <3>3
    <3>5. \A k \in 1 .. Len(r) : r[k].entry < n
      BY ONLY <3>4, <1>2, SoundQueue
    <3> QED BY <3>3, <3>5
  <2> QED BY <2>1, <2>2
<1> QED BY <1>1, <1>2, <1>4 DEF Resumes, Sound, Same

\* format() empties the queue before its own traffic.
LEMMA FormatSound ==
  ASSUME NEW u \in Workers, Sound(u), u.realCmd # Idle, NEW tape \in Seq(Nat)
  PROVE  Resumes(u, EnqueueBatch(DeviceReset(BumpFileOp(u)), u.realCmd, tape, FALSE, 0))
<1>1. PICK x : x = BumpFileOp(u)
  OBVIOUS
<1>2. x \in Workers /\ Same(u, x) /\ x.cursor = u.cursor /\ x.realCmd = u.realCmd
  BY <1>1, BumpIs
<1>3. PICK y : y = [x EXCEPT !.queue = <<>>, !.executed = 0]
  OBVIOUS
<1>4. /\ y \in Workers /\ Same(u, y) /\ y.cursor = u.cursor /\ y.realCmd = u.realCmd
      /\ y.queue = <<>>
  <2>1. <<>> \in Seq(Steps)
    OBVIOUS
  <2>2. y \in Workers
    BY <1>2, <1>3, <2>1 DEF Workers
  <2>3. /\ y.epoch = x.epoch /\ y.runner = x.runner /\ y.entries = x.entries
        /\ y.limits = x.limits /\ y.cursor = x.cursor /\ y.realCmd = x.realCmd
        /\ y.queue = <<>>
    BY <1>2, <1>3 DEF Workers
  <2> QED BY <1>2, <2>2, <2>3 DEF Same
<1>5. PICK i \in Nat, n \in Nat : i = u.cursor /\ i = u.realCmd /\ n = Len(u.entries) /\ i < n
  <2>1. u.cursor \in Nat /\ u.entries \in Seq(PlanEntries)
    BY WorkerFields
  <2>2. Len(u.entries) \in Nat
    BY <2>1
  <2>3. u.realCmd = u.cursor /\ u.cursor < Len(u.entries)
    BY DEF Sound
  <2> QED BY <2>1, <2>2, <2>3
<1>6. PICK v : v = EnqueueBatch(y, i, tape, FALSE, 0)
  OBVIOUS
<1>7. Enqueued(y, v, i, tape, FALSE, 0)
  BY <1>4, <1>6, EnqueueIs
<1>8. /\ v \in Workers /\ v.epoch = u.epoch /\ v.entries = u.entries /\ v.realCmd = u.realCmd
      /\ v.cursor = u.cursor
  BY <1>4, <1>7 DEF Enqueued, Same
<1>9. \A k \in 1 .. Len(v.queue) : v.queue[k].entry < n
  <2>1. CASE y.prep
    <3>1. v.queue = <<>>
      BY <1>4, <1>7, <2>1 DEF Enqueued
    <3> QED BY <3>1
  <2>2. CASE ~y.prep
    <3>1. PICK q \in Seq(Steps) : q = <<>>
      BY EmptySeq
    <3>2. PICK r \in Seq(Steps) : r = v.queue /\ Extends(q, r, i, FALSE)
      BY <1>4, <1>7, <2>2, <3>1 DEF Enqueued, Queued
    <3>3. \A k \in 1 .. Len(q) : q[k].entry < n
      BY <3>1
    <3>4. \A k \in 1 .. Len(r) : r[k].entry < n
      BY ONLY <3>2, <3>3, <1>5, SoundQueue
    <3> QED BY <3>2, <3>4
  <2> QED BY <2>1, <2>2
<1>10. Resumes(u, v)
  BY <1>5, <1>8, <1>9 DEF Resumes, Sound
<1> QED BY <1>1, <1>3, <1>5, <1>6, <1>10 DEF DeviceReset

\* The bracket may be switched whenever.
LEMMA SetPrepSound ==
  ASSUME NEW u \in Workers, Sound(u), NEW on \in BOOLEAN
  PROVE  Resumes(u, SetPrep(u, on))
<1>1. PICK n \in Nat : n = IF on THEN u.dispFileOps ELSE 0
  BY WorkerFields
<1>2. PICK v : v = [u EXCEPT !.prep = on, !.dispFileOps = n]
  OBVIOUS
<1>3. v = SetPrep(u, on)
  BY <1>1, <1>2 DEF SetPrep, Workers
<1>4. /\ v \in Workers /\ v.epoch = u.epoch /\ v.entries = u.entries /\ v.realCmd = u.realCmd
      /\ v.cursor = u.cursor /\ v.queue = u.queue
  BY <1>2 DEF Workers
<1> QED BY <1>3, <1>4 DEF Resumes, Sound

\* So may an operation count itself.
LEMMA BumpSound ==
  ASSUME NEW u \in Workers, Sound(u)
  PROVE  Resumes(u, BumpFileOp(u))
<1>1. PICK v : v = BumpFileOp(u)
  OBVIOUS
<1>2. /\ v \in Workers /\ Same(u, v) /\ v.cursor = u.cursor /\ v.realCmd = u.realCmd
      /\ v.queue = u.queue
  BY <1>1, BumpIs
<1> QED BY <1>1, <1>2 DEF Resumes, Sound, Same

\* A fiber that has gone on is still the only one of its epoch.
LEMMA ResumedBody ==
  ASSUME Types, OneBody, NEW f \in fibers, NEW script \in Seq(PlanOps),
         w'.epoch = w.epoch, w'.realCmd = w.realCmd,
         fibers' = Resumed(f, script) \/ fibers' = fibers \ {f}
  PROVE  OneBody' /\ fibers' \in SUBSET Fibers
<1>1. PICK g : g = [f EXCEPT !.script = script]
  OBVIOUS
<1>2. f \in Fibers /\ \A h \in fibers : h \in Fibers
  BY DEF Types
<1>3. g \in Fibers /\ g.epoch = f.epoch /\ g.index = f.index
  BY <1>1, <1>2 DEF Fibers
<1>4. \A h \in fibers' : h = g \/ (h \in fibers /\ h # f)
  BY <1>1 DEF Resumed
<1>5. \A h \in fibers' : h.epoch <= w.epoch
  BY <1>3, <1>4 DEF OneBody
<1>6. \A h \in fibers' : h.epoch = w.epoch => h.index = w.realCmd
  BY <1>3, <1>4 DEF OneBody
<1>7. ASSUME NEW h \in fibers', NEW h2 \in fibers', h.epoch = w.epoch, h2.epoch = w.epoch
      PROVE  h = h2
  <2>1. CASE h = g /\ h2 = g
    BY <2>1
  <2>2. CASE h = g /\ h2 # g
    BY <1>3, <1>4, <1>7, <2>2 DEF OneBody
  <2>3. CASE h # g /\ h2 = g
    BY <1>3, <1>4, <1>7, <2>3 DEF OneBody
  <2>4. CASE h # g /\ h2 # g
    BY <1>4, <1>7, <2>4 DEF OneBody
  <2> QED BY <2>1, <2>2, <2>3, <2>4
<1>8. OneBody'
  BY <1>5, <1>6, <1>7 DEF OneBody
<1>9. fibers' \in SUBSET Fibers
  BY <1>2, <1>3, <1>4
<1> QED BY <1>8, <1>9

\* A step of a fiber that leaves the command in flight alone keeps the invariant.
LEMMA ResumeKeeps ==
  ASSUME WInv, NEW f \in fibers, NEW script \in Seq(PlanOps), Resumes(w, w'),
         fibers' = Resumed(f, script) \/ fibers' = fibers \ {f},
         UNCHANGED <<plan, epoch, sent, acked, inbox, outbox>>
  PROVE  WInv'
<1>1. /\ Types /\ Sound(w) /\ OneBody /\ Held(w) /\ OfPlan(inbox) /\ Rising(inbox, w.epoch)
      /\ w.epoch <= epoch /\ epoch <= MaxEpoch /\ outbox \in Seq(Acks) /\ inbox \in Seq(Mail)
  BY DEF WInv, Shipped, EpochsRise, Types
<1>2. /\ w' \in Workers /\ Sound(w') /\ w'.epoch = w.epoch /\ w'.entries = w.entries
      /\ w'.realCmd = w.realCmd
  BY DEF Resumes
<1>3. Sound(w)'
  BY <1>2 DEF Sound
<1>4. OneBody' /\ fibers' \in SUBSET Fibers
  BY <1>1, <1>2, ResumedBody
<1>5. Held(w')
  BY <1>1, <1>2, HeldSame
<1> QED BY <1>1, <1>2, <1>3, <1>4, <1>5, WorkerMoves

\* What is left of a script is one.
LEMMA ScriptParts ==
  ASSUME NEW script \in Seq(PlanOps), script # <<>>
  PROVE  /\ Head(script) \in PlanOps /\ Head(script) \in Operations
         /\ Head(script).does \in {"io", "raw", "throw", "format", "prepOn", "prepOff"}
         /\ Head(script).tape \in Seq(Nat)
         /\ Tail(script) \in Seq(PlanOps) /\ <<>> \in Seq(PlanOps)
<1>1. Head(script) \in PlanOps /\ Tail(script) \in Seq(PlanOps)
  BY HeadTailProperties
<1>2. Head(script) \in Operations
  BY <1>1, PlanTypes
<1> QED BY <1>1, <1>2, EmptySeq DEF Operations

\* A fiber of this epoch is the command in flight.
LEMMA InFlight ==
  ASSUME Types, OneBody, Sound(w), NEW f \in fibers, f.epoch = w.epoch
  PROVE  /\ f \in Fibers /\ f.index = w.realCmd /\ w.realCmd # Idle /\ w.realCmd \in Nat
         /\ f.script \in Seq(PlanOps)
         /\ w.realCmd = w.cursor /\ w.cursor < Len(w.entries)
<1>1. f \in Fibers
  BY DEF Types
<1>2. f.index = w.realCmd /\ f.index \in Nat /\ f.script \in Seq(PlanOps)
  BY <1>1 DEF OneBody, Fibers
<1>3. w.realCmd # Idle
  BY <1>2, Caps
<1> QED BY <1>1, <1>2, <1>3 DEF Sound

\* The next operation of the command in flight keeps the invariant.
LEMMA OpKeeps == WInv /\ CommandOp => WInv'
<1> SUFFICES ASSUME WInv, CommandOp PROVE WInv'
  OBVIOUS
<1>1. Types /\ OneBody /\ Sound(w) /\ w \in Workers
  BY DEF WInv, Types
<1>2. PICK f \in fibers : f.epoch = w.epoch /\ f.script # <<>>
        /\ w' = (CASE Head(f.script).does \in {"io", "raw"} ->
                        EnqueueBatch(CountFileOp(w, Head(f.script)), f.index,
                                     Head(f.script).tape, FALSE, 0)
                   [] Head(f.script).does = "throw" -> BumpFileOp(w)
                   [] Head(f.script).does = "format" ->
                        EnqueueBatch(DeviceReset(BumpFileOp(w)), f.index,
                                     Head(f.script).tape, FALSE, 0)
                   [] Head(f.script).does = "prepOn" -> SetPrep(w, TRUE)
                   [] Head(f.script).does = "prepOff" -> SetPrep(w, FALSE))
        /\ fibers' = Resumed(f, IF Head(f.script).does = "throw" THEN <<>> ELSE Tail(f.script))
  BY DEF CommandOp
<1>3. f.index = w.realCmd /\ w.realCmd # Idle /\ w.realCmd \in Nat /\ f.script \in Seq(PlanOps)
  BY <1>1, <1>2, InFlight
<1>4. PICK op \in Operations : op = Head(f.script)
  BY <1>2, <1>3, ScriptParts
<1>5. op.does \in {"io", "raw", "throw", "format", "prepOn", "prepOff"} /\ op.tape \in Seq(Nat)
  BY <1>2, <1>3, <1>4, ScriptParts
<1>6. PICK script \in Seq(PlanOps) :
        script = IF op.does = "throw" THEN <<>> ELSE Tail(f.script)
  BY <1>2, <1>3, <1>4, ScriptParts
<1>7. Resumes(w, w')
  <2>1. CASE op.does \in {"io", "raw"}
    <3>1. w' = EnqueueBatch(CountFileOp(w, op), w.realCmd, op.tape, FALSE, 0)
      BY <1>2, <1>3, <1>4, <2>1
    <3>2. Issues(w, w', w.realCmd, op.tape)
      BY <1>1, <1>3, <1>5, <3>1, IoIs
    <3> QED BY <1>1, <1>3, <3>2, IssueSound
  <2>2. CASE op.does = "throw"
    <3>1. w' = BumpFileOp(w)
      BY <1>2, <1>4, <2>2
    <3> QED BY <1>1, <3>1, BumpSound
  <2>3. CASE op.does = "format"
    <3>1. w' = EnqueueBatch(DeviceReset(BumpFileOp(w)), w.realCmd, op.tape, FALSE, 0)
      BY <1>2, <1>3, <1>4, <2>3
    <3> QED BY <1>1, <1>3, <1>5, <3>1, FormatSound
  <2>4. CASE op.does \in {"prepOn", "prepOff"}
    <3>1. PICK on \in BOOLEAN : w' = SetPrep(w, on)
      BY <1>2, <1>4, <2>4
    <3> QED BY <1>1, <3>1, SetPrepSound
  <2> QED BY <1>5, <2>1, <2>2, <2>3, <2>4
<1>8. fibers' = Resumed(f, script)
  BY <1>2, <1>4, <1>6
<1>9. UNCHANGED <<plan, epoch, sent, acked, inbox, outbox>>
  BY DEF CommandOp
<1> QED BY <1>7, <1>8, <1>9, ResumeKeeps

\* What a fiber of an earlier epoch still does keeps the invariant.
LEMMA StaleKeeps == WInv /\ StaleOp => WInv'
<1> SUFFICES ASSUME WInv, StaleOp PROVE WInv'
  OBVIOUS
<1>1. Types /\ OneBody /\ Sound(w) /\ w \in Workers
  BY DEF WInv, Types
<1>2. PICK f \in fibers : f.epoch # w.epoch
        /\ IF f.script = <<>> THEN UNCHANGED w /\ fibers' = fibers \ {f}
           ELSE IF Head(f.script).does \in {"prepOn", "prepOff"}
                THEN /\ w' = SetPrep(w, Head(f.script).does = "prepOn")
                     /\ fibers' = Resumed(f, Tail(f.script))
                ELSE /\ w' = Refused(w, f, Head(f.script))
                     /\ fibers' = fibers \ {f}
  BY DEF StaleOp
<1>3. f.script \in Seq(PlanOps) /\ <<>> \in Seq(PlanOps)
  <2>1. f \in Fibers
    BY <1>1 DEF Types
  <2> QED BY <2>1, EmptySeq DEF Fibers
<1>4. UNCHANGED <<plan, epoch, sent, acked, inbox, outbox>>
  BY DEF StaleOp
<1>5. CASE f.script = <<>>
  <2>1. Resumes(w, w') /\ fibers' = fibers \ {f}
    BY <1>1, <1>2, <1>5 DEF Resumes
  <2> QED BY <1>3, <1>4, <2>1, ResumeKeeps
<1>6. CASE f.script # <<>> /\ Head(f.script).does \in {"prepOn", "prepOff"}
  <2>1. w' = SetPrep(w, Head(f.script).does = "prepOn") /\ fibers' = Resumed(f, Tail(f.script))
    BY <1>2, <1>6
  <2>2. PICK on \in BOOLEAN : on = (Head(f.script).does = "prepOn")
    OBVIOUS
  <2>3. Resumes(w, w')
    BY <1>1, <2>1, <2>2, SetPrepSound
  <2>4. Tail(f.script) \in Seq(PlanOps)
    BY <1>3, <1>6, ScriptParts
  <2> QED BY <1>4, <2>1, <2>3, <2>4, ResumeKeeps
<1>7. CASE f.script # <<>> /\ Head(f.script).does \notin {"prepOn", "prepOff"}
  <2>1. w' = CountFileOp(w, Head(f.script)) /\ fibers' = fibers \ {f}
    BY <1>2, <1>7 DEF Refused
  <2>2. Resumes(w, w')
    BY <1>1, <2>1, CountIs DEF Resumes, Sound, Same
  <2> QED BY <1>3, <1>4, <2>1, <2>2, ResumeKeeps
<1> QED BY <1>5, <1>6, <1>7

\* A command that has settled closes its entry.
LEMMA QuiescedIs ==
  ASSUME NEW u \in Workers, Sound(u), u.realCmd # Idle
  PROVE  Closes(u, [EnqueueBatch(u, u.realCmd, <<>>, TRUE, u.entryFileOps)
                      EXCEPT !.realCmd = Idle, !.cursor = u.realCmd + 1],
                <<>>, u.entryFileOps)
<1>1. PICK i \in Nat : i = u.cursor /\ i = u.realCmd
  BY WorkerFields DEF Sound
<1>2. PICK ops \in Nat, x \in Nat : ops = u.entryFileOps /\ x = u.execFileOps
  BY WorkerFields
<1>3. PICK tape \in Seq(Nat) : tape = <<>>
  BY EmptySeq
<1>4. PICK z : z = EnqueueBatch(u, i, tape, TRUE, ops)
  OBVIOUS
<1>5. Enqueued(u, z, i, tape, TRUE, ops)
  BY <1>4, EnqueueIs
<1>6. PICK c \in Nat : c = i + 1
  OBVIOUS
<1>7. PICK v : v = [z EXCEPT !.realCmd = Idle, !.cursor = c]
  OBVIOUS
<1>8. z \in Workers
  BY <1>5 DEF Enqueued
<1>9. /\ v \in Workers
      /\ v.epoch = z.epoch /\ v.runner = z.runner /\ v.entries = z.entries
      /\ v.cursor = c /\ v.limits = z.limits /\ v.execFileOps = z.execFileOps
      /\ v.prep = z.prep /\ v.realCmd = Idle /\ v.queue = z.queue
      /\ v.executed = z.executed /\ v.playback = z.playback /\ v.drained = z.drained
      /\ v.dispFileOps = z.dispFileOps
  BY <1>7, <1>8 DEF Workers
<1>10. Flying(u) = ops /\ v.execFileOps = x
  BY <1>2, <1>5, <1>9 DEF Flying, Enqueued
<1>11. Closes(u, v, tape, ops)
  BY <1>1, <1>2, <1>5, <1>6, <1>9, <1>10 DEF Closes, Same, Enqueued
<1> QED BY <1>1, <1>2, <1>3, <1>4, <1>6, <1>7, <1>11

\* finish() keeps the invariant.
LEMMA QuiescedKeeps == WInv /\ CommandQuiesced => WInv'
<1> SUFFICES ASSUME WInv, CommandQuiesced PROVE WInv'
  OBVIOUS
<1>1. /\ Types /\ Sound(w) /\ OneBody /\ Held(w) /\ OfPlan(inbox) /\ Rising(inbox, w.epoch)
      /\ w.epoch <= epoch /\ epoch <= MaxEpoch /\ w \in Workers /\ outbox \in Seq(Acks)
      /\ fibers \in SUBSET Fibers /\ plan \in Plans /\ inbox \in Seq(Mail)
  BY DEF WInv, Shipped, EpochsRise, Types
<1>2. PICK f \in fibers : f.epoch = w.epoch /\ f.script = <<>>
        /\ LET u == [EnqueueBatch(w, f.index, <<>>, TRUE, w.entryFileOps)
                       EXCEPT !.realCmd = Idle, !.cursor = f.index + 1]
               v == Drain(Pump(u))
           IN  /\ w' = v
               /\ fibers' = (fibers \ {f}) \cup
                    IF v.realCmd = Idle THEN {}
                    ELSE {[epoch  |-> v.epoch, index |-> v.realCmd,
                           script |-> v.entries[v.realCmd + 1].script]}
               /\ outbox' = Append(outbox, AckOf(v))
  BY DEF CommandQuiesced
<1>3. /\ f \in Fibers /\ f.index = w.realCmd /\ w.realCmd # Idle
      /\ w.realCmd = w.cursor /\ w.cursor < Len(w.entries)
  BY <1>1, <1>2, InFlight
<1>4. PICK u : u = [EnqueueBatch(w, w.realCmd, <<>>, TRUE, w.entryFileOps)
                      EXCEPT !.realCmd = Idle, !.cursor = w.realCmd + 1]
  OBVIOUS
<1>5. Closing(w, u)
  <2>1. <<>> \in Seq(Nat) /\ w.entryFileOps \in Nat
    BY <1>1, EmptySeq, WorkerFields
  <2>2. Closes(w, u, <<>>, w.entryFileOps)
    BY <1>1, <1>3, <1>4, QuiescedIs
  <2> QED BY <2>1, <2>2 DEF Closing
<1>6. u \in Workers /\ Sound(u) /\ Same(w, u) /\ u.realCmd = Idle
  BY <1>1, <1>3, <1>5, ClosingSound
<1>7. PICK v : v = Drain(Pump(u))
  OBVIOUS
<1>8. v \in Kept(u)
  <2>1. Pump(u) \in Kept(u)
    BY <1>6, KeptSelf, PumpKeeps
  <2> QED BY <1>7, <2>1, DrainKeeps
<1>9. /\ w' = v /\ outbox' = Append(outbox, AckOf(v))
      /\ fibers' = (fibers \ {f}) \cup
           IF v.realCmd = Idle THEN {}
           ELSE {[epoch  |-> v.epoch, index |-> v.realCmd,
                  script |-> v.entries[v.realCmd + 1].script]}
  BY <1>2, <1>3, <1>4, <1>7
<1>10. v \in Workers /\ Sound(v) /\ v.epoch = w.epoch /\ v.entries = w.entries
  BY <1>6, <1>8 DEF Kept, GoesOn, Same
<1>11. \A g \in fibers \ {f} : g.epoch # w.epoch /\ g.epoch <= w.epoch
  BY <1>1, <1>2 DEF OneBody
<1>12. PICK new \in SUBSET Fibers :
         /\ fibers' = (fibers \ {f}) \cup new
         /\ \A g \in new : g.epoch = v.epoch /\ g.index = v.realCmd
         /\ \A g, h \in new : g = h
  <2>1. CASE v.realCmd = Idle
    <3>1. fibers' = (fibers \ {f}) \cup {} /\ {} \in SUBSET Fibers
      BY <1>9, <2>1
    <3> QED BY <3>1
  <2>2. CASE v.realCmd # Idle
    <3>1. PICK g \in Fibers : g = [epoch  |-> v.epoch, index |-> v.realCmd,
                                   script |-> v.entries[v.realCmd + 1].script]
      BY <1>10, <2>2, NewFiber
    <3>2. g.epoch = v.epoch /\ g.index = v.realCmd
      BY <3>1
    <3>3. fibers' = (fibers \ {f}) \cup {g} /\ {g} \in SUBSET Fibers
      BY <1>9, <2>2, <3>1
    <3> QED BY <3>2, <3>3
  <2> QED BY <2>1, <2>2
<1>13. OneBody'
  <2>1. w.epoch \in Nat
    BY <1>1, WorkerFields
  <2>2. \A g \in fibers' : g.epoch <= w'.epoch
    BY <1>9, <1>10, <1>11, <1>12, <2>1
  <2>3. \A g \in fibers' : g.epoch = w'.epoch => g.index = w'.realCmd
    BY <1>9, <1>10, <1>11, <1>12
  <2>4. \A g, h \in fibers' : g.epoch = w'.epoch /\ h.epoch = w'.epoch => g = h
    BY <1>9, <1>10, <1>11, <1>12
  <2> QED BY <2>2, <2>3, <2>4 DEF OneBody
<1>14. fibers' \in SUBSET Fibers
  BY <1>1, <1>12
<1>15. Sound(w)' /\ w' \in Workers /\ Held(w') /\ w'.epoch = w.epoch
  <2>1. Held(v)
    BY <1>1, <1>10, HeldSame
  <2> QED BY <1>9, <1>10, <2>1 DEF Sound
<1>16. outbox' \in Seq(Acks)
  <2>1. AckOf(v) \in Acks
    BY <1>10, AckType
  <2> QED BY <1>1, <1>9, <2>1
<1>17. UNCHANGED <<plan, epoch, sent, acked, inbox>>
  BY DEF CommandQuiesced
<1> QED BY <1>1, <1>13, <1>14, <1>15, <1>16, <1>17, WorkerMoves

-----------------------------------------------------------------------------
(* The coordinator and the proxy *)

\* A letter is posted behind the others.
LEMMA PostedIs ==
  ASSUME inbox \in Seq(Mail), NEW m \in Mail, inbox' = Append(inbox, m)
  PROVE  /\ inbox' \in Seq(Mail)
         /\ Len(inbox) \in Nat /\ Len(inbox') = Len(inbox) + 1
         /\ \A n \in 1 .. Len(inbox) : inbox'[n] = inbox[n]
         /\ inbox'[Len(inbox) + 1] = m
<1>1. PICK box \in Seq(Mail) : box = inbox
  OBVIOUS
<1>2. PICK more : more = Append(box, m)
  OBVIOUS
<1>3. /\ more \in Seq(Mail) /\ Len(box) \in Nat /\ Len(more) = Len(box) + 1
      /\ \A n \in 1 .. Len(box) : more[n] = box[n]
      /\ more[Len(box) + 1] = m
  BY <1>2, AppendProperties
<1> QED BY <1>1, <1>2, <1>3

\* A letter that is no reset leaves the resets in order.
LEMMA PostedPlain ==
  ASSUME inbox \in Seq(Mail), NEW m \in Mail, inbox' = Append(inbox, m), m.type # "RESET",
         NEW e, Rising(inbox, e)
  PROVE  Rising(inbox', e)
<1>1. /\ Len(inbox) \in Nat /\ Len(inbox') = Len(inbox) + 1
      /\ \A n \in 1 .. Len(inbox) : inbox'[n] = inbox[n]
      /\ inbox'[Len(inbox) + 1] = m
  BY PostedIs
<1> SUFFICES ASSUME NEW n \in 1 .. Len(inbox'), inbox'[n].type = "RESET"
             PROVE  /\ e < inbox'[n].epoch /\ inbox'[n].epoch <= epoch
                    /\ \A k \in 1 .. n - 1 : inbox'[k].type = "RESET" =>
                         inbox'[k].epoch < inbox'[n].epoch
  BY DEF Rising
<1>2. n \in 1 .. Len(inbox)
  BY <1>1
<1>3. \A k \in 1 .. n - 1 : k \in 1 .. Len(inbox)
  BY <1>1, <1>2
<1>4. /\ e < inbox[n].epoch /\ inbox[n].epoch <= epoch
      /\ \A k \in 1 .. n - 1 : inbox[k].type = "RESET" => inbox[k].epoch < inbox[n].epoch
  BY <1>1, <1>2 DEF Rising
<1> QED BY <1>1, <1>2, <1>3, <1>4

\* What the coordinator does leaves the worker alone.
LEMMA CoordinatorMoves ==
  ASSUME WInv, epoch' \in Nat, epoch <= epoch', epoch' <= MaxEpoch, sent' \in 0 .. Len(plan),
         acked' \in Acked, inbox' \in Seq(Mail), outbox' \in Seq(Acks), OfPlan(inbox'),
         Rising(inbox, w.epoch)', UNCHANGED <<plan, w, fibers>>
  PROVE  WInv'
<1>1. Types /\ Sound(w) /\ OneBody /\ Held(w) /\ w.epoch <= epoch
  BY DEF WInv, Shipped, EpochsRise
<1>2. Types'
  BY <1>1 DEF Types
<1>3. Sound(w)' /\ OneBody' /\ Shipped'
  BY <1>1 DEF Sound, OneBody, Shipped, Held, OfPlan
<1>4. EpochsRise'
  <2>1. w.epoch \in Nat /\ epoch \in Nat
    BY <1>1, WorkerFields DEF Types
  <2>2. w.epoch <= epoch'
    BY <1>1, <2>1
  <2> QED BY <2>2 DEF EpochsRise
<1> QED BY <1>2, <1>3, <1>4 DEF WInv

\* Shipping the next entry keeps the invariant.
LEMMA SendEntriesKeeps == WInv /\ SendEntries => WInv'
<1> SUFFICES ASSUME WInv, SendEntries PROVE WInv'
  OBVIOUS
<1>1. /\ Types /\ OfPlan(inbox) /\ Rising(inbox, w.epoch) /\ epoch <= MaxEpoch /\ epoch \in Nat
      /\ sent \in 0 .. Len(plan) /\ plan \in Plans /\ acked \in Acked /\ inbox \in Seq(Mail)
      /\ outbox \in Seq(Acks)
  BY DEF WInv, Shipped, EpochsRise, Types
<1>2. sent < Len(plan) /\ sent' = sent + 1 /\ epoch' = epoch /\ acked' = acked
      /\ UNCHANGED <<plan, outbox, w, fibers>>
  BY DEF SendEntries, Post
<1>3. PICK p \in Seq(PlanEntries) : p = plan
  BY <1>1, PlanTypes
<1>4. PICK list \in Seq(PlanEntries) : list = <<plan[sent + 1]>>
  <2>1. sent + 1 \in 1 .. Len(p)
    BY <1>1, <1>2, <1>3
  <2>2. p[sent + 1] \in PlanEntries
    BY <2>1
  <2>3. <<p[sent + 1]>> \in Seq(PlanEntries)
    BY <2>2
  <2> QED BY <1>3, <2>3
<1>5. PICK m : m = [type |-> "ENTRIES", epoch |-> epoch, from |-> sent, list |-> list]
  OBVIOUS
<1>6. m \in Mail /\ m.type = "ENTRIES" /\ m.from = sent /\ m.list = list
  <2>1. sent \in Nat
    BY <1>1
  <2> QED BY <1>1, <1>5, <2>1 DEF Mail
<1>7. inbox' = Append(inbox, m)
  BY <1>4, <1>5 DEF SendEntries, Post
<1>8. /\ inbox' \in Seq(Mail) /\ Len(inbox) \in Nat /\ Len(inbox') = Len(inbox) + 1
      /\ \A n \in 1 .. Len(inbox) : inbox'[n] = inbox[n]
      /\ inbox'[Len(inbox) + 1] = m
  BY <1>1, <1>6, <1>7, PostedIs
<1>9. OfPlan(inbox')
  <2> SUFFICES ASSUME NEW n \in 1 .. Len(inbox'), inbox'[n].type = "ENTRIES"
               PROVE  inbox'[n].from < Len(plan) /\ inbox'[n].list = <<plan[inbox'[n].from + 1]>>
    BY DEF OfPlan
  <2>1. n \in 1 .. Len(inbox) \/ n = Len(inbox) + 1
    BY <1>8
  <2>2. CASE n \in 1 .. Len(inbox)
    BY <1>1, <1>8, <2>2 DEF OfPlan
  <2>3. CASE n = Len(inbox) + 1
    BY <1>2, <1>4, <1>6, <1>8, <2>3
  <2> QED BY <2>1, <2>2, <2>3
<1>10. Rising(inbox', w.epoch)
  BY <1>1, <1>6, <1>7, PostedPlain
<1>11. Rising(inbox, w.epoch)'
  BY <1>2, <1>10 DEF Rising
<1>12. sent' \in 0 .. Len(plan) /\ epoch <= epoch'
  BY <1>1, <1>2
<1> QED BY <1>1, <1>2, <1>8, <1>9, <1>11, <1>12, CoordinatorMoves

\* A grant of the coordinator keeps the invariant.
LEMMA SendGrantKeeps == WInv /\ SendGrant => WInv'
<1> SUFFICES ASSUME WInv, SendGrant PROVE WInv'
  OBVIOUS
<1>1. /\ Types /\ OfPlan(inbox) /\ Rising(inbox, w.epoch) /\ epoch <= MaxEpoch /\ epoch \in Nat
      /\ sent \in 0 .. Len(plan) /\ plan \in Plans /\ acked \in Acked /\ inbox \in Seq(Mail)
      /\ outbox \in Seq(Acks)
  BY DEF WInv, Shipped, EpochsRise, Types
<1>2. epoch' = epoch /\ sent' = sent /\ acked' = acked
      /\ UNCHANGED <<plan, outbox, w, fibers>>
  BY DEF SendGrant, Post
<1>3. PICK limit \in acked.cursor .. sent, ahead \in 0 .. MaxChunks, ungated \in BOOLEAN :
        inbox' = Append(inbox, [type |-> "GRANT", epoch |-> epoch,
                 grant |-> [rule |-> IF ungated THEN "step" ELSE "race", round |-> 0,
                            entryLimit |-> limit,
                            playLimit |-> IF ungated THEN Infinity ELSE acked.playback + ahead,
                            scale |-> 1]])
  BY DEF SendGrant, Post
<1>4. acked.cursor \in Nat /\ acked.playback \in Nat
  BY <1>1 DEF Acked
<1>5. PICK g : g = [rule |-> IF ungated THEN "step" ELSE "race", round |-> 0,
                    entryLimit |-> limit,
                    playLimit |-> IF ungated THEN Infinity ELSE acked.playback + ahead,
                    scale |-> 1]
  OBVIOUS
<1>6. g \in Grants
  <2>1. limit \in Nat /\ ahead \in Nat
    BY <1>1, <1>3, <1>4, Caps
  <2>2. PICK play \in Nat \cup {Infinity} :
          play = IF ungated THEN Infinity ELSE acked.playback + ahead
    <3>1. PICK sum \in Nat : sum = acked.playback + ahead
      BY <1>4, <2>1
    <3>2. (IF ungated THEN Infinity ELSE sum) \in Nat \cup {Infinity}
      OBVIOUS
    <3> QED BY <3>1, <3>2
  <2>3. PICK rule \in {"none", "race", "step"} : rule = IF ungated THEN "step" ELSE "race"
    OBVIOUS
  <2>4. g = [rule |-> rule, round |-> 0, entryLimit |-> limit, playLimit |-> play, scale |-> 1]
    BY <1>5, <2>2, <2>3
  <2> QED BY <2>1, <2>4 DEF Grants
<1>7. PICK m : m = [type |-> "GRANT", epoch |-> epoch, grant |-> g]
  OBVIOUS
<1>8. m \in Mail /\ m.type = "GRANT" /\ inbox' = Append(inbox, m)
  BY <1>1, <1>3, <1>5, <1>6, <1>7 DEF Mail
<1>9. /\ inbox' \in Seq(Mail) /\ Len(inbox) \in Nat /\ Len(inbox') = Len(inbox) + 1
      /\ \A n \in 1 .. Len(inbox) : inbox'[n] = inbox[n]
      /\ inbox'[Len(inbox) + 1] = m
  BY <1>1, <1>8, PostedIs
<1>10. OfPlan(inbox')
  <2> SUFFICES ASSUME NEW n \in 1 .. Len(inbox'), inbox'[n].type = "ENTRIES"
               PROVE  inbox'[n].from < Len(plan) /\ inbox'[n].list = <<plan[inbox'[n].from + 1]>>
    BY DEF OfPlan
  <2>1. n \in 1 .. Len(inbox) \/ n = Len(inbox) + 1
    BY <1>9
  <2>2. n # Len(inbox) + 1
    BY <1>8, <1>9
  <2> QED BY <1>1, <1>9, <2>1, <2>2 DEF OfPlan
<1>11. Rising(inbox', w.epoch)
  BY <1>1, <1>8, PostedPlain
<1>12. Rising(inbox, w.epoch)'
  BY <1>2, <1>11 DEF Rising
<1>13. epoch <= epoch'
  BY <1>1, <1>2
<1> QED BY <1>1, <1>2, <1>9, <1>10, <1>12, <1>13, CoordinatorMoves

\* A reset of the coordinator keeps the invariant.
LEMMA SendResetKeeps == WInv /\ SendReset => WInv'
<1> SUFFICES ASSUME WInv, SendReset PROVE WInv'
  OBVIOUS
<1>1. /\ Types /\ OfPlan(inbox) /\ Rising(inbox, w.epoch) /\ epoch <= MaxEpoch /\ epoch \in Nat
      /\ sent \in 0 .. Len(plan) /\ plan \in Plans /\ acked \in Acked /\ inbox \in Seq(Mail)
      /\ outbox \in Seq(Acks) /\ w.epoch <= epoch /\ w \in Workers
  BY DEF WInv, Shipped, EpochsRise, Types
<1>2. /\ epoch < MaxEpoch /\ epoch' = epoch + 1 /\ sent' = 0 /\ acked' = NothingAcked
      /\ UNCHANGED <<plan, outbox, w, fibers>>
      /\ inbox' = Append(inbox, [type |-> "RESET", epoch |-> epoch'])
  BY DEF SendReset, Post
<1>3. PICK m \in Mail : m = [type |-> "RESET", epoch |-> epoch'] /\ m.type = "RESET"
                        /\ m.epoch = epoch + 1
  <2>1. epoch + 1 \in Nat
    BY <1>1
  <2> QED BY <1>2, <2>1 DEF Mail
<1>4. /\ inbox' \in Seq(Mail) /\ Len(inbox) \in Nat /\ Len(inbox') = Len(inbox) + 1
      /\ \A n \in 1 .. Len(inbox) : inbox'[n] = inbox[n]
      /\ inbox'[Len(inbox) + 1] = m
  BY <1>1, <1>2, <1>3, PostedIs
<1>5. OfPlan(inbox')
  <2> SUFFICES ASSUME NEW n \in 1 .. Len(inbox'), inbox'[n].type = "ENTRIES"
               PROVE  inbox'[n].from < Len(plan) /\ inbox'[n].list = <<plan[inbox'[n].from + 1]>>
    BY DEF OfPlan
  <2>1. n \in 1 .. Len(inbox) \/ n = Len(inbox) + 1
    BY <1>4
  <2>2. n # Len(inbox) + 1
    BY <1>3, <1>4
  <2> QED BY <1>1, <1>4, <2>1, <2>2 DEF OfPlan
<1>6. Rising(inbox, w.epoch)'
  <2> SUFFICES ASSUME NEW n \in 1 .. Len(inbox'), inbox'[n].type = "RESET"
               PROVE  /\ w'.epoch < inbox'[n].epoch /\ inbox'[n].epoch <= epoch'
                      /\ \A k \in 1 .. n - 1 : inbox'[k].type = "RESET" =>
                           inbox'[k].epoch < inbox'[n].epoch
    BY DEF Rising
  <2>1. n \in 1 .. Len(inbox) \/ n = Len(inbox) + 1
    BY <1>4
  <2>2. w.epoch \in Nat /\ w' = w
    BY <1>1, <1>2, WorkerFields
  <2>3. ASSUME NEW k \in 1 .. Len(inbox), inbox[k].type = "RESET"
        PROVE  inbox[k].epoch \in Nat /\ inbox[k].epoch <= epoch
    <3>1. inbox[k] \in Mail
      BY <1>1
    <3> QED BY <1>1, <2>3, <3>1 DEF Mail, Rising
  <2>4. CASE n \in 1 .. Len(inbox)
    <3>1. \A k \in 1 .. n - 1 : k \in 1 .. Len(inbox)
      BY <1>4, <2>4
    <3>2. inbox[n].epoch \in Nat /\ inbox[n].epoch <= epoch /\ inbox'[n] = inbox[n]
      BY <1>4, <2>3, <2>4
    <3>3. /\ w.epoch < inbox[n].epoch
          /\ \A k \in 1 .. n - 1 : inbox[k].type = "RESET" => inbox[k].epoch < inbox[n].epoch
      BY <1>1, <2>4, <3>2 DEF Rising
    <3>4. inbox[n].epoch <= epoch'
      BY <1>1, <1>2, <3>2
    <3> QED BY <1>4, <2>2, <3>1, <3>2, <3>3, <3>4
  <2>5. CASE n = Len(inbox) + 1
    <3>1. inbox'[n].epoch = epoch + 1
      BY <1>3, <1>4, <2>5
    <3>2. w.epoch < epoch + 1 /\ epoch + 1 <= epoch'
      BY <1>1, <1>2, <2>2
    <3>3. ASSUME NEW k \in 1 .. n - 1, inbox'[k].type = "RESET" PROVE inbox'[k].epoch < epoch + 1
      <4>1. k \in 1 .. Len(inbox) /\ inbox'[k] = inbox[k]
        BY <1>4, <2>5
      <4>2. inbox[k].epoch \in Nat /\ inbox[k].epoch <= epoch
        BY <2>3, <3>3, <4>1
      <4> QED BY <1>1, <4>1, <4>2
    <3> QED BY <2>2, <3>1, <3>2, <3>3
  <2> QED BY <2>1, <2>4, <2>5
<1>7. /\ epoch' \in Nat /\ epoch <= epoch' /\ epoch' <= MaxEpoch
      /\ sent' \in 0 .. Len(plan) /\ acked' \in Acked
  <2>1. acked' \in Acked
    BY <1>2 DEF NothingAcked, Acked
  <2>2. MaxEpoch \in Nat
    BY WorkerAssumption
  <2>3. Len(plan) \in Nat
    <3>1. plan \in Seq(PlanEntries)
      BY <1>1, PlanTypes
    <3> QED BY <3>1
  <2> QED BY <1>1, <1>2, <2>1, <2>2, <2>3
<1> QED BY <1>1, <1>2, <1>4, <1>5, <1>6, <1>7, CoordinatorMoves

\* The proxy's merged picture is of the type of an ack.
LEMMA MergeType ==
  ASSUME NEW a \in Acked, NEW m \in Acks
  PROVE  MaxMerge(a, m) \in Acked
<1> DEFINE larger(x, y) == IF x >= y THEN x ELSE y
<1>1. /\ DOMAIN a = {"round", "playback", "cursor", "drained", "fileOps"}
      /\ a.round \in {-1, 0} /\ a.playback \in Nat /\ a.cursor \in Nat /\ a.drained \in Int
      /\ a.fileOps \in Nat
  BY DEF Acked
<1>2. /\ m.round \in {-1, 0} /\ m.playback \in Nat /\ m.cursor \in Nat /\ m.drained \in Int
      /\ m.fileOps \in Nat
  BY DEF Acks
<1>3. PICK f : f = MaxMerge(a, m)
  OBVIOUS
<1>4. f = [field \in {"round", "playback", "cursor", "drained", "fileOps"} |->
             larger(a[field], m[field])]
  BY <1>1, <1>3 DEF MaxMerge
<1>5. /\ f.round = larger(a.round, m.round) /\ f.playback = larger(a.playback, m.playback)
      /\ f.cursor = larger(a.cursor, m.cursor) /\ f.drained = larger(a.drained, m.drained)
      /\ f.fileOps = larger(a.fileOps, m.fileOps)
  BY <1>4
<1>6. f = [round |-> f.round, playback |-> f.playback, cursor |-> f.cursor,
           drained |-> f.drained, fileOps |-> f.fileOps]
  BY <1>4
<1>7. /\ f.round \in {-1, 0} /\ f.playback \in Nat /\ f.cursor \in Nat /\ f.drained \in Int
      /\ f.fileOps \in Nat
  BY <1>1, <1>2, <1>5
<1>8. f \in Acked
  BY <1>6, <1>7 DEF Acked
<1> QED BY <1>3, <1>8

\* An ack keeps the invariant.
LEMMA ReceiveAckKeeps == WInv /\ ReceiveAck => WInv'
<1> SUFFICES ASSUME WInv, ReceiveAck PROVE WInv'
  OBVIOUS
<1>1. /\ Types /\ OfPlan(inbox) /\ Rising(inbox, w.epoch) /\ epoch <= MaxEpoch /\ epoch \in Nat
      /\ sent \in 0 .. Len(plan) /\ acked \in Acked /\ inbox \in Seq(Mail)
      /\ outbox \in Seq(Acks)
  BY DEF WInv, Shipped, EpochsRise, Types
<1>2. /\ outbox # <<>> /\ outbox' = Tail(outbox)
      /\ acked' = IF Head(outbox).epoch = epoch THEN MaxMerge(acked, Head(outbox)) ELSE acked
      /\ UNCHANGED <<plan, epoch, sent, inbox, w, fibers>>
  BY DEF ReceiveAck
<1>3. Head(outbox) \in Acks /\ Tail(outbox) \in Seq(Acks)
  BY <1>1, <1>2, HeadTailProperties
<1>4. acked' \in Acked
  BY <1>1, <1>2, <1>3, MergeType
<1>5. OfPlan(inbox') /\ Rising(inbox, w.epoch)'
  BY <1>1, <1>2 DEF Rising
<1>6. epoch' \in Nat /\ epoch <= epoch' /\ epoch' <= MaxEpoch /\ sent' \in 0 .. Len(plan)
      /\ inbox' \in Seq(Mail) /\ outbox' \in Seq(Acks) /\ UNCHANGED <<plan, w, fibers>>
  BY <1>1, <1>2, <1>3
<1> QED BY <1>4, <1>5, <1>6, CoordinatorMoves

\* The initial states satisfy the invariant.
LEMMA WInit == Init => WInv
<1> SUFFICES ASSUME Init PROVE WInv
  OBVIOUS
<1>1. /\ plan \in Plans /\ epoch = 0 /\ sent = 0 /\ acked = NothingAcked /\ inbox = <<>>
      /\ outbox = <<>> /\ fibers = {}
  BY DEF Init
<1>2. PICK runner \in BOOLEAN : w = Fresh(0, runner)
  BY DEF Init
<1>3. w \in Workers /\ w.epoch = 0 /\ Sound(w) /\ Held(w)
  BY <1>1, <1>2, FreshIs, FreshSound
<1>4. Types
  <2>1. acked \in Acked
    BY <1>1 DEF NothingAcked, Acked
  <2>2. sent \in 0 .. Len(plan)
    <3>1. plan \in Seq(PlanEntries)
      BY <1>1, PlanTypes
    <3> QED BY <1>1, <3>1
  <2>3. inbox \in Seq(Mail) /\ outbox \in Seq(Acks)
    BY <1>1, EmptySeq
  <2> QED BY <1>1, <1>3, <2>1, <2>2, <2>3 DEF Types
<1>5. Shipped /\ EpochsRise /\ OneBody
  <2>1. Len(inbox) = 0
    BY <1>1
  <2>2. 0 <= MaxEpoch
    BY WorkerAssumption
  <2> QED BY <1>1, <1>3, <2>1, <2>2 DEF Shipped, EpochsRise, OneBody, OfPlan, Rising
<1> QED BY <1>3, <1>4, <1>5 DEF WInv

\* Every step keeps it.
LEMMA WStep == WInv /\ [Next]_vars => WInv'
<1> SUFFICES ASSUME WInv, [Next]_vars PROVE WInv'
  OBVIOUS
<1>1. CASE Worker
  BY <1>1, GrantKeeps, EntriesKeep, ResetKeeps, LandingKeeps, OpKeeps, QuiescedKeeps, StaleKeeps
     DEF Worker
<1>2. CASE Coordinator
  BY <1>2, SendEntriesKeeps, SendGrantKeeps, SendResetKeeps, ReceiveAckKeeps DEF Coordinator
<1>3. CASE UNCHANGED vars
  BY <1>3 DEF vars, WInv, Types, Sound, Shipped, Held, OfPlan, EpochsRise, Rising, OneBody
<1> QED BY <1>1, <1>2, <1>3 DEF Next

\* The strengthened invariant holds in every behaviour.
THEOREM WInvariant == Spec => []WInv
<1>1. Init => WInv
  BY WInit
<1>2. WInv /\ [Next]_vars => WInv'
  BY WStep
<1> QED BY <1>1, <1>2, PTL DEF Spec

\* I5: the tape is of this epoch, whatever a fiber of an earlier one still does.
THEOREM TapeOfTheEpoch == Spec => []TapeIsOfTheEpoch
<1>1. WInv => TapeIsOfTheEpoch
  <2> SUFFICES ASSUME WInv PROVE TapeIsOfTheEpoch
    OBVIOUS
  <2>1. w.queue \in Seq(Steps)
    BY WorkerFields DEF WInv, Types
  <2>2. DOMAIN w.queue = 1 .. Len(w.queue)
    BY <2>1
  <2> QED BY <2>2 DEF WInv, Sound, TapeIsOfTheEpoch
<1> QED BY <1>1, WInvariant, PTL

-----------------------------------------------------------------------------
(* The tape is in order, conserved and bounded *)

\* Closing the entry at c: its tape and its marker are behind those of the others.
LEMMA OrderClosed ==
  ASSUME NEW q \in Seq(Steps), NEW r \in Seq(Steps), NEW c \in Nat, NEW d \in Int, NEW idle,
         InOrder(q, c, d, idle), Extends(q, r, c, TRUE)
  PROVE  InOrder(r, c + 1, d, TRUE)
<1>1. Len(q) \in Nat /\ Len(r) \in Nat /\ Len(q) < Len(r) /\ r[Len(r)].last
  BY DEF Extends
<1>2. /\ \A k \in 1 .. Len(q) : r[k] = q[k]
      /\ \A k \in Len(q) + 1 .. Len(r) : r[k].entry = c /\ (r[k].last => k = Len(r))
  BY DEF Extends
<1>3. /\ -1 <= d /\ d < c
      /\ \A k \in 1 .. Len(q) : q[k].entry <= c /\ (q[k].last => d < q[k].entry /\ q[k].entry < c)
      /\ \A e \in d + 1 .. c - 1 : \E k \in 1 .. Len(q) : q[k].last /\ q[k].entry = e
      /\ \A k, l \in 1 .. Len(q) :
           k < l => q[k].entry <= q[l].entry /\ (q[k].last => q[k].entry < q[l].entry)
  BY DEF InOrder
<1>4. \A k \in 1 .. Len(r) : k \in 1 .. Len(q) \/ k \in Len(q) + 1 .. Len(r)
  BY <1>1
<1>5. \A k \in 1 .. Len(q) : q[k].entry \in Nat
  BY StepFields
<1>6. ASSUME NEW k \in 1 .. Len(r)
      PROVE  /\ r[k].entry <= c + 1
             /\ r[k].entry < c + 1
             /\ r[k].last => d < r[k].entry
  <2>1. CASE k \in 1 .. Len(q)
    BY <1>2, <1>3, <1>5, <2>1
  <2>2. CASE k \in Len(q) + 1 .. Len(r)
    BY <1>2, <1>3, <2>2
  <2> QED BY <1>4, <2>1, <2>2
<1>7. ASSUME NEW e \in d + 1 .. (c + 1) - 1
      PROVE  \E k \in 1 .. Len(r) : r[k].last /\ r[k].entry = e
  <2>1. CASE e = c
    <3>1. Len(r) \in Len(q) + 1 .. Len(r) /\ Len(r) \in 1 .. Len(r)
      BY <1>1
    <3> QED BY <1>1, <1>2, <2>1, <3>1
  <2>2. CASE e # c
    <3>1. e \in d + 1 .. c - 1
      BY <2>2
    <3>2. PICK k \in 1 .. Len(q) : q[k].last /\ q[k].entry = e
      BY <1>3, <3>1
    <3>3. k \in 1 .. Len(r) /\ r[k] = q[k]
      BY <1>1, <1>2
    <3> QED BY <3>2, <3>3
  <2> QED BY <2>1, <2>2
<1>8. ASSUME NEW k \in 1 .. Len(r), NEW l \in 1 .. Len(r), k < l
      PROVE  r[k].entry <= r[l].entry /\ (r[k].last => r[k].entry < r[l].entry)
  <2>1. CASE k \in 1 .. Len(q) /\ l \in 1 .. Len(q)
    BY <1>2, <1>3, <1>8, <2>1
  <2>2. CASE k \in 1 .. Len(q) /\ l \in Len(q) + 1 .. Len(r)
    BY <1>2, <1>3, <2>2
  <2>3. CASE k \in Len(q) + 1 .. Len(r)
    <3>1. l \in Len(q) + 1 .. Len(r) /\ k # Len(r)
      BY <1>1, <1>8, <2>3
    <3> QED BY <1>2, <2>3, <3>1
  <2> QED BY <1>4, <2>1, <2>2, <2>3
<1>9. -1 <= d /\ d < c + 1
  BY <1>3
<1> QED BY <1>6, <1>7, <1>8, <1>9 DEF InOrder

\* The tape of the command in flight is behind that of the others.
LEMMA OrderIssued ==
  ASSUME NEW q \in Seq(Steps), NEW r \in Seq(Steps), NEW c \in Nat, NEW d \in Int,
         InOrder(q, c, d, FALSE), Extends(q, r, c, FALSE)
  PROVE  InOrder(r, c, d, FALSE)
<1>1. Len(q) \in Nat /\ Len(r) \in Nat /\ Len(q) <= Len(r)
  BY DEF Extends
<1>2. /\ \A k \in 1 .. Len(q) : r[k] = q[k]
      /\ \A k \in Len(q) + 1 .. Len(r) : r[k].entry = c /\ ~r[k].last
  BY DEF Extends
<1>3. /\ -1 <= d /\ d < c
      /\ \A k \in 1 .. Len(q) : q[k].entry <= c /\ (q[k].last => d < q[k].entry /\ q[k].entry < c)
      /\ \A e \in d + 1 .. c - 1 : \E k \in 1 .. Len(q) : q[k].last /\ q[k].entry = e
      /\ \A k, l \in 1 .. Len(q) :
           k < l => q[k].entry <= q[l].entry /\ (q[k].last => q[k].entry < q[l].entry)
  BY DEF InOrder
<1>4. \A k \in 1 .. Len(r) : k \in 1 .. Len(q) \/ k \in Len(q) + 1 .. Len(r)
  BY <1>1
<1>5. \A k \in 1 .. Len(q) : q[k].entry \in Nat
  BY StepFields
<1>6. ASSUME NEW k \in 1 .. Len(r)
      PROVE  /\ r[k].entry <= c
             /\ r[k].last => d < r[k].entry /\ r[k].entry < c
  <2>1. CASE k \in 1 .. Len(q)
    BY <1>2, <1>3, <1>5, <2>1
  <2>2. CASE k \in Len(q) + 1 .. Len(r)
    BY <1>2, <1>3, <2>2
  <2> QED BY <1>4, <2>1, <2>2
<1>7. ASSUME NEW e \in d + 1 .. c - 1
      PROVE  \E k \in 1 .. Len(r) : r[k].last /\ r[k].entry = e
  <2>1. PICK k \in 1 .. Len(q) : q[k].last /\ q[k].entry = e
    BY <1>3
  <2>2. k \in 1 .. Len(r) /\ r[k] = q[k]
    BY <1>1, <1>2
  <2> QED BY <2>1, <2>2
<1>8. ASSUME NEW k \in 1 .. Len(r), NEW l \in 1 .. Len(r), k < l
      PROVE  r[k].entry <= r[l].entry /\ (r[k].last => r[k].entry < r[l].entry)
  <2>1. CASE k \in 1 .. Len(q) /\ l \in 1 .. Len(q)
    BY <1>2, <1>3, <1>8, <2>1
  <2>2. CASE k \in 1 .. Len(q) /\ l \in Len(q) + 1 .. Len(r)
    BY <1>2, <1>3, <2>2
  <2>3. CASE k \in Len(q) + 1 .. Len(r)
    <3>1. l \in Len(q) + 1 .. Len(r)
      BY <1>1, <1>8, <2>3
    <3> QED BY <1>2, <2>3, <3>1
  <2> QED BY <1>4, <2>1, <2>2, <2>3
<1> QED BY <1>3, <1>6, <1>7, <1>8 DEF InOrder

\* Starting a command changes nothing of the queue.
LEMMA OrderStarted ==
  ASSUME NEW q, NEW c, NEW d, NEW idle, InOrder(q, c, d, idle)
  PROVE  InOrder(q, c, d, FALSE)
BY DEF InOrder

\* The last marker that is finished is the entry that is drained.
LEMMA LastClosedIs ==
  ASSUME NEW q \in Seq(Steps), NEW k \in 0 .. Len(q), NEW d
  PROVE  \/ LastClosed(q, k, d) = d /\ \A n \in 1 .. k : ~q[n].last
         \/ \E x \in 1 .. k : /\ q[x].last /\ LastClosed(q, k, d) = q[x].entry
                              /\ \A n \in x + 1 .. k : ~q[n].last
<1>1. PICK s : s = {n \in 1 .. k : q[n].last}
  OBVIOUS
<1>2. CASE s = {}
  <2>1. LastClosed(q, k, d) = d
    BY <1>1, <1>2 DEF LastClosed
  <2> QED BY <1>1, <1>2, <2>1
<1>3. CASE s # {}
  <2>1. s \in SUBSET (1 .. k) /\ k \in Nat
    BY <1>1
  <2>2. PICK x : x = Max(s)
    OBVIOUS
  <2>3. x \in s /\ \A y \in s : x >= y
    BY <1>3, <2>1, <2>2, LastPosition
  <2>4. x \in 1 .. k /\ q[x].last
    BY <1>1, <2>3
  <2>5. LastClosed(q, k, d) = q[x].entry
    BY <1>1, <1>3, <2>2 DEF LastClosed
  <2>6. \A n \in x + 1 .. k : ~q[n].last
    <3> SUFFICES ASSUME NEW n \in x + 1 .. k, q[n].last PROVE FALSE
      OBVIOUS
    <3>1. n \in s
      BY <1>1, <2>4
    <3>2. x >= n
      BY <2>3, <3>1
    <3> QED BY <2>4, <3>2
  <2> QED BY <2>4, <2>5, <2>6
<1> QED BY <1>2, <1>3

\* Playing keeps the order, and drains what it finishes.
LEMMA OrderSpent ==
  ASSUME NEW q \in Seq(Steps), NEW r \in Seq(Steps), NEW c \in Nat, NEW d \in Int, NEW idle,
         NEW k \in 0 .. Len(q), NEW a \in Nat, InOrder(q, c, d, idle), Remains(q, r, k, a)
  PROVE  InOrder(r, c, LastClosed(q, k, d), idle)
<1>1. /\ Len(q) \in Nat /\ Len(r) = Len(q) - k
      /\ \A n \in 1 .. Len(r) : r[n].entry = q[k + n].entry /\ r[n].last = q[k + n].last
      /\ \A n \in 1 .. Len(r) : k + n \in 1 .. Len(q)
  <2>1. /\ Len(r) = Len(q) - k
        /\ \A n \in 1 .. Len(r) : r[n].entry = q[k + n].entry /\ r[n].last = q[k + n].last
    BY Zenon DEF Remains
  <2>2. PICK m \in Nat : m = Len(q)
    OBVIOUS
  <2>3. Len(r) = m - k /\ k \in 0 .. m
    BY <2>1, <2>2
  <2>4. \A n \in 1 .. Len(r) : k + n \in 1 .. m
    BY ONLY <2>2, <2>3
  <2> QED BY <2>1, <2>2, <2>4
<1>2. /\ -1 <= d /\ d < c
      /\ \A n \in 1 .. Len(q) : /\ q[n].entry <= c
                                /\ idle => q[n].entry < c
                                /\ q[n].last => d < q[n].entry /\ q[n].entry < c
      /\ \A e \in d + 1 .. c - 1 : \E n \in 1 .. Len(q) : q[n].last /\ q[n].entry = e
      /\ \A m, n \in 1 .. Len(q) :
           m < n => q[m].entry <= q[n].entry /\ (q[m].last => q[m].entry < q[n].entry)
  BY DEF InOrder
<1>3. \A n \in 1 .. Len(q) : q[n].entry \in Nat
  BY StepFields
<1>4. PICK d2 : d2 = LastClosed(q, k, d)
  OBVIOUS
<1>5. /\ d2 \in Int /\ d <= d2 /\ d2 < c
      /\ \A n \in k + 1 .. Len(q) : q[n].last => d2 < q[n].entry
      /\ \A n \in 1 .. k : q[n].last => q[n].entry <= d2
  <2>1. CASE d2 = d /\ \A n \in 1 .. k : ~q[n].last
    BY <1>2, <2>1
  <2>2. CASE \E x \in 1 .. k : q[x].last /\ d2 = q[x].entry /\ \A n \in x + 1 .. k : ~q[n].last
    <3>1. PICK x \in 1 .. k : q[x].last /\ d2 = q[x].entry /\ \A n \in x + 1 .. k : ~q[n].last
      BY <2>2
    <3>2. x \in 1 .. Len(q)
      BY <1>1
    <3>3. d2 \in Int /\ d <= d2 /\ d2 < c
      BY <1>2, <1>3, <3>1, <3>2
    <3>4. ASSUME NEW n \in k + 1 .. Len(q), q[n].last PROVE d2 < q[n].entry
      <4>1. n \in 1 .. Len(q) /\ x < n
        BY <1>1
      <4> QED BY <1>2, <3>1, <3>2, <4>1
    <3>5. ASSUME NEW n \in 1 .. k, q[n].last PROVE q[n].entry <= d2
      <4>1. n \in 1 .. Len(q) /\ n \notin x + 1 .. k
        BY <1>1, <3>1, <3>5
      <4>2. n = x \/ n < x
        BY <4>1
      <4>3. CASE n = x
        BY <1>3, <3>1, <3>2, <4>3
      <4>4. CASE n < x
        BY <1>2, <3>1, <3>2, <4>1, <4>4
      <4> QED BY <4>2, <4>3, <4>4
    <3> QED BY <3>3, <3>4, <3>5
  <2> QED BY <1>4, <2>1, <2>2, LastClosedIs
<1>6. -1 <= d2
  BY <1>2, <1>5
<1>7. ASSUME NEW n \in 1 .. Len(r)
      PROVE  /\ r[n].entry <= c
             /\ idle => r[n].entry < c
             /\ r[n].last => d2 < r[n].entry /\ r[n].entry < c
  <2>1. k + n \in 1 .. Len(q) /\ k + n \in k + 1 .. Len(q)
    BY <1>1
  <2> QED BY <1>1, <1>2, <1>5, <2>1
<1>8. ASSUME NEW e \in d2 + 1 .. c - 1
      PROVE  \E n \in 1 .. Len(r) : r[n].last /\ r[n].entry = e
  <2>1. e \in d + 1 .. c - 1
    BY <1>5
  <2>2. PICK m \in 1 .. Len(q) : q[m].last /\ q[m].entry = e
    BY <1>2, <2>1
  <2>3. ~(m \in 1 .. k)
    BY <1>5, <2>2
  <2>4. m - k \in 1 .. Len(r) /\ k + (m - k) = m
    BY <1>1, <2>3
  <2> QED BY <1>1, <2>2, <2>4
<1>9. ASSUME NEW m \in 1 .. Len(r), NEW n \in 1 .. Len(r), m < n
      PROVE  r[m].entry <= r[n].entry /\ (r[m].last => r[m].entry < r[n].entry)
  <2>1. k + m \in 1 .. Len(q) /\ k + n \in 1 .. Len(q) /\ k + m < k + n
    BY <1>1, <1>9
  <2> QED BY <1>1, <1>2, <2>1
<1> QED BY <1>4, <1>5, <1>6, <1>7, <1>8, <1>9 DEF InOrder

\* A queue that grows behind its first steps is as before in these.
LEMMA PrefixSame ==
  ASSUME NEW q \in Seq(Steps), NEW r \in Seq(Steps), NEW k \in 0 .. Len(q),
         Len(q) <= Len(r), \A n \in 1 .. Len(q) : r[n] = q[n]
  PROVE  SubSeq(r, 1, k) = SubSeq(q, 1, k)
<1>1. Len(q) \in Nat /\ Len(r) \in Nat /\ k \in 0 .. Len(r)
  OBVIOUS
<1>2. PICK x \in Seq(Steps) : x = SubSeq(q, 1, k)
  BY UnplayedOfParts
<1>3. PICK y \in Seq(Steps) : y = SubSeq(r, 1, k)
  BY <1>1, UnplayedOfParts
<1>4. \A n \in 1 .. k : q[n] \in Steps /\ r[n] \in Steps
  BY <1>1, StepFields
<1>5. /\ Len(x) = IF 1 <= k THEN k - 1 + 1 ELSE 0
      /\ \A n \in 1 .. k - 1 + 1 : x[n] = q[1 + n - 1]
  BY <1>1, <1>2, <1>4, SubSeqProperties
<1>6. /\ Len(y) = IF 1 <= k THEN k - 1 + 1 ELSE 0
      /\ \A n \in 1 .. k - 1 + 1 : y[n] = r[1 + n - 1]
  BY <1>1, <1>3, <1>4, SubSeqProperties
<1>7. Len(x) = Len(y) /\ Len(x) = k
  BY <1>5, <1>6
<1>8. ASSUME NEW n \in 1 .. Len(x) PROVE x[n] = y[n]
  <2>1. n \in 1 .. k - 1 + 1 /\ 1 + n - 1 = n /\ n \in 1 .. Len(q)
    BY <1>1, <1>7
  <2> QED BY <1>5, <1>6, <2>1
<1>9. x = y
  BY ONLY <1>2, <1>3, <1>7, <1>8, SeqEqual
<1> QED BY <1>2, <1>3, <1>9

\* The first steps have no more to play than the queue.
LEMMA PartIsLess ==
  ASSUME NEW q \in Seq(Steps), NEW k \in 0 .. Len(q)
  PROVE  Unplayed(SubSeq(q, 1, k)) \in Nat /\ Unplayed(SubSeq(q, 1, k)) <= Unplayed(q)
<1>1. PICK x \in Seq(Steps), y \in Seq(Steps) :
        x = SubSeq(q, 1, k) /\ y = SubSeq(q, k + 1, Len(q)) /\ Unplayed(q) = Unplayed(x) + Unplayed(y)
  BY UnplayedOfParts
<1>2. Unplayed(x) \in Nat /\ Unplayed(y) \in Nat
  BY UnplayedType
<1> QED BY <1>1, <1>2

\* A batch of entry n or later is not what is older than n.
LEMMA CappedExtends ==
  ASSUME NEW q \in Seq(Steps), NEW r \in Seq(Steps), NEW n \in Nat, NEW last,
         CappedBy(q, n), Extends(q, r, n, last)
  PROVE  CappedBy(r, n)
<1> SUFFICES ASSUME NEW k \in 1 .. Len(r), r[k].entry < n PROVE Below(r, k)
  BY DEF CappedBy
<1>1. /\ Len(q) \in Nat /\ Len(r) \in Nat /\ Len(q) <= Len(r)
      /\ \A m \in 1 .. Len(q) : r[m] = q[m]
      /\ \A m \in Len(q) + 1 .. Len(r) : r[m].entry = n
  BY DEF Extends
<1>2. k \in 1 .. Len(q)
  BY <1>1
<1>3. Below(q, k)
  BY <1>1, <1>2 DEF CappedBy
<1>4. SubSeq(r, 1, k) = SubSeq(q, 1, k)
  BY <1>1, <1>2, PrefixSame
<1> QED BY <1>3, <1>4 DEF Below

\* What is left after playing was below the caps when more was before it.
LEMMA CappedSpent ==
  ASSUME NEW q \in Seq(Steps), NEW r \in Seq(Steps), NEW n, NEW k \in 0 .. Len(q),
         NEW a \in Nat, CappedBy(q, n), Remains(q, r, k, a)
  PROVE  CappedBy(r, n)
<1> SUFFICES ASSUME NEW m \in 1 .. Len(r), r[m].entry < n PROVE Below(r, m)
  BY DEF CappedBy
<1>1. /\ Len(q) \in Nat /\ Len(r) = Len(q) - k
      /\ \A i \in 1 .. Len(r) : r[i].entry = q[k + i].entry /\ r[i].ns <= q[k + i].ns
  BY DEF Remains
<1>2. PICK km \in Nat : km = k + m /\ km \in 1 .. Len(q) /\ km \in 0 .. Len(q) /\ k \in 0 .. km
  BY <1>1
<1>3. Unplayed(SubSeq(q, 1, km)) < TAPE_CAP_FRAMES /\ km < BACKLOG_CAP
  BY <1>1, <1>2 DEF CappedBy, Below
<1>4. PICK head \in Seq(Steps) : head = SubSeq(q, 1, km)
  BY <1>2, UnplayedOfParts
<1>5. /\ Len(head) = km
      /\ \A i \in 1 .. km : head[i] = q[i]
  <2>1. \A i \in 1 .. km : q[i] \in Steps
    BY <1>1, <1>2, StepFields
  <2>2. /\ Len(head) = IF 1 <= km THEN km - 1 + 1 ELSE 0
        /\ \A i \in 1 .. km - 1 + 1 : head[i] = q[1 + i - 1]
    BY <1>2, <1>4, <2>1, SubSeqProperties
  <2>3. Len(head) = km
    BY <1>2, <2>2
  <2>4. ASSUME NEW i \in 1 .. km PROVE head[i] = q[i]
    <3>1. i \in 1 .. km - 1 + 1 /\ 1 + i - 1 = i
      BY <1>2
    <3> QED BY <2>2, <3>1
  <2> QED BY <2>3, <2>4
<1>6. PICK x \in Seq(Steps), y \in Seq(Steps) :
        x = SubSeq(head, 1, k) /\ y = SubSeq(head, k + 1, Len(head))
        /\ Unplayed(head) = Unplayed(x) + Unplayed(y)
  BY <1>2, <1>5, UnplayedOfParts
<1>7. Len(y) = m /\ \A i \in 1 .. m : y[i] = q[k + i]
  <2>1. \A i \in k + 1 .. Len(head) : head[i] \in Steps
    BY StepFields
  <2>2. /\ Len(y) = IF k + 1 <= Len(head) THEN Len(head) - (k + 1) + 1 ELSE 0
        /\ \A i \in 1 .. Len(head) - (k + 1) + 1 : y[i] = head[(k + 1) + i - 1]
    BY <1>2, <1>5, <1>6, <2>1, SubSeqProperties
  <2>3. Len(y) = m
    BY <1>2, <1>5, <2>2
  <2>4. ASSUME NEW i \in 1 .. m PROVE y[i] = q[k + i]
    <3>1. i \in 1 .. Len(head) - (k + 1) + 1 /\ (k + 1) + i - 1 = k + i /\ k + i \in 1 .. km
      BY <1>2, <1>5
    <3> QED BY <1>5, <2>2, <3>1
  <2> QED BY <2>3, <2>4
<1>8. PICK z \in Seq(Steps) : z = SubSeq(r, 1, m)
  <2>1. m \in 0 .. Len(r)
    OBVIOUS
  <2> QED BY <2>1, UnplayedOfParts
<1>9. Len(z) = m /\ \A i \in 1 .. m : z[i] = r[i]
  <2>1. \A i \in 1 .. m : r[i] \in Steps
    BY StepFields
  <2>2. /\ Len(z) = IF 1 <= m THEN m - 1 + 1 ELSE 0
        /\ \A i \in 1 .. m - 1 + 1 : z[i] = r[1 + i - 1]
    BY <1>8, <2>1, SubSeqProperties
  <2>3. Len(z) = m
    BY <2>2
  <2>4. ASSUME NEW i \in 1 .. m PROVE z[i] = r[i]
    <3>1. i \in 1 .. m - 1 + 1 /\ 1 + i - 1 = i
      OBVIOUS
    <3> QED BY <2>2, <3>1
  <2> QED BY <2>3, <2>4
<1>10. Unplayed(z) <= Unplayed(y)
  <2>1. Len(z) = Len(y) /\ \A i \in 1 .. Len(z) : z[i].ns <= y[i].ns
    <3>1. ASSUME NEW i \in 1 .. m PROVE z[i].ns <= y[i].ns
      <4>1. i \in 1 .. Len(r) /\ z[i] = r[i] /\ y[i] = q[k + i]
        BY <1>1, <1>7, <1>9
      <4> QED BY <1>1, <4>1
    <3> QED BY <1>7, <1>9, <3>1
  <2> QED BY ONLY <1>6, <1>8, <2>1, UnplayedPointwise
<1>11. Unplayed(x) \in Nat /\ Unplayed(y) \in Nat /\ Unplayed(z) \in Nat
  BY UnplayedType
<1>12. Unplayed(z) < TAPE_CAP_FRAMES
  BY <1>3, <1>4, <1>6, <1>10, <1>11, Caps
<1>13. m < BACKLOG_CAP
  BY <1>2, <1>3, Caps
<1> QED BY <1>8, <1>12, <1>13 DEF Below

\* v is metered in order and below the caps, and counts what u counted.
Ordered(u, v) == Tape(v) /\ Capped(v) /\ (Conserved(u) => Conserved(v))

\* What is executed ahead is below the caps.
Fits(u) == CappedBy(u.queue, u.cursor)

\* pump() begins an entry only below the caps.
LEMMA NotBackpressuredFits ==
  ASSUME NEW u \in Workers, Tape(u), ~Backpressured(u)
  PROVE  Fits(u)
<1>1. PICK q \in Seq(Steps) : q = u.queue
  BY WorkerFields
<1>2. PICK x \in Nat, y \in Nat : x = u.executed /\ y = u.playback /\ x = y + Unplayed(q)
  BY <1>1, WorkerFields DEF Tape
<1>3. Unplayed(q) \in Nat /\ Len(q) \in Nat
  BY UnplayedType
<1>4. u.limits.scale \in {0, 1}
  BY WorkerFields DEF Grants
<1>5. ~(x - y >= TAPE_CAP_FRAMES * u.limits.scale) /\ ~(Len(q) >= BACKLOG_CAP)
  BY <1>1, <1>2 DEF Backpressured
<1>6. TAPE_CAP_FRAMES * 0 = 0 /\ TAPE_CAP_FRAMES * 1 = TAPE_CAP_FRAMES
  BY Caps
<1>7. Unplayed(q) < TAPE_CAP_FRAMES /\ Len(q) < BACKLOG_CAP
  <2>1. x - y = Unplayed(q)
    BY <1>2, <1>3
  <2>2. CASE u.limits.scale = 0
    BY <1>3, <1>5, <1>6, <2>1, <2>2, Caps
  <2>3. CASE u.limits.scale = 1
    BY <1>3, <1>5, <1>6, <2>1, <2>3, Caps
  <2> QED BY <1>4, <2>2, <2>3
<1>8. ASSUME NEW k \in 1 .. Len(q) PROVE Below(q, k)
  <2>1. k \in 0 .. Len(q)
    OBVIOUS
  <2>2. Unplayed(SubSeq(q, 1, k)) \in Nat /\ Unplayed(SubSeq(q, 1, k)) <= Unplayed(q)
    BY <2>1, PartIsLess
  <2> QED BY <1>3, <1>7, <2>2, Caps DEF Below
<1> QED BY <1>1, <1>8 DEF Fits, CappedBy

\* Closing an entry that was begun below the caps.
LEMMA ClosingOrdered ==
  ASSUME NEW u \in Workers, Tape(u), Fits(u), NEW v, Closing(u, v)
  PROVE  Ordered(u, v)
<1>1. PICK tape \in Seq(Nat), ops \in Nat : Closes(u, v, tape, ops)
  BY DEF Closing
<1>2. PICK q \in Seq(Steps), c \in Nat, d \in Int :
        q = u.queue /\ c = u.cursor /\ d = u.drained
  BY WorkerFields
<1>3. /\ v \in Workers /\ v.prep = u.prep /\ v.realCmd = Idle /\ v.cursor = c + 1
      /\ v.execFileOps + Flying(u) = u.execFileOps + ops
  BY <1>1, <1>2 DEF Closes
<1>4. ~u.prep /\ InOrder(q, c, d, u.realCmd = Idle) /\ u.executed = u.playback + Unplayed(q)
  BY <1>2 DEF Tape
<1>5. /\ Queued(u.queue, v.queue, u.cursor, tape, TRUE, ops)
      /\ v.executed = u.executed + Total(tape)
      /\ v.playback = u.playback /\ v.drained = u.drained /\ v.dispFileOps = u.dispFileOps
  BY <1>1, <1>4 DEF Closes
<1>6. PICK r \in Seq(Steps) : r = v.queue /\ Extends(q, r, c, TRUE)
        /\ Unplayed(r) = Unplayed(q) + Total(tape) /\ Credits(r) = Credits(q) + ops
  BY <1>2, <1>5 DEF Queued
<1>7. Tape(v)
  <2>1. InOrder(r, c + 1, d, TRUE)
    BY <1>4, <1>6, OrderClosed
  <2>2. v.executed = v.playback + Unplayed(r)
    <3>1. Unplayed(q) \in Nat /\ Unplayed(r) \in Nat /\ u.playback \in Nat /\ u.executed \in Nat
          /\ v.executed \in Nat
      BY <1>3, UnplayedType, WorkerFields
    <3>2. Total(tape) = Unplayed(r) - Unplayed(q)
      <4>1. Total(tape) \in Nat
        BY SequencesAreSummable, SumType DEF Total
      <4> QED BY <1>6, <3>1, <4>1
    <3> QED BY <1>4, <1>5, <3>1, <3>2
  <2> QED BY <1>2, <1>3, <1>4, <1>5, <1>6, <2>1, <2>2 DEF Tape
<1>8. Capped(v)
  <2>1. CappedBy(r, c)
    <3>1. CappedBy(q, c)
      BY <1>2 DEF Fits
    <3> QED BY <1>6, <3>1, CappedExtends
  <2>2. r[Len(r)].entry = c
    <3>1. Len(q) \in Nat /\ Len(r) \in Nat /\ Len(q) < Len(r)
      BY <1>6 DEF Extends
    <3>2. Len(r) \in Len(q) + 1 .. Len(r)
      BY <3>1
    <3> QED BY <1>6, <3>2 DEF Extends
  <2> QED BY <1>3, <1>6, <2>1, <2>2 DEF Capped
<1>9. ASSUME Conserved(u) PROVE Conserved(v)
  <2>1. PICK f \in Nat : f = Flying(u)
    BY WorkerFields DEF Flying
  <2>2. Flying(v) = 0
    BY <1>3 DEF Flying
  <2>3. /\ Credits(q) \in Nat /\ Credits(r) \in Nat /\ u.dispFileOps \in Nat
        /\ u.execFileOps \in Nat /\ v.execFileOps \in Nat
    BY <1>3, UnplayedType, WorkerFields
  <2>4. u.dispFileOps + Credits(q) + f = u.execFileOps
    BY <1>2, <1>9, <2>1 DEF Conserved
  <2>5. v.execFileOps + f = u.execFileOps + ops
    BY <1>3, <2>1
  <2>6. u.dispFileOps + Credits(r) + 0 = v.execFileOps
    <3>1. PICK dn \in Nat, en \in Nat, vn \in Nat, qn \in Nat, rn \in Nat :
            /\ dn = u.dispFileOps /\ en = u.execFileOps /\ vn = v.execFileOps
            /\ qn = Credits(q) /\ rn = Credits(r)
      BY <2>3
    <3>2. dn + qn + f = en /\ vn + f = en + ops /\ rn = qn + ops
      BY <1>6, <2>4, <2>5, <3>1
    <3>3. dn + rn + 0 = vn
      BY <3>2
    <3> QED BY <3>1, <3>3
  <2> QED BY <1>5, <1>6, <2>2, <2>6 DEF Conserved
<1> QED BY <1>7, <1>8, <1>9 DEF Ordered

\* Starting a command below the caps.
LEMMA StartingOrdered ==
  ASSUME NEW u \in Workers, u.realCmd = Idle, Tape(u), Fits(u), NEW v, Starts(u, v)
  PROVE  Ordered(u, v)
<1>1. /\ v \in Workers /\ v.prep = u.prep /\ v.realCmd = u.cursor /\ v.cursor = u.cursor
      /\ v.queue = u.queue /\ v.executed = u.executed /\ v.playback = u.playback
      /\ v.drained = u.drained /\ v.dispFileOps = u.dispFileOps
      /\ v.execFileOps = u.execFileOps /\ v.entryFileOps = 0
  BY DEF Starts
<1>2. v.realCmd # Idle
  <2>1. u.cursor \in Nat
    BY WorkerFields
  <2> QED BY <1>1, <2>1, Caps
<1>3. Tape(v)
  <2>1. InOrder(u.queue, u.cursor, u.drained, FALSE)
    BY OrderStarted DEF Tape
  <2> QED BY <1>1, <1>2, <2>1 DEF Tape
<1>4. Capped(v)
  BY <1>1, <1>2 DEF Capped, Fits
<1>5. Conserved(u) => Conserved(v)
  <2>1. Flying(u) = 0 /\ Flying(v) = 0
    BY <1>1, <1>2 DEF Flying
  <2> QED BY <1>1, <2>1 DEF Conserved
<1> QED BY <1>3, <1>4, <1>5 DEF Ordered

\* An operation of the command in flight.
LEMMA IssueOrdered ==
  ASSUME NEW u \in Workers, Sound(u), u.realCmd # Idle, Tape(u), Capped(u),
         NEW v, NEW tape \in Seq(Nat), Issues(u, v, u.realCmd, tape)
  PROVE  Ordered(u, v)
<1>1. PICK q \in Seq(Steps), c \in Nat, d \in Int :
        q = u.queue /\ c = u.cursor /\ d = u.drained
  BY WorkerFields
<1>2. u.realCmd = c
  BY <1>1 DEF Sound
<1>0. PICK n \in {0, 1} :
        v.execFileOps = u.execFileOps + n /\ v.entryFileOps = u.entryFileOps + n
  BY DEF Issues
<1>3. /\ v \in Workers /\ v.cursor = c /\ v.realCmd = c /\ v.prep = u.prep
      /\ v.execFileOps = u.execFileOps + n /\ v.entryFileOps = u.entryFileOps + n
  BY <1>0, <1>1, <1>2 DEF Issues
<1>4. ~u.prep /\ InOrder(q, c, d, FALSE) /\ u.executed = u.playback + Unplayed(q)
  BY <1>1, OrderStarted DEF Tape
<1>5. /\ Queued(u.queue, v.queue, u.realCmd, tape, FALSE, 0)
      /\ v.executed = u.executed + Total(tape)
      /\ v.playback = u.playback /\ v.drained = u.drained /\ v.dispFileOps = u.dispFileOps
  BY <1>4 DEF Issues
<1>6. PICK r \in Seq(Steps) : r = v.queue /\ Extends(q, r, c, FALSE)
        /\ Unplayed(r) = Unplayed(q) + Total(tape) /\ Credits(r) = Credits(q) + 0
  BY <1>1, <1>2, <1>5 DEF Queued
<1>7. c # Idle
  BY <1>2
<1>8. Tape(v)
  <2>1. InOrder(r, c, d, FALSE)
    BY <1>4, <1>6, OrderIssued
  <2>2. v.executed = v.playback + Unplayed(r)
    <3>1. Unplayed(q) \in Nat /\ Unplayed(r) \in Nat /\ u.playback \in Nat /\ u.executed \in Nat
          /\ v.executed \in Nat
      BY <1>3, UnplayedType, WorkerFields
    <3>2. Total(tape) = Unplayed(r) - Unplayed(q)
      <4>1. Total(tape) \in Nat
        BY SequencesAreSummable, SumType DEF Total
      <4> QED BY <1>6, <3>1, <4>1
    <3> QED BY <1>4, <1>5, <3>1, <3>2
  <2>3. (v.realCmd = Idle) = FALSE
    BY <1>3, <1>7
  <2>4. InOrder(v.queue, v.cursor, v.drained, v.realCmd = Idle)
    BY <1>1, <1>3, <1>5, <1>6, <2>1, <2>3
  <2> QED BY <1>3, <1>4, <1>6, <2>2, <2>4 DEF Tape
<1>9. Capped(v)
  <2>1. CappedBy(q, c)
    BY <1>1, <1>2, <1>7 DEF Capped
  <2>2. CappedBy(r, c)
    BY <1>6, <2>1, CappedExtends
  <2> QED BY <1>3, <1>6, <1>7, <2>2 DEF Capped
<1>10. ASSUME Conserved(u) PROVE Conserved(v)
  <2>1. Flying(u) = u.entryFileOps /\ Flying(v) = u.entryFileOps + n
    BY <1>2, <1>3, <1>7 DEF Flying
  <2>2. /\ Credits(q) \in Nat /\ u.dispFileOps \in Nat /\ u.execFileOps \in Nat
        /\ u.entryFileOps \in Nat
    BY UnplayedType, WorkerFields
  <2>3. u.dispFileOps + Credits(q) + u.entryFileOps = u.execFileOps
    BY <1>1, <1>10, <2>1 DEF Conserved
  <2>4. u.dispFileOps + Credits(r) + (u.entryFileOps + n) = u.execFileOps + n
    <3>1. PICK dn \in Nat, en \in Nat, fn \in Nat, qn \in Nat :
            /\ dn = u.dispFileOps /\ en = u.execFileOps /\ fn = u.entryFileOps
            /\ qn = Credits(q)
      BY <2>2
    <3>2. dn + qn + fn = en /\ Credits(r) = qn
      BY <1>6, <2>3, <3>1
    <3>3. dn + qn + (fn + n) = en + n
      BY <3>2
    <3> QED BY <3>1, <3>2, <3>3
  <2> QED BY <1>3, <1>5, <1>6, <2>1, <2>4 DEF Conserved
<1> QED BY <1>8, <1>9, <1>10 DEF Ordered

\* Playing.
LEMMA SpentOrdered ==
  ASSUME NEW u \in Workers, Tape(u), Capped(u), NEW v, NEW k \in Nat, NEW a \in Nat,
         Spent(u, v, k, a)
  PROVE  Ordered(u, v)
<1>1. PICK q \in Seq(Steps), c \in Nat, d \in Int :
        q = u.queue /\ c = u.cursor /\ d = u.drained
  BY WorkerFields
<1>2. /\ v \in Workers /\ v.cursor = c /\ v.realCmd = u.realCmd /\ v.prep = u.prep
      /\ v.execFileOps = u.execFileOps /\ v.entryFileOps = u.entryFileOps
      /\ v.executed = u.executed /\ k \in 0 .. Len(q)
      /\ v.playback = u.playback + Unplayed(SubSeq(q, 1, k)) + a
      /\ v.dispFileOps = u.dispFileOps + Credits(SubSeq(q, 1, k))
      /\ v.drained = LastClosed(q, k, d)
  BY <1>1 DEF Spent
<1>3. PICK r \in Seq(Steps) : r = v.queue /\ Remains(q, r, k, a)
  BY <1>1 DEF Spent, Remains
<1>4. PICK x \in Nat, y \in Nat : x = Unplayed(SubSeq(q, 1, k)) /\ y = Credits(SubSeq(q, 1, k))
  <2>1. SubSeq(q, 1, k) \in Seq(Steps)
    BY <1>2, UnplayedOfParts
  <2> QED BY <2>1, UnplayedType
<1>5. /\ Unplayed(q) = x + a + Unplayed(r) /\ Credits(q) = y + Credits(r)
      /\ Unplayed(q) \in Nat /\ Unplayed(r) \in Nat /\ Credits(q) \in Nat /\ Credits(r) \in Nat
  BY <1>3, <1>4, UnplayedType DEF Remains
<1>6. Tape(v)
  <2>1. ~u.prep /\ InOrder(q, c, d, u.realCmd = Idle) /\ u.executed = u.playback + Unplayed(q)
    BY <1>1 DEF Tape
  <2>2. PICK idle \in BOOLEAN : idle = (u.realCmd = Idle)
    OBVIOUS
  <2>3. InOrder(q, c, d, idle)
    BY <2>1, <2>2
  <2>4. InOrder(r, c, LastClosed(q, k, d), idle)
    BY <1>2, <1>3, <2>3, OrderSpent
  <2>5. InOrder(v.queue, v.cursor, v.drained, v.realCmd = Idle)
    BY <1>2, <1>3, <2>2, <2>4
  <2>6. v.executed = v.playback + Unplayed(v.queue)
    <3>1. u.playback \in Nat /\ u.executed \in Nat
      BY WorkerFields
    <3>2. PICK p \in Nat, z \in Nat : p = u.playback /\ z = Unplayed(r)
      BY <1>5, <3>1
    <3>3. u.executed = p + (x + a + z)
      BY <1>5, <2>1, <3>2
    <3>4. v.executed = u.executed /\ v.playback = p + x + a /\ Unplayed(v.queue) = z
      BY <1>2, <1>3, <1>4, <3>2
    <3>5. \A i, j, l, m \in Nat : i + (j + l + m) = (i + j + l) + m
      BY ONLY SMT
    <3>6. p + (x + a + z) = (p + x + a) + z
      BY ONLY <3>5, p \in Nat, x \in Nat, a \in Nat, z \in Nat
    <3> QED BY <3>3, <3>4, <3>6
  <2> QED BY <1>2, <2>1, <2>5, <2>6 DEF Tape
<1>7. Capped(v)
  <2>1. CASE u.realCmd # Idle
    <3>1. CappedBy(q, u.realCmd)
      BY <1>1, <2>1 DEF Capped
    <3>2. CappedBy(r, u.realCmd)
      BY <1>2, <1>3, <3>1, CappedSpent
    <3> QED BY <1>2, <1>3, <2>1, <3>2 DEF Capped
  <2>2. CASE u.realCmd = Idle
    <3>1. CappedBy(q, q[Len(q)].entry)
      BY <1>1, <2>2 DEF Capped
    <3>2. CappedBy(r, q[Len(q)].entry)
      BY <1>2, <1>3, <3>1, CappedSpent
    <3>3. CappedBy(r, r[Len(r)].entry)
      <4>1. CASE Len(r) = 0
        BY <4>1 DEF CappedBy
      <4>2. CASE Len(r) # 0
        <5>1. Len(r) \in 1 .. Len(r) /\ k + Len(r) = Len(q)
          <6>1. Len(r) = Len(q) - k /\ Len(r) \in Nat /\ Len(q) \in Nat
            BY <1>3 DEF Remains
          <6> QED BY <4>2, <6>1
        <5>2. r[Len(r)].entry = q[Len(q)].entry
          BY <1>3, <5>1 DEF Remains
        <5> QED BY <3>2, <5>2
      <4> QED BY <4>1, <4>2
    <3> QED BY <1>2, <1>3, <2>2, <3>3 DEF Capped
  <2> QED BY <2>1, <2>2
<1>8. ASSUME Conserved(u) PROVE Conserved(v)
  <2>1. Flying(v) = Flying(u)
    BY <1>2 DEF Flying
  <2>2. PICK f \in Nat : f = Flying(u)
    BY WorkerFields DEF Flying
  <2>3. u.dispFileOps \in Nat /\ u.execFileOps \in Nat
    BY WorkerFields
  <2>4. u.dispFileOps + Credits(q) + f = u.execFileOps
    BY <1>1, <1>8, <2>2 DEF Conserved
  <2>5. (u.dispFileOps + y) + Credits(r) + f = u.execFileOps
    BY <1>5, <2>3, <2>4
  <2> QED BY <1>2, <1>3, <1>4, <2>1, <2>2, <2>5 DEF Conserved
<1> QED BY <1>6, <1>7, <1>8 DEF Ordered

\* What is not of the tape does not matter to it.
LEMMA AlikeOrdered ==
  ASSUME NEW u, NEW v, Tape(u), Capped(u), Alike(u, v)
  PROVE  Ordered(u, v)
BY DEF Alike, Ordered, Tape, Capped, Conserved, Flying

\* A round of pump() keeps the order.
LEMMA RoundOrdered ==
  ASSUME MeteredPlans, NEW u \in Workers, PumpGoesOn(u), Tape(u)
  PROVE  Ordered(u, PumpOnce(u))
<1>1. PICK e : e = u.entries[u.cursor + 1]
  OBVIOUS
<1>2. u.realCmd = Idle /\ u.cursor < Len(u.entries)
  BY DEF PumpGoesOn
<1>3. e.kind \notin {"prepOn", "prepOff"}
  <2>1. e \in PlanEntries
    BY <1>1, <1>2, NextEntry
  <2>2. e.kind \in {"churn", "command", "garbled"}
    BY <2>1 DEF MeteredPlans
  <2> QED BY <2>2
<1>4. Fits(u)
  <2>1. u.prep \/ ~Backpressured(u)
    BY <1>1, <1>3 DEF PumpGoesOn
  <2> QED BY <2>1, NotBackpressuredFits DEF Tape
<1>5. Closing(u, PumpOnce(u)) \/ Starts(u, PumpOnce(u))
  BY <1>1, <1>3, RoundIs DEF AtEnd
<1> QED BY <1>2, <1>4, <1>5, ClosingOrdered, StartingOrdered

\* Where the worker may get from u with its tape in order.
OrderKept(u) == {v \in Kept(u) : Ordered(u, v)}

\* pump() and drain() keep the order.
LEMMA PumpOrders ==
  ASSUME MeteredPlans, NEW u, NEW v \in OrderKept(u)
  PROVE  Pump(v) \in OrderKept(u)
<1>1. \A x \in OrderKept(u) : PumpGoesOn(x) => PumpOnce(x) \in OrderKept(u)
  <2> SUFFICES ASSUME NEW x \in OrderKept(u), PumpGoesOn(x) PROVE PumpOnce(x) \in OrderKept(u)
    OBVIOUS
  <2>1. x \in Workers /\ Sound(x) /\ GoesOn(u, x) /\ Ordered(u, x)
    BY DEF OrderKept, Kept
  <2>2. PICK y : y = PumpOnce(x)
    OBVIOUS
  <2>3. y \in Workers /\ Sound(y) /\ Same(x, y)
    BY <2>1, <2>2, RoundSound
  <2>4. x.realCmd = Idle
    BY DEF PumpGoesOn
  <2>5. GoesOn(u, y)
    BY <2>1, <2>3, <2>4 DEF GoesOn, Same
  <2>6. Ordered(x, y)
    BY <2>1, <2>2, RoundOrdered DEF Ordered
  <2>7. Ordered(u, y)
    BY <2>1, <2>6 DEF Ordered
  <2> QED BY <2>2, <2>3, <2>5, <2>7 DEF OrderKept, Kept
<1>2. \A x \in OrderKept(u) : [x EXCEPT !.parked = FALSE] \in OrderKept(u)
  <2> SUFFICES ASSUME NEW x \in OrderKept(u) PROVE [x EXCEPT !.parked = FALSE] \in OrderKept(u)
    OBVIOUS
  <2>1. x \in Workers /\ Sound(x) /\ GoesOn(u, x) /\ Ordered(u, x)
    BY DEF OrderKept, Kept
  <2>2. PICK y : y = [x EXCEPT !.parked = FALSE]
    OBVIOUS
  <2>3. /\ y \in Workers /\ Same(x, y)
        /\ y.cursor = x.cursor /\ y.realCmd = x.realCmd /\ y.prep = x.prep
        /\ y.queue = x.queue /\ y.executed = x.executed /\ y.playback = x.playback
        /\ y.drained = x.drained /\ y.dispFileOps = x.dispFileOps
        /\ y.execFileOps = x.execFileOps /\ y.entryFileOps = x.entryFileOps
    BY <2>1, <2>2, Unparked
  <2>4. Sound(y) /\ GoesOn(u, y)
    BY <2>1, <2>3 DEF Sound, GoesOn, Same
  <2>5. Alike(x, y)
    BY <2>3 DEF Alike, Same
  <2>6. Ordered(x, y)
    BY <2>1, <2>5, AlikeOrdered DEF Ordered
  <2>7. Ordered(u, y)
    BY <2>1, <2>6 DEF Ordered
  <2> QED BY <2>2, <2>3, <2>4, <2>7 DEF OrderKept, Kept
<1>3. Len(v.entries) \in Nat
  <2>1. v.entries \in Seq(PlanEntries)
    BY WorkerFields DEF OrderKept, Kept
  <2> QED BY <2>1
<1> QED BY <1>1, <1>2, <1>3, PumpStays

\* drain() keeps the order.
LEMMA DrainOrders ==
  ASSUME MeteredPlans, NEW u, NEW v \in OrderKept(u)
  PROVE  Drain(v) \in OrderKept(u)
<1>1. OrderKept(u) \subseteq Workers
  BY DEF OrderKept, Kept
<1>2. \A x \in OrderKept(u), y \in Workers :
        (\E k \in Nat, a \in Nat : Spent(x, y, k, a)) => y \in OrderKept(u)
  <2> SUFFICES ASSUME NEW x \in OrderKept(u), NEW y \in Workers, NEW k \in Nat, NEW a \in Nat,
                      Spent(x, y, k, a)
               PROVE  y \in OrderKept(u)
    OBVIOUS
  <2>1. x \in Workers /\ Sound(x) /\ GoesOn(u, x) /\ Ordered(u, x)
    BY DEF OrderKept, Kept
  <2>2. Sound(y) /\ GoesOn(x, y)
    BY <2>1, SpentSound
  <2>3. GoesOn(u, y)
    BY <2>1, <2>2 DEF GoesOn
  <2>4. Ordered(x, y)
    BY <2>1, SpentOrdered DEF Ordered
  <2>5. Ordered(u, y)
    BY <2>1, <2>4 DEF Ordered
  <2> QED BY <2>2, <2>3, <2>5 DEF OrderKept, Kept
<1>3. \A x \in OrderKept(u) : Pump(x) \in OrderKept(u)
  BY PumpOrders
<1> QED BY <1>1, <1>2, <1>3, DrainStays

\* Where the worker is, it may go on from.
LEMMA OrderSelf ==
  ASSUME NEW u \in Workers, Sound(u), Tape(u), Capped(u)
  PROVE  u \in OrderKept(u)
BY KeptSelf DEF OrderKept, Ordered

\* A grant keeps the order.
LEMMA GrantOrders ==
  MeteredPlans /\ WInv /\ Tape(w) /\ Capped(w) /\ HandleGrant => Ordered(w, w')
<1> SUFFICES ASSUME MeteredPlans, WInv, Tape(w), Capped(w), HandleGrant PROVE Ordered(w, w')
  OBVIOUS
<1>1. /\ Types /\ Sound(w) /\ OfPlan(inbox) /\ Rising(inbox, w.epoch) /\ w \in Workers
  BY DEF WInv, Shipped, EpochsRise, Types
<1>2. PICK m \in Mail : m = Head(inbox) /\ m.type = "GRANT"
  BY <1>1, Received DEF HandleGrant
<1>3. m.grant \in Grants
  BY <1>2 DEF Mail
<1>4. CASE m.epoch = w.epoch
  <2>1. PICK u : u = [w EXCEPT !.limits = m.grant]
    OBVIOUS
  <2>2. u \in Workers /\ Sound(u) /\ Alike(w, u)
    BY <1>1, <1>3, <2>1, WithLimits
  <2>3. Ordered(w, u)
    BY <2>2, AlikeOrdered
  <2>4. PICK v : v = Drain(Pump(u))
    OBVIOUS
  <2>5. v \in OrderKept(u)
    <3>1. Pump(u) \in OrderKept(u)
      BY <2>2, <2>3, OrderSelf, PumpOrders DEF Ordered
    <3> QED BY <2>4, <3>1, DrainOrders
  <2>6. w' = v
    BY <1>2, <1>4, <2>1, <2>4 DEF HandleGrant, Become
  <2> QED BY <2>3, <2>5, <2>6 DEF OrderKept, Ordered
<1>5. CASE m.epoch # w.epoch
  <2>1. w' = w
    BY <1>2, <1>5 DEF HandleGrant
  <2> QED BY <2>1 DEF Ordered
<1> QED BY <1>4, <1>5

\* So does an entry that is shipped.
LEMMA EntriesOrder ==
  MeteredPlans /\ WInv /\ Tape(w) /\ Capped(w) /\ HandleEntries => Ordered(w, w')
<1> SUFFICES ASSUME MeteredPlans, WInv, Tape(w), Capped(w), HandleEntries PROVE Ordered(w, w')
  OBVIOUS
<1>1. /\ Types /\ Sound(w) /\ Held(w) /\ OfPlan(inbox) /\ Rising(inbox, w.epoch)
      /\ w \in Workers /\ plan \in Plans
  BY DEF WInv, Shipped, EpochsRise, Types
<1>2. Receives("ENTRIES")
  BY DEF HandleEntries
<1>3. PICK m \in Mail : m = Head(inbox) /\ m.type = "ENTRIES"
  BY <1>1, <1>2, Received
<1>4. m.from < Len(plan) /\ m.list = <<plan[m.from + 1]>>
  BY <1>1, <1>2, <1>3, Received
<1>5. CASE m.epoch = w.epoch /\ m.from = Len(w.entries)
  <2>1. PICK u : u = [w EXCEPT !.entries = @ \o <<plan[Len(w.entries) + 1]>>]
    OBVIOUS
  <2>2. u \in Workers /\ Sound(u) /\ Alike(w, u)
    <3>1. Len(w.entries) < Len(plan)
      BY <1>4, <1>5
    <3> QED BY <1>1, <2>1, <3>1, WithEntry
  <2>3. Ordered(w, u)
    BY <2>2, AlikeOrdered
  <2>4. Pump(u) \in OrderKept(u)
    BY <2>2, <2>3, OrderSelf, PumpOrders DEF Ordered
  <2>5. w' = Pump(u)
    <3>1. u = [w EXCEPT !.entries = @ \o m.list]
      BY <1>4, <1>5, <2>1
    <3> QED BY <1>3, <1>5, <3>1 DEF HandleEntries, Become
  <2> QED BY <2>3, <2>4, <2>5 DEF OrderKept, Ordered
<1>6. CASE ~(m.epoch = w.epoch /\ m.from = Len(w.entries))
  <2>1. w' = w
    BY <1>3, <1>6 DEF HandleEntries
  <2> QED BY <2>1 DEF Ordered
<1> QED BY <1>5, <1>6

\* The tape of a worker that starts over is in order.
LEMMA FreshOrdered ==
  ASSUME NEW e \in Nat, NEW runner \in BOOLEAN
  PROVE  /\ Tape(Fresh(e, runner)) /\ Capped(Fresh(e, runner))
         /\ Conserved(Fresh(e, runner))
<1>1. PICK q \in Seq(Steps) : q = <<>>
  BY EmptySeq
<1>2. Len(q) = 0 /\ Unplayed(q) = 0 /\ Credits(q) = 0
  BY <1>1, UnplayedOfNothing
<1>3. PICK u : u = Fresh(e, runner)
  OBVIOUS
<1>4. /\ u.queue = q /\ u.cursor = 0 /\ u.drained = -1 /\ ~u.prep /\ u.realCmd = Idle
      /\ u.executed = 0 /\ u.playback = 0 /\ u.dispFileOps = 0 /\ u.execFileOps = 0
  BY <1>1, <1>3 DEF Fresh
<1>5. InOrder(q, 0, -1, TRUE)
  BY <1>2 DEF InOrder
<1>6. CappedBy(q, q[Len(q)].entry)
  BY <1>2 DEF CappedBy
<1>7. Tape(u)
  <2>1. (u.realCmd = Idle) = TRUE
    BY <1>4
  <2>2. InOrder(u.queue, u.cursor, u.drained, u.realCmd = Idle)
    BY <1>4, <1>5, <2>1
  <2> QED BY <1>2, <1>4, <2>2 DEF Tape
<1>8. Capped(u)
  BY <1>4, <1>6 DEF Capped
<1>9. Conserved(u)
  BY <1>2, <1>4 DEF Conserved, Flying
<1> QED BY <1>3, <1>7, <1>8, <1>9

\* So does a reset.
LEMMA ResetOrders == WInv /\ HandleReset => Ordered(w, w')
<1> SUFFICES ASSUME WInv, HandleReset PROVE Ordered(w, w')
  OBVIOUS
<1>1. Types /\ OfPlan(inbox) /\ Rising(inbox, w.epoch) /\ w \in Workers
  BY DEF WInv, Shipped, EpochsRise, Types
<1>2. PICK m \in Mail : m = Head(inbox) /\ m.type = "RESET"
  BY <1>1, Received DEF HandleReset
<1>3. m.epoch \in Nat /\ w.runner \in BOOLEAN
  BY <1>1, <1>2, WorkerFields DEF Mail
<1>4. w' = Fresh(m.epoch, w.runner)
  BY <1>2 DEF HandleReset
<1> QED BY <1>3, <1>4, FreshOrdered DEF Ordered

\* So does the landing of the runner.
LEMMA LandingOrders ==
  MeteredPlans /\ WInv /\ Tape(w) /\ Capped(w) /\ RunnerLands => Ordered(w, w')
<1> SUFFICES ASSUME MeteredPlans, WInv, Tape(w), Capped(w), RunnerLands PROVE Ordered(w, w')
  OBVIOUS
<1>1. Sound(w) /\ w \in Workers
  BY DEF WInv, Types
<1>2. PICK u : u = [w EXCEPT !.runner = TRUE]
  OBVIOUS
<1>3. u \in Workers /\ Sound(u) /\ Alike(w, u)
  BY <1>1, <1>2, WithRunner
<1>4. Ordered(w, u)
  BY <1>3, AlikeOrdered
<1>5. Pump(u) \in OrderKept(u)
  BY <1>3, <1>4, OrderSelf, PumpOrders DEF Ordered
<1>6. w' = Pump(u)
  BY <1>2 DEF RunnerLands, Become
<1> QED BY <1>4, <1>5, <1>6 DEF OrderKept, Ordered

\* So does an operation of the command in flight.
LEMMA OpOrders ==
  MeteredPlans /\ WInv /\ Tape(w) /\ Capped(w) /\ CommandOp => Ordered(w, w')
<1> SUFFICES ASSUME MeteredPlans, WInv, Tape(w), Capped(w), CommandOp PROVE Ordered(w, w')
  OBVIOUS
<1>1. Types /\ OneBody /\ Sound(w) /\ w \in Workers
  BY DEF WInv, Types
<1>2. PICK f \in fibers : f.epoch = w.epoch /\ f.script # <<>>
        /\ w' = (CASE Head(f.script).does \in {"io", "raw"} ->
                        EnqueueBatch(CountFileOp(w, Head(f.script)), f.index,
                                     Head(f.script).tape, FALSE, 0)
                   [] Head(f.script).does = "throw" -> BumpFileOp(w)
                   [] Head(f.script).does = "format" ->
                        EnqueueBatch(DeviceReset(BumpFileOp(w)), f.index,
                                     Head(f.script).tape, FALSE, 0)
                   [] Head(f.script).does = "prepOn" -> SetPrep(w, TRUE)
                   [] Head(f.script).does = "prepOff" -> SetPrep(w, FALSE))
  BY DEF CommandOp
<1>3. f.index = w.realCmd /\ w.realCmd # Idle /\ w.realCmd \in Nat /\ f.script \in Seq(PlanOps)
  BY <1>1, <1>2, InFlight
<1>4. PICK op \in PlanOps : op = Head(f.script) /\ op.tape \in Seq(Nat)
  BY <1>2, <1>3, ScriptParts
<1>5. op.does \in {"io", "raw", "throw"}
  BY DEF MeteredPlans
<1>6. CASE op.does \in {"io", "raw"}
  <2>1. w' = EnqueueBatch(CountFileOp(w, op), w.realCmd, op.tape, FALSE, 0)
    BY <1>2, <1>3, <1>4, <1>6
  <2>2. Issues(w, w', w.realCmd, op.tape)
    BY <1>1, <1>3, <1>4, <2>1, IoIs
  <2> QED BY <1>1, <1>3, <1>4, <2>2, IssueOrdered
<1>7. CASE op.does = "throw"
  <2>1. w' = BumpFileOp(w)
    BY <1>2, <1>4, <1>7
  <2>2. PICK tape \in Seq(Nat) : tape = <<>>
    BY EmptySeq
  <2>3. Issues(w, w', w.realCmd, tape)
    BY <1>1, <1>3, <2>1, <2>2, ThrowIs
  <2> QED BY <1>1, <1>3, <2>3, IssueOrdered
<1> QED BY <1>5, <1>6, <1>7

\* So does finish(): the command was begun below the caps.
LEMMA QuiescedOrders ==
  MeteredPlans /\ WInv /\ Tape(w) /\ Capped(w) /\ CommandQuiesced => Ordered(w, w')
<1> SUFFICES ASSUME MeteredPlans, WInv, Tape(w), Capped(w), CommandQuiesced PROVE Ordered(w, w')
  OBVIOUS
<1>1. Types /\ OneBody /\ Sound(w) /\ w \in Workers
  BY DEF WInv, Types
<1>2. PICK f \in fibers : f.epoch = w.epoch
        /\ w' = Drain(Pump([EnqueueBatch(w, f.index, <<>>, TRUE, w.entryFileOps)
                              EXCEPT !.realCmd = Idle, !.cursor = f.index + 1]))
  BY DEF CommandQuiesced
<1>3. /\ f.index = w.realCmd /\ w.realCmd # Idle
      /\ w.realCmd = w.cursor /\ w.cursor < Len(w.entries)
  BY <1>1, <1>2, InFlight
<1>4. PICK u : u = [EnqueueBatch(w, w.realCmd, <<>>, TRUE, w.entryFileOps)
                      EXCEPT !.realCmd = Idle, !.cursor = w.realCmd + 1]
  OBVIOUS
<1>5. Closing(w, u)
  <2>1. <<>> \in Seq(Nat) /\ w.entryFileOps \in Nat
    BY <1>1, EmptySeq, WorkerFields
  <2>2. Closes(w, u, <<>>, w.entryFileOps)
    BY <1>1, <1>3, <1>4, QuiescedIs
  <2> QED BY <2>1, <2>2 DEF Closing
<1>6. u \in Workers /\ Sound(u)
  BY <1>1, <1>3, <1>5, ClosingSound
<1>7. Ordered(w, u)
  <2>1. Fits(w)
    BY <1>3 DEF Fits, Capped
  <2> QED BY <1>1, <1>5, <2>1, ClosingOrdered
<1>8. Drain(Pump(u)) \in OrderKept(u)
  <2>1. Pump(u) \in OrderKept(u)
    BY <1>6, <1>7, OrderSelf, PumpOrders DEF Ordered
  <2> QED BY <2>1, DrainOrders
<1>9. w' = Drain(Pump(u))
  BY <1>2, <1>3, <1>4
<1> QED BY <1>7, <1>8, <1>9 DEF OrderKept, Ordered

\* A fiber of an earlier epoch leaves the tape alone; it counts an operation that is
\* never displayed.
LEMMA StaleOrders ==
  MeteredPlans /\ WInv /\ Tape(w) /\ Capped(w) /\ StaleOp
    => Tape(w') /\ Capped(w') /\ 0 < w.epoch
<1> SUFFICES ASSUME MeteredPlans, WInv, Tape(w), Capped(w), StaleOp
             PROVE  Tape(w') /\ Capped(w') /\ 0 < w.epoch
  OBVIOUS
<1>1. Types /\ OneBody /\ Sound(w) /\ w \in Workers
  BY DEF WInv, Types
<1>2. PICK f \in fibers : f.epoch # w.epoch
        /\ IF f.script = <<>> THEN UNCHANGED w
           ELSE IF Head(f.script).does \in {"prepOn", "prepOff"}
                THEN w' = SetPrep(w, Head(f.script).does = "prepOn")
                ELSE w' = Refused(w, f, Head(f.script))
  BY DEF StaleOp
<1>3. f.script \in Seq(PlanOps) /\ f.epoch \in Nat /\ w.epoch \in Nat /\ f.epoch <= w.epoch
  <2>1. f \in Fibers
    BY <1>1 DEF Types
  <2> QED BY <1>1, <2>1, WorkerFields DEF Fibers, OneBody
<1>4. 0 < w.epoch
  BY <1>2, <1>3
<1>5. CASE f.script = <<>>
  BY <1>2, <1>4, <1>5
<1>6. CASE f.script # <<>>
  <2>1. Head(f.script).does \in {"io", "raw", "throw"}
    <3>1. Head(f.script) \in PlanOps
      BY <1>3, <1>6, ScriptParts
    <3> QED BY <3>1 DEF MeteredPlans
  <2>2. w' = CountFileOp(w, Head(f.script))
    <3>1. Head(f.script).does \notin {"prepOn", "prepOff"}
      BY <2>1
    <3> QED BY <1>2, <1>6, <3>1 DEF Refused
  <2>3. /\ w'.cursor = w.cursor /\ w'.realCmd = w.realCmd /\ w'.prep = w.prep
        /\ w'.queue = w.queue /\ w'.executed = w.executed /\ w'.playback = w.playback
        /\ w'.drained = w.drained
    BY <1>1, <2>2, CountIs
  <2> QED BY <1>4, <2>3 DEF Tape, Capped
<1> QED BY <1>5, <1>6

\* Every step keeps the order, and in the first epoch every operation is counted.
LEMMA MStep ==
  ASSUME MeteredPlans, MInv, [Next]_vars
  PROVE  MInv' /\ (MaxEpoch = 0 /\ Conserved(w) => Conserved(w)')
<1>1. WInv /\ Tape(w) /\ Capped(w)
  BY DEF MInv
<1>2. WInv'
  BY <1>1, WStep
<1>3. Ordered(w, w') \/ (Tape(w') /\ Capped(w') /\ 0 < w.epoch)
  <2>1. CASE Worker
    BY <1>1, <2>1, GrantOrders, EntriesOrder, ResetOrders, LandingOrders, OpOrders,
       QuiescedOrders, StaleOrders DEF Worker
  <2>2. CASE Coordinator \/ UNCHANGED vars
    <3>1. w' = w
      BY <2>2 DEF Coordinator, SendEntries, SendGrant, SendReset, ReceiveAck, Post, vars
    <3> QED BY <1>1, <3>1 DEF Ordered
  <2> QED BY <2>1, <2>2 DEF Next
<1>4. Tape(w)' /\ Capped(w)'
  <2>1. Tape(w') /\ Capped(w')
    BY <1>3 DEF Ordered
  <2> QED BY <2>1 DEF Tape, Capped
<1>5. ASSUME MaxEpoch = 0, Conserved(w) PROVE Conserved(w)'
  <2>1. w.epoch \in Nat /\ epoch \in Nat /\ w.epoch <= epoch /\ epoch <= 0
    BY <1>1, <1>5, WorkerFields DEF WInv, Types, EpochsRise
  <2>2. Ordered(w, w')
    BY <1>3, <2>1
  <2>3. Conserved(w')
    BY <1>5, <2>2 DEF Ordered
  <2> QED BY <2>3 DEF Conserved, Flying
<1> QED BY <1>2, <1>4, <1>5 DEF MInv

\* The initial states are in order.
LEMMA MInit == Init => MInv /\ Conserved(w)
<1> SUFFICES ASSUME Init PROVE MInv /\ Conserved(w)
  OBVIOUS
<1>1. PICK runner \in BOOLEAN : w = Fresh(0, runner)
  BY DEF Init
<1> QED BY <1>1, WInit, FreshOrdered DEF MInv

\* What is in order has the property.
LEMMA OrderedTape == MInv => TapeInOrder
<1> SUFFICES ASSUME MInv PROVE TapeInOrder
  OBVIOUS
<1>1. w \in Workers /\ Tape(w)
  BY DEF MInv, WInv, Types
<1>2. PICK q \in Seq(Steps), c \in Nat, d \in Int :
        q = w.queue /\ c = w.cursor /\ d = w.drained
  BY <1>1, WorkerFields
<1>3. DOMAIN q = 1 .. Len(q) /\ \A k \in 1 .. Len(q) : q[k].entry \in Nat
  BY StepFields
<1>4. /\ \A k \in 1 .. Len(q) : q[k].last => d < q[k].entry /\ q[k].entry < c
      /\ \A e \in d + 1 .. c - 1 : \E k \in 1 .. Len(q) : q[k].last /\ q[k].entry = e
      /\ \A k, l \in 1 .. Len(q) :
           k < l => q[k].entry <= q[l].entry /\ (q[k].last => q[k].entry < q[l].entry)
      /\ w.executed = w.playback + Unplayed(q)
  BY <1>1, <1>2 DEF Tape, InOrder
<1>5. {q[k].entry : k \in {l \in DOMAIN q : q[l].last}} = d + 1 .. c - 1
  <2>1. ASSUME NEW k \in {l \in DOMAIN q : q[l].last} PROVE q[k].entry \in d + 1 .. c - 1
    <3>1. k \in 1 .. Len(q) /\ q[k].last
      BY <1>3
    <3> QED BY <1>3, <1>4, <3>1
  <2>2. ASSUME NEW e \in d + 1 .. c - 1
        PROVE  e \in {q[k].entry : k \in {l \in DOMAIN q : q[l].last}}
    BY <1>3, <1>4
  <2> QED BY <2>1, <2>2
<1>6. Unplayed(q) = w.executed - w.playback
  <2>1. Unplayed(q) \in Nat /\ w.playback \in Nat
    BY <1>1, UnplayedType, WorkerFields
  <2>2. w.executed = w.playback + Unplayed(q)
    BY <1>4
  <2> QED BY ONLY <2>1, <2>2
<1>7. \A k, l \in DOMAIN q :
        k < l => q[k].entry <= q[l].entry /\ (q[k].last => q[k].entry < q[l].entry)
  BY <1>3, <1>4
<1> QED BY ONLY <1>2, <1>5, <1>6, <1>7, Zenon DEF TapeInOrder

\* What is below the caps has the property.
LEMMA CappedTape == MInv => TapeIsBounded
<1> SUFFICES ASSUME MInv, NEW k \in DOMAIN w.queue, w.queue[k].entry < Last(w.queue).entry
             PROVE  Unplayed(SubSeq(w.queue, 1, k)) < TAPE_CAP_FRAMES /\ k < BACKLOG_CAP
  BY DEF TapeIsBounded
<1>1. w \in Workers /\ Tape(w) /\ Capped(w) /\ Sound(w)
  BY DEF MInv, WInv, Types
<1>2. PICK q \in Seq(Steps), c \in Nat : q = w.queue /\ c = w.cursor
  BY <1>1, WorkerFields
<1>3. k \in 1 .. Len(q) /\ q[k].entry < q[Len(q)].entry /\ Len(q) \in 1 .. Len(q)
  BY <1>2 DEF Last
<1>4. Below(q, k)
  <2>1. CASE w.realCmd = Idle
    BY <1>1, <1>2, <1>3, <2>1 DEF Capped, CappedBy
  <2>2. CASE w.realCmd # Idle
    <3>1. w.realCmd = c /\ q[Len(q)].entry <= c
      BY <1>1, <1>2, <1>3, <2>2 DEF Sound, Tape, InOrder
    <3>2. q[k].entry \in Nat /\ q[Len(q)].entry \in Nat
      BY <1>3, StepFields
    <3>3. q[k].entry < c
      BY <1>3, <3>1, <3>2
    <3> QED BY <1>1, <1>2, <1>3, <2>2, <3>1, <3>3 DEF Capped, CappedBy
  <2> QED BY <2>1, <2>2
<1> QED BY <1>2, <1>4 DEF Below

\* The markers on the tape are those of the entries that are executed and not drained,
\* and what is left of the tape is what was executed and not played.
THEOREM InOrderTape ==
  ASSUME MeteredPlans
  PROVE  Spec => []TapeInOrder
<1>1. Init => MInv
  BY MInit
<1>2. MInv /\ [Next]_vars => MInv'
  BY MStep
<1>3. MInv => TapeInOrder
  BY OrderedTape
<1> QED BY <1>1, <1>2, <1>3, PTL DEF Spec

\* I3: without the newest entry's steps the queue is below both caps.
THEOREM BoundedTape ==
  ASSUME MeteredPlans
  PROVE  Spec => []TapeIsBounded
<1>1. Init => MInv
  BY MInit
<1>2. MInv /\ [Next]_vars => MInv'
  BY MStep
<1>3. MInv => TapeIsBounded
  BY CappedTape
<1> QED BY <1>1, <1>2, <1>3, PTL DEF Spec

\* No operation is lost or counted twice, as long as nothing is reset.
THEOREM ConservedOps ==
  ASSUME MeteredPlans, MaxEpoch = 0
  PROVE  Spec => []OpsConserved
<1>1. Init => MInv /\ Conserved(w)
  BY MInit
<1>2. (MInv /\ Conserved(w)) /\ [Next]_vars => (MInv /\ Conserved(w))'
  BY MStep
<1>3. MInv /\ Conserved(w) => OpsConserved
  <2> SUFFICES ASSUME MInv, Conserved(w) PROVE OpsConserved
    OBVIOUS
  <2>1. w.dispFileOps \in Nat /\ w.queue \in Seq(Steps)
    BY WorkerFields DEF MInv, WInv, Types
  <2> QED BY <2>1 DEF Conserved, Flying, OpsConserved
<1> QED BY <1>1, <1>2, <1>3, PTL DEF Spec

-----------------------------------------------------------------------------
(* The boot bracket is instant *)

\* No operation of the script is an end of the bracket.
QuietScript(s) == \A j \in 1 .. Len(s) : s[j].does \notin {"prepOn", "prepOff"}
Quiet(p) == \A i \in 1 .. Len(p) : QuietScript(p[i].script)

\* The two ends of a bracket.
Ends(p, on, off) == p[on].kind = "prepOn" /\ p[off].kind = "prepOff"

\* A plan has one bracket at a time, and with it no command that switches metering.
OneBracket ==
  \A p \in Plans : \A on, off \in 1 .. Len(p) : Ends(p, on, off) =>
    /\ \A m \in on + 1 .. off - 1 : p[m].kind # "prepOff"
    /\ Quiet(p)

\* The cursor is past the first end of a bracket and not past the other; the entry is
\* one of those from end to end.
Within(c)   == \E on, off \in 1 .. Len(plan) : Ends(plan, on, off) /\ on <= c /\ c < off
Enclosed(e) == \E on, off \in 1 .. Len(plan) : Ends(plan, on, off) /\ on <= e + 1 /\ e + 1 <= off

\* In the bracket nothing is metered, and nothing of it is on the tape.
Instant(u) ==
  /\ Within(u.cursor) => u.prep
  /\ u.realCmd # Idle => plan[u.cursor + 1].kind \notin {"prepOn", "prepOff"}
  /\ \A k \in 1 .. Len(u.queue) : ~Enclosed(u.queue[k].entry)

QuietFibers == Quiet(plan) => \A f \in fibers : QuietScript(f.script)

BInv == WInv /\ Instant(w) /\ QuietFibers

\* An entry that is no end is inside what encloses it.
LEMMA InsideEnds ==
  ASSUME plan \in Plans, NEW c \in Nat, c < Len(plan),
         plan[c + 1].kind \notin {"prepOn", "prepOff"}
  PROVE  (Enclosed(c) => Within(c)) /\ (Within(c + 1) => Within(c))
<1>0. Len(plan) \in Nat
  <2>1. plan \in Seq(PlanEntries)
    BY PlanTypes
  <2> QED BY <2>1
<1>1. ASSUME NEW on \in 1 .. Len(plan), NEW off \in 1 .. Len(plan), Ends(plan, on, off)
      PROVE  on # c + 1 /\ off # c + 1
  BY <1>1 DEF Ends
<1>2. ASSUME Enclosed(c) PROVE Within(c)
  <2>1. PICK on \in 1 .. Len(plan), off \in 1 .. Len(plan) :
          Ends(plan, on, off) /\ on <= c + 1 /\ c + 1 <= off
    BY <1>2 DEF Enclosed
  <2>2. on <= c /\ c < off
    BY <1>0, <1>1, <2>1
  <2> QED BY <2>1, <2>2 DEF Within
<1>3. ASSUME Within(c + 1) PROVE Within(c)
  <2>1. PICK on \in 1 .. Len(plan), off \in 1 .. Len(plan) :
          Ends(plan, on, off) /\ on <= c + 1 /\ c + 1 < off
    BY <1>3 DEF Within
  <2>2. on <= c /\ c < off
    BY <1>0, <1>1, <2>1
  <2> QED BY <2>1, <2>2 DEF Within
<1> QED BY <1>2, <1>3

\* Past its second end the bracket is over.
LEMMA PastTheEnd ==
  ASSUME OneBracket, plan \in Plans, NEW c \in Nat, c < Len(plan),
         plan[c + 1].kind = "prepOff"
  PROVE  ~Within(c + 1)
<1> SUFFICES ASSUME Within(c + 1) PROVE FALSE
  OBVIOUS
<1>1. PICK on \in 1 .. Len(plan), off \in 1 .. Len(plan) :
        Ends(plan, on, off) /\ on <= c + 1 /\ c + 1 < off
  BY DEF Within
<1>2. on # c + 1
  BY <1>1 DEF Ends
<1>3. c + 1 \in on + 1 .. off - 1
  BY <1>1, <1>2
<1> QED BY <1>1, <1>3 DEF OneBracket

\* What is on the tape of v was on that of u, or is of the entry at u's cursor.
Fills(u, v) ==
  \A k \in 1 .. Len(v.queue) :
    \/ \E j \in 1 .. Len(u.queue) : v.queue[k].entry = u.queue[j].entry
    \/ v.queue[k].entry = u.cursor /\ ~u.prep

\* What fills the tape keeps the bracket off it.
LEMMA FillsInstant ==
  ASSUME plan \in Plans, NEW u \in Workers, u.cursor < Len(plan), Instant(u),
         plan[u.cursor + 1].kind \notin {"prepOn", "prepOff"}, NEW v, Fills(u, v)
  PROVE  \A k \in 1 .. Len(v.queue) : ~Enclosed(v.queue[k].entry)
<1> SUFFICES ASSUME NEW k \in 1 .. Len(v.queue) PROVE ~Enclosed(v.queue[k].entry)
  OBVIOUS
<1>1. CASE \E j \in 1 .. Len(u.queue) : v.queue[k].entry = u.queue[j].entry
  BY <1>1 DEF Instant
<1>2. CASE v.queue[k].entry = u.cursor /\ ~u.prep
  <2>1. PICK c \in Nat : c = u.cursor
    BY WorkerFields
  <2>2. ~Within(c)
    BY <1>2, <2>1 DEF Instant
  <2>3. ~Enclosed(c)
    BY <2>1, <2>2, InsideEnds
  <2> QED BY <1>2, <2>1, <2>3
<1> QED BY <1>1, <1>2 DEF Fills

\* A batch fills the tape.
LEMMA ExtendsFills ==
  ASSUME NEW u \in Workers, NEW v \in Workers, NEW last,
         u.prep => v.queue = u.queue,
         ~u.prep => Extends(u.queue, v.queue, u.cursor, last)
  PROVE  Fills(u, v)
<1> SUFFICES ASSUME NEW k \in 1 .. Len(v.queue)
             PROVE  \/ \E j \in 1 .. Len(u.queue) : v.queue[k].entry = u.queue[j].entry
                    \/ v.queue[k].entry = u.cursor /\ ~u.prep
  BY DEF Fills
<1>1. CASE u.prep
  BY <1>1
<1>2. CASE ~u.prep
  <2>1. PICK q \in Seq(Steps), r \in Seq(Steps) : q = u.queue /\ r = v.queue
    BY WorkerFields
  <2>2. Extends(q, r, u.cursor, last) /\ Len(q) \in Nat /\ Len(r) \in Nat
    BY <1>2, <2>1
  <2>3. k \in 1 .. Len(q) \/ k \in Len(q) + 1 .. Len(r)
    BY <2>1, <2>2
  <2>4. CASE k \in 1 .. Len(q)
    BY <2>1, <2>2, <2>4 DEF Extends
  <2>5. CASE k \in Len(q) + 1 .. Len(r)
    BY <1>2, <2>1, <2>2, <2>5 DEF Extends
  <2> QED BY <2>3, <2>4, <2>5
<1> QED BY <1>1, <1>2

\* The entry at the cursor is that of the plan.
LEMMA HeldNext ==
  ASSUME NEW u \in Workers, Held(u), u.cursor < Len(u.entries), plan \in Plans
  PROVE  u.cursor < Len(plan) /\ u.entries[u.cursor + 1] = plan[u.cursor + 1]
<1>1. u.cursor \in Nat /\ u.entries \in Seq(PlanEntries) /\ plan \in Seq(PlanEntries)
  BY WorkerFields, PlanTypes
<1>2. Len(u.entries) \in Nat /\ Len(plan) \in Nat /\ u.cursor + 1 \in 1 .. Len(u.entries)
  BY <1>1
<1> QED BY <1>1, <1>2 DEF Held

\* A round of pump() keeps the bracket off the tape.
LEMMA RoundInstant ==
  ASSUME OneBracket, plan \in Plans, NEW u \in Workers, PumpGoesOn(u), Held(u), Instant(u)
  PROVE  Instant(PumpOnce(u))
<1>1. PICK v : v = PumpOnce(u)
  OBVIOUS
<1>2. u.realCmd = Idle /\ u.cursor < Len(u.entries)
  BY DEF PumpGoesOn
<1>3. PICK c \in Nat : c = u.cursor
  BY WorkerFields
<1>4. c < Len(plan) /\ u.entries[c + 1] = plan[c + 1]
  BY <1>2, <1>3, HeldNext
<1>5. CASE ~AtEnd(u) /\ Closing(u, v)
  <2>1. PICK tape \in Seq(Nat), ops \in Nat : Closes(u, v, tape, ops)
    BY <1>5 DEF Closing
  <2>2. v \in Workers /\ v.prep = u.prep /\ v.realCmd = Idle /\ v.cursor = c + 1
    BY <1>3, <2>1 DEF Closes
  <2>3. plan[c + 1].kind \notin {"prepOn", "prepOff"}
    BY <1>3, <1>4, <1>5 DEF AtEnd
  <2>4. Fills(u, v)
    <3>1. u.prep => v.queue = u.queue
      BY <2>1 DEF Closes
    <3>2. ~u.prep => Extends(u.queue, v.queue, u.cursor, TRUE)
      BY <2>1 DEF Closes, Queued
    <3> QED BY <2>2, <3>1, <3>2, ExtendsFills
  <2>5. \A k \in 1 .. Len(v.queue) : ~Enclosed(v.queue[k].entry)
    BY <1>3, <1>4, <2>3, <2>4, FillsInstant
  <2>6. Within(c + 1) => v.prep
    <3>1. Within(c + 1) => Within(c)
      BY <1>4, <2>3, InsideEnds
    <3> QED BY <1>3, <2>2, <3>1 DEF Instant
  <2> QED BY <1>1, <2>2, <2>5, <2>6 DEF Instant
<1>6. CASE ~AtEnd(u) /\ Starts(u, v)
  <2>1. v.prep = u.prep /\ v.cursor = u.cursor /\ v.queue = u.queue
    BY <1>6 DEF Starts
  <2>2. plan[c + 1].kind \notin {"prepOn", "prepOff"}
    BY <1>3, <1>4, <1>6 DEF AtEnd
  <2> QED BY <1>1, <1>3, <2>1, <2>2 DEF Instant
<1>7. CASE AtEnd(u) /\ Brackets(u, v)
  <2>1. /\ v.realCmd = Idle /\ v.cursor = c + 1 /\ v.queue = u.queue
        /\ v.prep = (plan[c + 1].kind = "prepOn") /\ plan[c + 1].kind \in {"prepOn", "prepOff"}
    BY <1>2, <1>3, <1>4, <1>7 DEF Brackets, AtEnd
  <2>2. Within(c + 1) => v.prep
    BY <1>4, <2>1, PastTheEnd
  <2> QED BY <1>1, <2>1, <2>2 DEF Instant
<1> QED BY <1>1, <1>5, <1>6, <1>7, RoundIs

\* What is not of the bracket does not matter to it.
LEMMA AlikeInstant ==
  ASSUME NEW u, NEW v, Instant(u), v.cursor = u.cursor, v.prep = u.prep, v.queue = u.queue,
         v.realCmd = u.realCmd
  PROVE  Instant(v)
BY DEF Instant

\* Playing keeps the bracket off the tape.
LEMMA SpentInstant ==
  ASSUME NEW u \in Workers, Instant(u), NEW v, NEW k \in Nat, NEW a \in Nat, Spent(u, v, k, a)
  PROVE  Instant(v)
<1>1. /\ v.cursor = u.cursor /\ v.prep = u.prep /\ v.realCmd = u.realCmd
      /\ k \in 0 .. Len(u.queue)
  BY DEF Spent
<1>2. PICK q \in Seq(Steps) : q = u.queue
  BY WorkerFields
<1>3. PICK r \in Seq(Steps) : r = v.queue /\ Remains(q, r, k, a)
  BY <1>2 DEF Spent, Remains
<1>4. ASSUME NEW n \in 1 .. Len(r) PROVE ~Enclosed(r[n].entry)
  <2>1. Len(r) = Len(q) - k /\ Len(q) \in Nat /\ r[n].entry = q[k + n].entry
    BY <1>3 DEF Remains
  <2>2. k + n \in 1 .. Len(q)
    BY <1>1, <1>2, <2>1
  <2>3. ~Enclosed(q[k + n].entry)
    BY <1>2, <2>2 DEF Instant
  <2> QED BY <2>1, <2>3
<1> QED BY <1>1, <1>3, <1>4 DEF Instant

\* Where the worker may get from u with the bracket off its tape.
InstantKept(u) == {v \in Kept(u) : Held(v) /\ Instant(v)}

\* pump() keeps the bracket off the tape.
LEMMA PumpInstant ==
  ASSUME OneBracket, plan \in Plans, NEW u, NEW v \in InstantKept(u)
  PROVE  Pump(v) \in InstantKept(u)
<1>1. \A x \in InstantKept(u) : PumpGoesOn(x) => PumpOnce(x) \in InstantKept(u)
  <2> SUFFICES ASSUME NEW x \in InstantKept(u), PumpGoesOn(x)
               PROVE  PumpOnce(x) \in InstantKept(u)
    OBVIOUS
  <2>1. x \in Workers /\ Sound(x) /\ GoesOn(u, x) /\ Held(x) /\ Instant(x)
    BY DEF InstantKept, Kept
  <2>2. PICK y : y = PumpOnce(x)
    OBVIOUS
  <2>3. y \in Workers /\ Sound(y) /\ Same(x, y)
    BY <2>1, <2>2, RoundSound
  <2>4. x.realCmd = Idle
    BY DEF PumpGoesOn
  <2>5. GoesOn(u, y)
    BY <2>1, <2>3, <2>4 DEF GoesOn, Same
  <2>6. Instant(y)
    BY <2>1, <2>2, RoundInstant
  <2>7. Held(y)
    BY <2>1, <2>3, HeldSame DEF Same
  <2> QED BY <2>2, <2>3, <2>5, <2>6, <2>7 DEF InstantKept, Kept
<1>2. \A x \in InstantKept(u) : [x EXCEPT !.parked = FALSE] \in InstantKept(u)
  <2> SUFFICES ASSUME NEW x \in InstantKept(u)
               PROVE  [x EXCEPT !.parked = FALSE] \in InstantKept(u)
    OBVIOUS
  <2>1. x \in Workers /\ Sound(x) /\ GoesOn(u, x) /\ Held(x) /\ Instant(x)
    BY DEF InstantKept, Kept
  <2>2. PICK y : y = [x EXCEPT !.parked = FALSE]
    OBVIOUS
  <2>3. y \in Workers /\ Same(x, y) /\ y.cursor = x.cursor /\ y.realCmd = x.realCmd
        /\ y.queue = x.queue /\ y.prep = x.prep
    BY <2>1, <2>2, Unparked
  <2>4. Sound(y) /\ GoesOn(u, y)
    BY <2>1, <2>3 DEF Sound, GoesOn, Same
  <2>5. Instant(y)
    BY <2>1, <2>3, AlikeInstant
  <2>6. Held(y)
    BY <2>1, <2>3, HeldSame DEF Same
  <2> QED BY <2>2, <2>3, <2>4, <2>5, <2>6 DEF InstantKept, Kept
<1>3. Len(v.entries) \in Nat
  <2>1. v.entries \in Seq(PlanEntries)
    BY WorkerFields DEF InstantKept, Kept
  <2> QED BY <2>1
<1> QED BY <1>1, <1>2, <1>3, PumpStays

\* So does drain().
LEMMA DrainInstant ==
  ASSUME OneBracket, plan \in Plans, NEW u, NEW v \in InstantKept(u)
  PROVE  Drain(v) \in InstantKept(u)
<1>1. InstantKept(u) \subseteq Workers
  BY DEF InstantKept, Kept
<1>2. \A x \in InstantKept(u), y \in Workers :
        (\E k \in Nat, a \in Nat : Spent(x, y, k, a)) => y \in InstantKept(u)
  <2> SUFFICES ASSUME NEW x \in InstantKept(u), NEW y \in Workers, NEW k \in Nat,
                      NEW a \in Nat, Spent(x, y, k, a)
               PROVE  y \in InstantKept(u)
    OBVIOUS
  <2>1. x \in Workers /\ Sound(x) /\ GoesOn(u, x) /\ Held(x) /\ Instant(x)
    BY DEF InstantKept, Kept
  <2>2. Sound(y) /\ GoesOn(x, y)
    BY <2>1, SpentSound
  <2>3. GoesOn(u, y)
    BY <2>1, <2>2 DEF GoesOn
  <2>4. Instant(y)
    BY <2>1, SpentInstant
  <2>5. Held(y)
    BY <2>1, <2>2, HeldSame DEF GoesOn
  <2> QED BY <2>2, <2>3, <2>4, <2>5 DEF InstantKept, Kept
<1>3. \A x \in InstantKept(u) : Pump(x) \in InstantKept(u)
  BY PumpInstant
<1> QED BY <1>1, <1>2, <1>3, DrainStays

\* Where the worker is, it may go on from.
LEMMA InstantSelf ==
  ASSUME NEW u \in Workers, Sound(u), Held(u), Instant(u)
  PROVE  u \in InstantKept(u)
BY KeptSelf DEF InstantKept

\* What the handlers leave behind: a worker that holds the plan with the bracket off its
\* tape, where no body that has not settled is of the bracket.
Rests == Instant(w') /\ (Quiet(plan) => \A f \in fibers' : QuietScript(f.script))

\* The body of a command of a quiet plan is quiet.
LEMMA NewQuiet ==
  ASSUME plan \in Plans, Quiet(plan), NEW v \in Workers, Sound(v), Held(v), v.realCmd # Idle
  PROVE  QuietScript(v.entries[v.realCmd + 1].script)
<1>1. v.realCmd = v.cursor /\ v.cursor < Len(v.entries)
  BY DEF Sound
<1>2. v.cursor < Len(plan) /\ v.entries[v.cursor + 1] = plan[v.cursor + 1]
  BY <1>1, HeldNext
<1>3. v.cursor + 1 \in 1 .. Len(plan)
  <2>1. v.cursor \in Nat /\ plan \in Seq(PlanEntries)
    BY WorkerFields, PlanTypes
  <2>2. Len(plan) \in Nat
    BY <2>1
  <2> QED BY <1>2, <2>1, <2>2
<1> QED BY <1>1, <1>2, <1>3 DEF Quiet

\* So the bodies are, when pump() starts one.
LEMMA BecomingRests ==
  ASSUME plan \in Plans, QuietFibers, NEW u, NEW v \in InstantKept(u), Become(v)
  PROVE  Rests
<1>1. w' = v /\ v \in Workers /\ Sound(v) /\ Held(v) /\ Instant(v)
  BY DEF InstantKept, Kept, Become
<1>2. ASSUME Quiet(plan), NEW f \in fibers' PROVE QuietScript(f.script)
  <2>1. CASE f \in fibers
    BY <1>2, <2>1 DEF QuietFibers
  <2>2. CASE f \notin fibers
    <3>1. v.realCmd # Idle /\ f.script = v.entries[v.realCmd + 1].script
      BY <1>2, <2>2 DEF Become
    <3>2. QuietScript(v.entries[v.realCmd + 1].script)
      BY <1>1, <1>2, <3>1, NewQuiet
    <3> QED BY <3>1, <3>2
  <2> QED BY <2>1, <2>2
<1> QED BY <1>1, <1>2 DEF Rests

\* What changes neither the worker nor the bodies leaves them so.
LEMMA SameRests ==
  ASSUME Instant(w), QuietFibers, w' = w, fibers' = fibers
  PROVE  Rests
BY DEF Rests, QuietFibers

\* A grant keeps the bracket off the tape.
LEMMA GrantRests == OneBracket /\ BInv /\ HandleGrant => Rests
<1> SUFFICES ASSUME OneBracket, BInv, HandleGrant PROVE Rests
  OBVIOUS
<1>1. /\ Types /\ Sound(w) /\ Held(w) /\ OfPlan(inbox) /\ Rising(inbox, w.epoch)
      /\ w \in Workers /\ plan \in Plans /\ Instant(w) /\ QuietFibers
  BY DEF BInv, WInv, Shipped, EpochsRise, Types
<1>2. PICK m \in Mail : m = Head(inbox) /\ m.type = "GRANT"
  BY <1>1, Received DEF HandleGrant
<1>3. m.grant \in Grants
  BY <1>2 DEF Mail
<1>4. CASE m.epoch = w.epoch
  <2>1. PICK u : u = [w EXCEPT !.limits = m.grant]
    OBVIOUS
  <2>2. u \in Workers /\ Sound(u) /\ Alike(w, u) /\ u.entries = w.entries
    BY <1>1, <1>3, <2>1, WithLimits
  <2>3. Instant(u) /\ Held(u)
    BY <1>1, <2>2, AlikeInstant, HeldSame DEF Alike
  <2>4. PICK v : v = Drain(Pump(u))
    OBVIOUS
  <2>5. v \in InstantKept(u)
    <3>1. Pump(u) \in InstantKept(u)
      BY <1>1, <2>2, <2>3, InstantSelf, PumpInstant
    <3> QED BY <1>1, <2>4, <3>1, DrainInstant
  <2>6. Become(v)
    BY <1>2, <1>4, <2>1, <2>4 DEF HandleGrant
  <2> QED BY <1>1, <2>5, <2>6, BecomingRests
<1>5. CASE m.epoch # w.epoch
  <2>1. w' = w /\ fibers' = fibers
    BY <1>2, <1>5 DEF HandleGrant
  <2> QED BY <1>1, <2>1, SameRests
<1> QED BY <1>4, <1>5

\* So does an entry that is shipped.
LEMMA EntriesRest == OneBracket /\ BInv /\ HandleEntries => Rests
<1> SUFFICES ASSUME OneBracket, BInv, HandleEntries PROVE Rests
  OBVIOUS
<1>1. /\ Types /\ Sound(w) /\ Held(w) /\ OfPlan(inbox) /\ Rising(inbox, w.epoch)
      /\ w \in Workers /\ plan \in Plans /\ Instant(w) /\ QuietFibers
  BY DEF BInv, WInv, Shipped, EpochsRise, Types
<1>2. Receives("ENTRIES")
  BY DEF HandleEntries
<1>3. PICK m \in Mail : m = Head(inbox) /\ m.type = "ENTRIES"
  BY <1>1, <1>2, Received
<1>4. m.from < Len(plan) /\ m.list = <<plan[m.from + 1]>>
  BY <1>1, <1>2, <1>3, Received
<1>5. CASE m.epoch = w.epoch /\ m.from = Len(w.entries)
  <2>1. PICK u : u = [w EXCEPT !.entries = @ \o <<plan[Len(w.entries) + 1]>>]
    OBVIOUS
  <2>2. u \in Workers /\ Sound(u) /\ Held(u) /\ Alike(w, u)
    <3>1. Len(w.entries) < Len(plan)
      BY <1>4, <1>5
    <3> QED BY <1>1, <2>1, <3>1, WithEntry
  <2>3. Instant(u)
    BY <1>1, <2>2, AlikeInstant DEF Alike
  <2>4. PICK v : v = Pump(u)
    OBVIOUS
  <2>5. v \in InstantKept(u)
    BY <1>1, <2>2, <2>3, <2>4, InstantSelf, PumpInstant
  <2>6. Become(v)
    <3>1. u = [w EXCEPT !.entries = @ \o m.list]
      BY <1>4, <1>5, <2>1
    <3> QED BY <1>3, <1>5, <2>4, <3>1 DEF HandleEntries
  <2> QED BY <1>1, <2>5, <2>6, BecomingRests
<1>6. CASE ~(m.epoch = w.epoch /\ m.from = Len(w.entries))
  <2>1. w' = w /\ fibers' = fibers
    BY <1>3, <1>6 DEF HandleEntries
  <2> QED BY <1>1, <2>1, SameRests
<1> QED BY <1>5, <1>6

\* So does the landing of the runner.
LEMMA LandingRests == OneBracket /\ BInv /\ RunnerLands => Rests
<1> SUFFICES ASSUME OneBracket, BInv, RunnerLands PROVE Rests
  OBVIOUS
<1>1. Sound(w) /\ Held(w) /\ w \in Workers /\ plan \in Plans /\ Instant(w) /\ QuietFibers
  BY DEF BInv, WInv, Shipped, Types
<1>2. PICK u : u = [w EXCEPT !.runner = TRUE]
  OBVIOUS
<1>3. u \in Workers /\ Sound(u) /\ Alike(w, u) /\ u.entries = w.entries
  BY <1>1, <1>2, WithRunner
<1>4. Instant(u) /\ Held(u)
  BY <1>1, <1>3, AlikeInstant, HeldSame DEF Alike
<1>5. PICK v : v = Pump(u)
  OBVIOUS
<1>6. v \in InstantKept(u)
  BY <1>1, <1>3, <1>4, <1>5, InstantSelf, PumpInstant
<1>7. Become(v)
  BY <1>2, <1>5 DEF RunnerLands
<1> QED BY <1>1, <1>6, <1>7, BecomingRests

\* A worker that starts over is before any bracket.
LEMMA FreshInstant ==
  ASSUME NEW e \in Nat, NEW runner \in BOOLEAN
  PROVE  Instant(Fresh(e, runner))
<1>1. PICK v : v = Fresh(e, runner)
  OBVIOUS
<1>2. v.queue = <<>> /\ v.realCmd = Idle /\ v.cursor = 0
  BY <1>1, FreshIs
<1>3. ~Within(0)
  BY DEF Within
<1>4. Instant(v)
  BY <1>2, <1>3 DEF Instant
<1> QED BY <1>1, <1>4

\* So does a reset; the bodies of the epoch that it ends stay.
LEMMA ResetRests == BInv /\ HandleReset => Rests
<1> SUFFICES ASSUME BInv, HandleReset PROVE Rests
  OBVIOUS
<1>1. /\ Types /\ OfPlan(inbox) /\ Rising(inbox, w.epoch) /\ w \in Workers /\ QuietFibers
  BY DEF BInv, WInv, Shipped, EpochsRise, Types
<1>2. PICK m \in Mail : m = Head(inbox) /\ m.type = "RESET"
  BY <1>1, Received DEF HandleReset
<1>3. m.epoch \in Nat /\ w.runner \in BOOLEAN
  BY <1>1, <1>2, WorkerFields DEF Mail
<1>4. w' = Fresh(m.epoch, w.runner) /\ fibers' = fibers
  BY <1>2 DEF HandleReset
<1>5. Instant(w')
  BY <1>3, <1>4, FreshInstant
<1> QED BY <1>1, <1>4, <1>5 DEF Rests, QuietFibers

\* What is left of a quiet script is quiet.
LEMMA QuietParts ==
  ASSUME NEW script \in Seq(PlanOps), script # <<>>, QuietScript(script)
  PROVE  /\ Head(script).does \notin {"prepOn", "prepOff"}
         /\ QuietScript(Tail(script)) /\ QuietScript(<<>>)
<1>1. PICK rest \in Seq(PlanOps) : rest = Tail(script)
  BY HeadTailProperties
<1>2. /\ Len(script) \in Nat \ {0} /\ Len(rest) = Len(script) - 1
      /\ Head(script) = script[1] /\ \A n \in 1 .. Len(rest) : rest[n] = script[n + 1]
  BY <1>1
<1>3. 1 \in 1 .. Len(script) /\ \A n \in 1 .. Len(rest) : n + 1 \in 1 .. Len(script)
  BY <1>2
<1>4. QuietScript(rest)
  BY <1>2, <1>3 DEF QuietScript
<1>5. QuietScript(<<>>)
  BY DEF QuietScript
<1> QED BY <1>1, <1>2, <1>3, <1>4, <1>5 DEF QuietScript

\* A command that switches metering is of a plan without a bracket.
LEMMA LoudPlan ==
  ASSUME OneBracket, plan \in Plans, QuietFibers, NEW f \in fibers,
         f.script \in Seq(PlanOps), f.script # <<>>,
         Head(f.script).does \in {"prepOn", "prepOff"}
  PROVE  \A c : ~Within(c) /\ ~Enclosed(c)
<1>1. ~Quiet(plan)
  <2> SUFFICES ASSUME Quiet(plan) PROVE FALSE
    OBVIOUS
  <2>1. QuietScript(f.script)
    BY DEF QuietFibers
  <2> QED BY <2>1, QuietParts
<1>2. \A on, off \in 1 .. Len(plan) : ~Ends(plan, on, off)
  BY <1>1 DEF OneBracket
<1> QED BY <1>2 DEF Within, Enclosed

\* So it does not matter when it switches it.
LEMMA SwitchInstant ==
  ASSUME NEW u \in Workers, Instant(u), NEW on \in BOOLEAN,
         \A c : ~Within(c) /\ ~Enclosed(c)
  PROVE  Instant(SetPrep(u, on))
<1>1. PICK n \in Nat : n = IF on THEN u.dispFileOps ELSE 0
  BY WorkerFields
<1>2. PICK v : v = [u EXCEPT !.prep = on, !.dispFileOps = n]
  OBVIOUS
<1>3. v = SetPrep(u, on)
  BY <1>1, <1>2 DEF SetPrep, Workers
<1>4. v.cursor = u.cursor /\ v.realCmd = u.realCmd
  BY <1>2 DEF Workers
<1>5. Instant(v)
  BY <1>4 DEF Instant
<1> QED BY <1>3, <1>5

\* The tape of an operation of the command in flight is of the entry at the cursor.
LEMMA IssueFills ==
  ASSUME NEW u \in Workers, NEW i \in Nat, i = u.cursor, NEW v, NEW tape, Issues(u, v, i, tape)
  PROVE  Fills(u, v)
<1>1. v \in Workers
  BY DEF Issues
<1>2. u.prep => v.queue = u.queue
  BY DEF Issues
<1>3. ~u.prep => Extends(u.queue, v.queue, u.cursor, FALSE)
  BY DEF Issues, Queued
<1> QED BY <1>1, <1>2, <1>3, ExtendsFills

\* So is what format() leaves on it.
LEMMA FormatFills ==
  ASSUME NEW u \in Workers, NEW i \in Nat, i = u.cursor, NEW tape \in Seq(Nat)
  PROVE  LET v == EnqueueBatch(DeviceReset(BumpFileOp(u)), i, tape, FALSE, 0)
         IN  /\ v.cursor = u.cursor /\ v.prep = u.prep /\ v.realCmd = u.realCmd
             /\ v.drained = u.drained /\ Fills(u, v)
<1>1. PICK x : x = BumpFileOp(u)
  OBVIOUS
<1>2. /\ x \in Workers /\ x.cursor = u.cursor /\ x.realCmd = u.realCmd /\ x.prep = u.prep
      /\ x.drained = u.drained
  BY <1>1, BumpIs
<1>3. PICK y : y = [x EXCEPT !.queue = <<>>, !.executed = 0]
  OBVIOUS
<1>4. /\ y \in Workers /\ y.cursor = u.cursor /\ y.realCmd = u.realCmd /\ y.prep = u.prep
      /\ y.queue = <<>> /\ y.drained = u.drained
  <2>1. <<>> \in Seq(Steps)
    OBVIOUS
  <2>2. y \in Workers
    BY <1>2, <1>3, <2>1 DEF Workers
  <2>3. /\ y.cursor = x.cursor /\ y.realCmd = x.realCmd /\ y.prep = x.prep /\ y.queue = <<>>
        /\ y.drained = x.drained
    BY <1>2, <1>3 DEF Workers
  <2> QED BY <1>2, <2>2, <2>3
<1>5. PICK v : v = EnqueueBatch(y, i, tape, FALSE, 0)
  OBVIOUS
<1>6. Enqueued(y, v, i, tape, FALSE, 0)
  BY <1>4, <1>5, EnqueueIs
<1>7. /\ v \in Workers /\ v.cursor = u.cursor /\ v.prep = u.prep /\ v.realCmd = u.realCmd
      /\ v.drained = u.drained
  BY <1>4, <1>6 DEF Enqueued
<1>8. Fills(y, v)
  <2>1. y.prep => v.queue = y.queue
    BY <1>6 DEF Enqueued
  <2>2. ~y.prep => Extends(y.queue, v.queue, y.cursor, FALSE)
    BY <1>4, <1>6 DEF Enqueued, Queued
  <2> QED BY <1>4, <1>7, <2>1, <2>2, ExtendsFills
<1>9. Fills(u, v)
  <2>1. Len(y.queue) = 0
    BY <1>4
  <2> QED BY <1>4, <1>8, <2>1 DEF Fills
<1> QED BY <1>1, <1>3, <1>5, <1>7, <1>9 DEF DeviceReset

\* A fiber that has gone on is as quiet as it was.
LEMMA ResumedQuiet ==
  ASSUME QuietFibers, Quiet(plan), NEW f \in fibers, f \in Fibers, NEW script,
         QuietScript(f.script) => QuietScript(script),
         fibers' = Resumed(f, script) \/ fibers' = fibers \ {f}, NEW g \in fibers'
  PROVE  QuietScript(g.script)
<1>1. PICK h : h = [f EXCEPT !.script = script]
  OBVIOUS
<1>2. h.script = script
  BY <1>1 DEF Fibers
<1>3. g = h \/ g \in fibers
  BY <1>1 DEF Resumed
<1>4. \A k \in fibers : QuietScript(k.script)
  BY DEF QuietFibers
<1> QED BY <1>2, <1>3, <1>4

\* So does the next operation of the command in flight: it is of no end of the bracket.
LEMMA OpRests == OneBracket /\ BInv /\ CommandOp => Rests
<1> SUFFICES ASSUME OneBracket, BInv, CommandOp PROVE Rests
  OBVIOUS
<1>1. /\ Types /\ OneBody /\ Sound(w) /\ Held(w) /\ w \in Workers /\ plan \in Plans
      /\ Instant(w) /\ QuietFibers
  BY DEF BInv, WInv, Shipped, Types
<1>2. PICK f \in fibers : f.epoch = w.epoch /\ f.script # <<>>
        /\ w' = (CASE Head(f.script).does \in {"io", "raw"} ->
                        EnqueueBatch(CountFileOp(w, Head(f.script)), f.index,
                                     Head(f.script).tape, FALSE, 0)
                   [] Head(f.script).does = "throw" -> BumpFileOp(w)
                   [] Head(f.script).does = "format" ->
                        EnqueueBatch(DeviceReset(BumpFileOp(w)), f.index,
                                     Head(f.script).tape, FALSE, 0)
                   [] Head(f.script).does = "prepOn" -> SetPrep(w, TRUE)
                   [] Head(f.script).does = "prepOff" -> SetPrep(w, FALSE))
        /\ fibers' = Resumed(f, IF Head(f.script).does = "throw" THEN <<>> ELSE Tail(f.script))
  BY DEF CommandOp
<1>3. /\ f \in Fibers /\ f.index = w.realCmd /\ w.realCmd # Idle /\ w.realCmd \in Nat
      /\ f.script \in Seq(PlanOps) /\ w.realCmd = w.cursor /\ w.cursor < Len(w.entries)
  BY <1>1, <1>2, InFlight
<1>4. PICK op \in Operations : op = Head(f.script)
  BY <1>2, <1>3, ScriptParts
<1>5. op.does \in {"io", "raw", "throw", "format", "prepOn", "prepOff"} /\ op.tape \in Seq(Nat)
  BY <1>2, <1>3, <1>4, ScriptParts
<1>6. PICK i \in Nat : i = w.cursor /\ i = w.realCmd
  BY <1>3
<1>7. w.cursor < Len(plan) /\ plan[w.cursor + 1].kind \notin {"prepOn", "prepOff"}
  <2>1. w.cursor < Len(plan)
    BY <1>1, <1>3, HeldNext
  <2> QED BY <1>1, <1>3, <2>1 DEF Instant
<1>8. ASSUME Fills(w, w'), w'.cursor = w.cursor, w'.prep = w.prep, w'.realCmd = w.realCmd
      PROVE  Instant(w')
  <2>1. \A k \in 1 .. Len(w'.queue) : ~Enclosed(w'.queue[k].entry)
    BY <1>1, <1>7, <1>8, FillsInstant
  <2> QED BY <1>1, <1>8, <2>1 DEF Instant
<1>9. Instant(w')
  <2>1. CASE op.does \in {"io", "raw"}
    <3>1. w' = EnqueueBatch(CountFileOp(w, op), i, op.tape, FALSE, 0)
      BY <1>2, <1>3, <1>4, <1>6, <2>1
    <3>2. Issues(w, w', i, op.tape)
      BY <1>1, <1>5, <3>1, IoIs
    <3>3. Fills(w, w')
      BY <1>1, <1>6, <3>2, IssueFills
    <3> QED BY <1>8, <3>2, <3>3 DEF Issues
  <2>2. CASE op.does = "throw"
    <3>1. w' = BumpFileOp(w)
      BY <1>2, <1>4, <2>2
    <3>2. /\ w'.cursor = w.cursor /\ w'.realCmd = w.realCmd /\ w'.prep = w.prep
          /\ w'.queue = w.queue
      BY <1>1, <3>1, BumpIs
    <3> QED BY <1>1, <3>2, AlikeInstant
  <2>3. CASE op.does = "format"
    <3>1. w' = EnqueueBatch(DeviceReset(BumpFileOp(w)), i, op.tape, FALSE, 0)
      BY <1>2, <1>3, <1>4, <1>6, <2>3
    <3>2. /\ w'.cursor = w.cursor /\ w'.realCmd = w.realCmd /\ w'.prep = w.prep
          /\ Fills(w, w')
      BY <1>1, <1>5, <1>6, <3>1, FormatFills
    <3> QED BY <1>8, <3>2
  <2>4. CASE op.does \in {"prepOn", "prepOff"}
    <3>1. PICK on \in BOOLEAN : w' = SetPrep(w, on)
      BY <1>2, <1>4, <2>4
    <3>2. \A c : ~Within(c) /\ ~Enclosed(c)
      BY <1>1, <1>2, <1>3, <1>4, <2>4, LoudPlan
    <3> QED BY <1>1, <3>1, <3>2, SwitchInstant
  <2> QED BY <1>5, <2>1, <2>2, <2>3, <2>4
<1>10. PICK script : script = IF Head(f.script).does = "throw" THEN <<>> ELSE Tail(f.script)
  OBVIOUS
<1>11. QuietScript(f.script) => QuietScript(script)
  BY <1>2, <1>3, <1>10, QuietParts
<1>12. fibers' = Resumed(f, script)
  BY <1>2, <1>10
<1>13. ASSUME Quiet(plan), NEW g \in fibers' PROVE QuietScript(g.script)
  BY <1>1, <1>3, <1>11, <1>12, <1>13, ResumedQuiet
<1> QED BY <1>9, <1>13 DEF Rests

\* So does what a fiber of an earlier epoch still does.
LEMMA StaleRests == OneBracket /\ BInv /\ StaleOp => Rests
<1> SUFFICES ASSUME OneBracket, BInv, StaleOp PROVE Rests
  OBVIOUS
<1>1. Types /\ w \in Workers /\ plan \in Plans /\ Instant(w) /\ QuietFibers
  BY DEF BInv, WInv, Types
<1>2. PICK f \in fibers :
        IF f.script = <<>> THEN UNCHANGED w /\ fibers' = fibers \ {f}
        ELSE IF Head(f.script).does \in {"prepOn", "prepOff"}
             THEN /\ w' = SetPrep(w, Head(f.script).does = "prepOn")
                  /\ fibers' = Resumed(f, Tail(f.script))
             ELSE /\ w' = Refused(w, f, Head(f.script))
                  /\ fibers' = fibers \ {f}
  BY DEF StaleOp
<1>3. f \in Fibers /\ f.script \in Seq(PlanOps)
  <2>1. f \in Fibers
    BY <1>1 DEF Types
  <2> QED BY <2>1 DEF Fibers
<1>4. Instant(w')
  <2>1. CASE f.script = <<>>
    BY <1>1, <1>2, <2>1
  <2>2. CASE f.script # <<>> /\ Head(f.script).does \in {"prepOn", "prepOff"}
    <3>1. PICK on \in BOOLEAN : on = (Head(f.script).does = "prepOn")
      OBVIOUS
    <3>2. w' = SetPrep(w, on)
      BY <1>2, <2>2, <3>1
    <3>3. \A c : ~Within(c) /\ ~Enclosed(c)
      BY <1>1, <1>3, <2>2, LoudPlan
    <3> QED BY <1>1, <3>2, <3>3, SwitchInstant
  <2>3. CASE f.script # <<>> /\ Head(f.script).does \notin {"prepOn", "prepOff"}
    <3>1. w' = CountFileOp(w, Head(f.script))
      BY <1>2, <2>3 DEF Refused
    <3>2. /\ w'.cursor = w.cursor /\ w'.realCmd = w.realCmd /\ w'.prep = w.prep
          /\ w'.queue = w.queue
      BY <1>1, <3>1, CountIs
    <3> QED BY <1>1, <3>2, AlikeInstant
  <2> QED BY <2>1, <2>2, <2>3
<1>5. PICK script : script = IF f.script = <<>> THEN <<>> ELSE Tail(f.script)
  OBVIOUS
<1>6. QuietScript(f.script) => QuietScript(script)
  BY <1>3, <1>5, QuietParts
<1>7. fibers' = Resumed(f, script) \/ fibers' = fibers \ {f}
  BY <1>2, <1>5
<1>8. ASSUME Quiet(plan), NEW g \in fibers' PROVE QuietScript(g.script)
  BY <1>1, <1>3, <1>6, <1>7, <1>8, ResumedQuiet
<1> QED BY <1>4, <1>8 DEF Rests

\* A command that has settled closes its entry with the bracket off the tape.
LEMMA SettledInstant ==
  ASSUME plan \in Plans, NEW u \in Workers, Sound(u), Held(u), Instant(u), u.realCmd # Idle,
         NEW v, Closing(u, v)
  PROVE  Instant(v)
<1>1. PICK c \in Nat : c = u.cursor /\ u.realCmd = c /\ c < Len(u.entries)
  BY WorkerFields DEF Sound
<1>2. c < Len(plan) /\ plan[c + 1].kind \notin {"prepOn", "prepOff"}
  <2>1. c < Len(plan)
    BY <1>1, HeldNext
  <2> QED BY <1>1, <2>1 DEF Instant
<1>3. PICK tape \in Seq(Nat), ops \in Nat : Closes(u, v, tape, ops)
  BY DEF Closing
<1>4. v \in Workers /\ v.prep = u.prep /\ v.realCmd = Idle /\ v.cursor = c + 1
  BY <1>1, <1>3 DEF Closes
<1>5. Fills(u, v)
  <2>1. u.prep => v.queue = u.queue
    BY <1>3 DEF Closes
  <2>2. ~u.prep => Extends(u.queue, v.queue, u.cursor, TRUE)
    BY <1>3 DEF Closes, Queued
  <2> QED BY <1>4, <2>1, <2>2, ExtendsFills
<1>6. \A k \in 1 .. Len(v.queue) : ~Enclosed(v.queue[k].entry)
  BY <1>1, <1>2, <1>5, FillsInstant
<1>7. Within(c + 1) => v.prep
  <2>1. Within(c + 1) => Within(c)
    BY <1>2, InsideEnds
  <2> QED BY <1>1, <1>4, <2>1 DEF Instant
<1> QED BY <1>4, <1>6, <1>7 DEF Instant

\* So does finish().
LEMMA QuiescedRests == OneBracket /\ BInv /\ CommandQuiesced => Rests
<1> SUFFICES ASSUME OneBracket, BInv, CommandQuiesced PROVE Rests
  OBVIOUS
<1>1. /\ Types /\ OneBody /\ Sound(w) /\ Held(w) /\ w \in Workers /\ plan \in Plans
      /\ Instant(w) /\ QuietFibers
  BY DEF BInv, WInv, Shipped, Types
<1>2. PICK f \in fibers : f.epoch = w.epoch
        /\ LET u == [EnqueueBatch(w, f.index, <<>>, TRUE, w.entryFileOps)
                       EXCEPT !.realCmd = Idle, !.cursor = f.index + 1]
               v == Drain(Pump(u))
           IN  /\ w' = v
               /\ fibers' = (fibers \ {f}) \cup
                    IF v.realCmd = Idle THEN {}
                    ELSE {[epoch  |-> v.epoch, index |-> v.realCmd,
                           script |-> v.entries[v.realCmd + 1].script]}
  BY DEF CommandQuiesced
<1>3. /\ f.index = w.realCmd /\ w.realCmd # Idle
      /\ w.realCmd = w.cursor /\ w.cursor < Len(w.entries)
  BY <1>1, <1>2, InFlight
<1>4. PICK u : u = [EnqueueBatch(w, w.realCmd, <<>>, TRUE, w.entryFileOps)
                      EXCEPT !.realCmd = Idle, !.cursor = w.realCmd + 1]
  OBVIOUS
<1>5. Closing(w, u)
  <2>1. <<>> \in Seq(Nat) /\ w.entryFileOps \in Nat
    BY <1>1, EmptySeq, WorkerFields
  <2>2. Closes(w, u, <<>>, w.entryFileOps)
    BY <1>1, <1>3, <1>4, QuiescedIs
  <2> QED BY <2>1, <2>2 DEF Closing
<1>6. u \in Workers /\ Sound(u) /\ Held(u)
  <2>1. u \in Workers /\ Sound(u) /\ Same(w, u)
    BY <1>1, <1>3, <1>5, ClosingSound
  <2> QED BY <1>1, <2>1, HeldSame DEF Same
<1>7. Instant(u)
  BY <1>1, <1>3, <1>5, SettledInstant
<1>8. PICK v : v = Drain(Pump(u))
  OBVIOUS
<1>9. v \in InstantKept(u)
  <2>1. Pump(u) \in InstantKept(u)
    BY <1>1, <1>6, <1>7, InstantSelf, PumpInstant
  <2> QED BY <1>1, <1>8, <2>1, DrainInstant
<1>10. v \in Workers /\ Sound(v) /\ Held(v) /\ Instant(v)
  BY <1>9 DEF InstantKept, Kept
<1>11. /\ w' = v
       /\ fibers' = (fibers \ {f}) \cup
            IF v.realCmd = Idle THEN {}
            ELSE {[epoch  |-> v.epoch, index |-> v.realCmd,
                   script |-> v.entries[v.realCmd + 1].script]}
  BY <1>2, <1>3, <1>4, <1>8
<1>12. ASSUME Quiet(plan), NEW g \in fibers' PROVE QuietScript(g.script)
  <2>1. CASE g \in fibers
    BY <1>1, <1>12, <2>1 DEF QuietFibers
  <2>2. CASE g \notin fibers
    <3>1. v.realCmd # Idle /\ g.script = v.entries[v.realCmd + 1].script
      BY <1>11, <1>12, <2>2
    <3>2. QuietScript(v.entries[v.realCmd + 1].script)
      BY <1>1, <1>10, <1>12, <3>1, NewQuiet
    <3> QED BY <3>1, <3>2
  <2> QED BY <2>1, <2>2
<1> QED BY <1>10, <1>11, <1>12 DEF Rests

\* Every step keeps the bracket off the tape.
LEMMA BStep ==
  ASSUME OneBracket, BInv, [Next]_vars
  PROVE  BInv'
<1>1. WInv /\ Instant(w) /\ QuietFibers
  BY DEF BInv
<1>2. WInv'
  BY <1>1, WStep
<1>3. plan' = plan
  BY DEF Next, Worker, HandleGrant, HandleEntries, HandleReset, Receives, RunnerLands, CommandOp,
     CommandQuiesced, StaleOp, Coordinator, SendEntries, SendGrant, SendReset, ReceiveAck, Post,
     vars
<1>4. Rests
  <2>1. CASE Worker
    BY <2>1, GrantRests, EntriesRest, ResetRests, LandingRests, OpRests, QuiescedRests,
       StaleRests DEF Worker
  <2>2. CASE Coordinator \/ UNCHANGED vars
    <3>1. w' = w /\ fibers' = fibers
      BY <2>2 DEF Coordinator, SendEntries, SendGrant, SendReset, ReceiveAck, Post, vars
    <3> QED BY <1>1, <3>1, SameRests
  <2> QED BY <2>1, <2>2 DEF Next
<1>5. Instant(w)'
  BY <1>3, <1>4 DEF Rests, Instant, Within, Enclosed, Ends
<1>6. QuietFibers'
  BY <1>3, <1>4 DEF Rests, QuietFibers, Quiet
<1> QED BY <1>2, <1>5, <1>6 DEF BInv

\* In the initial states no bracket is begun.
LEMMA BInit == Init => BInv
<1> SUFFICES ASSUME Init PROVE BInv
  OBVIOUS
<1>1. PICK runner \in BOOLEAN : w = Fresh(0, runner)
  BY DEF Init
<1>2. Instant(w)
  BY <1>1, FreshInstant
<1>3. QuietFibers
  BY DEF Init, QuietFibers
<1> QED BY <1>2, <1>3, WInit DEF BInv

\* The boot bracket is instant: nothing from the one end of it to the other is ever on
\* the tape, whatever commands, formats, grants and resets come in between.
THEOREM InstantBracket ==
  ASSUME OneBracket
  PROVE  Spec => []BracketIsInstant
<1>1. Init => BInv
  BY BInit
<1>2. BInv /\ [Next]_vars => BInv'
  BY BStep
<1>3. BInv => BracketIsInstant
  <2> SUFFICES ASSUME BInv, NEW on \in DOMAIN plan, NEW off \in DOMAIN plan,
                      plan[on].kind = "prepOn", plan[off].kind = "prepOff",
                      NEW k \in DOMAIN w.queue, w.queue[k].entry + 1 \in on .. off
               PROVE  FALSE
    BY DEF BracketIsInstant
  <2>1. w \in Workers /\ plan \in Plans /\ Instant(w)
    BY DEF BInv, WInv, Types
  <2>2. PICK q \in Seq(Steps), p \in Seq(PlanEntries) : q = w.queue /\ p = plan
    BY <2>1, WorkerFields, PlanTypes
  <2>3. /\ k \in 1 .. Len(w.queue) /\ on \in 1 .. Len(plan) /\ off \in 1 .. Len(plan)
        /\ on <= w.queue[k].entry + 1 /\ w.queue[k].entry + 1 <= off
    BY <2>2
  <2>4. Enclosed(w.queue[k].entry)
    BY <2>3 DEF Enclosed, Ends
  <2> QED BY <2>1, <2>3, <2>4 DEF Instant
<1> QED BY <1>1, <1>2, <1>3, PTL DEF Spec

-----------------------------------------------------------------------------
(* What boot did is not displayed *)

\* A plan that boots begins with one end of the bracket, switches metering in no
\* command, and has churn past the other end, or source that does not compile.
BootFirst ==
  \A p \in Plans : \A j \in 1 .. Len(p) : p[j].kind = "prepOff" =>
    /\ p[1].kind = "prepOn"
    /\ \A i \in j + 1 .. Len(p) :
         p[i].kind = "churn" \/ (p[i].kind = "garbled" /\ p[i].script = <<>>)
    /\ Quiet(p)

\* The file operations among the entries from lo to hi.
Doing(lo, hi) == {i \in lo .. hi : IsFileOp(plan[i])}

\* A step of the queue credits one operation if it closes an entry that counts as one.
Priced(q) ==
  \A k \in 1 .. Len(q) :
    q[k].ops = IF q[k].last /\ IsFileOp(plan[q[k].entry + 1]) THEN 1 ELSE 0

\* Up to the end of the bracket, entry j, nothing is on the tape; past it the tape is in
\* order, and what was played of it is displayed.
Booted(u, j) ==
  /\ u.realCmd # Idle => plan[u.cursor + 1].kind = "command"
  /\ u.cursor < j =>
       Len(u.queue) = 0 /\ (u.cursor # 0 => u.prep) /\ u.drained = u.cursor - 1
  /\ j <= u.cursor =>
       /\ ~u.prep /\ j <= u.drained + 1
       /\ InOrder(u.queue, u.cursor, u.drained, TRUE)
       /\ Priced(u.queue)
       /\ u.dispFileOps = Cardinality(Doing(j + 1, u.drained + 1))

\* v is not behind u.
Onward(u, v) == u.cursor <= v.cursor /\ u.drained <= v.drained

\* A worker that boots never falls back.
Advances(u, v) ==
  \A j \in 1 .. Len(plan) : plan[j].kind = "prepOff" => Onward(u, v)

Boots(u)   == \A j \in 1 .. Len(plan) : plan[j].kind = "prepOff" => Booted(u, j)

\* A plan that boots has one bracket.
LEMMA BootOnce == BootFirst => OneBracket
<1> SUFFICES ASSUME BootFirst, NEW p \in Plans, NEW on \in 1 .. Len(p), NEW off \in 1 .. Len(p),
                    Ends(p, on, off)
             PROVE  (\A m \in on + 1 .. off - 1 : p[m].kind # "prepOff") /\ Quiet(p)
  BY DEF OneBracket
<1>1. Quiet(p)
  BY DEF BootFirst, Ends
<1>2. ASSUME NEW m \in on + 1 .. off - 1, p[m].kind = "prepOff" PROVE FALSE
  <2>1. m \in 1 .. Len(p) /\ off \in m + 1 .. Len(p)
    OBVIOUS
  <2>2. p[off].kind \in {"churn", "garbled"}
    BY <1>2, <2>1 DEF BootFirst
  <2> QED BY <2>2 DEF Ends
<1> QED BY <1>1, <1>2

\* What entries did are numbers of them, one interval after the other.
LEMMA DoingJoins ==
  ASSUME NEW a \in Int, NEW b \in Int, NEW c \in Int, a <= b + 1, b <= c
  PROVE  /\ IsFiniteSet(Doing(a, b)) /\ Cardinality(Doing(a, b)) \in Nat
         /\ Cardinality(Doing(a, c)) = Cardinality(Doing(a, b)) + Cardinality(Doing(b + 1, c))
<1>1. \A x, y \in Int : IsFiniteSet(Doing(x, y)) /\ Cardinality(Doing(x, y)) \in Nat
  <2> SUFFICES ASSUME NEW x \in Int, NEW y \in Int
               PROVE  IsFiniteSet(Doing(x, y)) /\ Cardinality(Doing(x, y)) \in Nat
    OBVIOUS
  <2>1. IsFiniteSet(x .. y) /\ Doing(x, y) \in SUBSET (x .. y)
    BY FS_Interval DEF Doing
  <2>2. IsFiniteSet(Doing(x, y))
    BY <2>1, FS_Subset
  <2> QED BY <2>2, FS_CardinalityType
<1>2. Doing(a, c) = Doing(a, b) \cup Doing(b + 1, c) /\ Doing(a, b) \cap Doing(b + 1, c) = {}
  BY DEF Doing
<1>3. IsFiniteSet(Doing(b + 1, c)) /\ Cardinality(Doing(b + 1, c)) \in Nat
  BY <1>1
<1>4. IsFiniteSet(Doing(a, b)) /\ Cardinality(Doing(a, b)) \in Nat
  BY <1>1
<1>5. Cardinality(Doing(a, b) \cup Doing(b + 1, c))
        = Cardinality(Doing(a, b)) + Cardinality(Doing(b + 1, c)) - Cardinality({})
  BY <1>2, <1>3, <1>4, FS_Union
<1>6. Cardinality({}) = 0
  BY FS_EmptySet
<1> QED BY <1>2, <1>3, <1>4, <1>5, <1>6

\* One entry.
LEMMA DoingOne ==
  ASSUME NEW e \in Int
  PROVE  /\ Cardinality(Doing(e, e)) = IF IsFileOp(plan[e]) THEN 1 ELSE 0
         /\ Cardinality(Doing(e + 1, e)) = 0
<1>1. Doing(e + 1, e) = {}
  BY DEF Doing
<1>2. Cardinality({}) = 0 /\ IsFiniteSet({})
  BY FS_EmptySet
<1>3. CASE IsFileOp(plan[e])
  <2>1. Doing(e, e) = {e}
    BY <1>3 DEF Doing
  <2>2. Cardinality({e}) = 1
    BY FS_Singleton
  <2> QED BY <1>1, <1>2, <1>3, <2>1, <2>2
<1>4. CASE ~(IsFileOp(plan[e]))
  <2>1. Doing(e, e) = {}
    BY <1>4 DEF Doing
  <2> QED BY <1>1, <1>2, <1>4, <2>1
<1> QED BY <1>3, <1>4

\* One more step: its marker, if it is one, is the next entry's.
LEMMA ClosedNext ==
  ASSUME NEW q \in Seq(Steps), NEW c \in Nat, NEW d \in Int, NEW idle, InOrder(q, c, d, idle),
         NEW k \in Nat, k < Len(q)
  PROVE  /\ LastClosed(q, k, d) \in Int /\ d <= LastClosed(q, k, d)
         /\ LastClosed(q, k + 1, d) = IF q[k + 1].last THEN q[k + 1].entry
                                                       ELSE LastClosed(q, k, d)
         /\ q[k + 1].last => q[k + 1].entry = LastClosed(q, k, d) + 1
<1>1. /\ Len(q) \in Nat /\ \A n \in 1 .. Len(q) : q[n].entry \in Nat
      /\ k \in 0 .. Len(q) /\ k + 1 \in 0 .. Len(q) /\ k + 1 \in 1 .. Len(q)
  BY StepFields
<1>2. /\ \A n \in 1 .. Len(q) : q[n].last => d < q[n].entry /\ q[n].entry < c
      /\ \A e \in d + 1 .. c - 1 : \E n \in 1 .. Len(q) : q[n].last /\ q[n].entry = e
      /\ \A m, n \in 1 .. Len(q) :
           m < n => q[m].entry <= q[n].entry /\ (q[m].last => q[m].entry < q[n].entry)
  BY DEF InOrder
<1>3. PICK z : z = LastClosed(q, k, d)
  OBVIOUS
<1>4. \/ z = d /\ \A n \in 1 .. k : ~q[n].last
      \/ \E x \in 1 .. k : /\ q[x].last /\ z = q[x].entry
                           /\ \A n \in x + 1 .. k : ~q[n].last
  BY <1>1, <1>3, LastClosedIs
<1>5. z \in Int /\ d <= z /\ \A n \in 1 .. k : q[n].last => q[n].entry <= z
  <2>1. CASE z = d /\ \A n \in 1 .. k : ~q[n].last
    BY <2>1
  <2>2. ASSUME NEW x \in 1 .. k, q[x].last, z = q[x].entry, \A n \in x + 1 .. k : ~q[n].last
        PROVE  z \in Int /\ d <= z /\ \A n \in 1 .. k : q[n].last => q[n].entry <= z
    <3>1. x \in 1 .. Len(q)
      BY <1>1
    <3>2. z \in Nat /\ d < z
      BY <1>1, <1>2, <2>2, <3>1
    <3>3. ASSUME NEW n \in 1 .. k, q[n].last PROVE q[n].entry <= z
      <4>1. n \in 1 .. Len(q) /\ (n < x \/ n = x \/ n \in x + 1 .. k)
        BY <1>1, <3>1
      <4> QED BY <1>1, <1>2, <2>2, <3>1, <3>3, <4>1
    <3> QED BY <3>2, <3>3
  <2> QED BY <1>4, <2>1, <2>2
<1>6. LastClosed(q, k + 1, d) = IF q[k + 1].last THEN q[k + 1].entry ELSE z
  <2>1. PICK y : y = LastClosed(q, k + 1, d)
    OBVIOUS
  <2>2. \/ y = d /\ \A n \in 1 .. k + 1 : ~q[n].last
        \/ \E x \in 1 .. k + 1 : /\ q[x].last /\ y = q[x].entry
                                 /\ \A n \in x + 1 .. k + 1 : ~q[n].last
    BY <1>1, <2>1, LastClosedIs
  <2>3. CASE q[k + 1].last
    <3>1. PICK x \in 1 .. k + 1 : q[x].last /\ y = q[x].entry /\ \A n \in x + 1 .. k + 1 : ~q[n].last
      BY <2>2, <2>3
    <3>2. k + 1 \notin x + 1 .. k + 1
      BY <2>3, <3>1
    <3>3. x = k + 1
      BY <3>2
    <3> QED BY <2>1, <2>3, <3>1, <3>3
  <2>4. CASE ~q[k + 1].last
    <3>1. ASSUME NEW x \in 1 .. k + 1, q[x].last, \A n \in x + 1 .. k + 1 : ~q[n].last
          PROVE  x \in 1 .. k /\ \A n \in x + 1 .. k : ~q[n].last
      <4>1. x # k + 1
        BY <2>4, <3>1
      <4> QED BY <3>1, <4>1
    <3>2. ASSUME NEW x \in 1 .. k, NEW y2 \in 1 .. k, q[x].last, q[y2].last,
                 \A n \in x + 1 .. k : ~q[n].last, \A n \in y2 + 1 .. k : ~q[n].last
          PROVE  x = y2
      <4>1. ~(x < y2)
        <5> SUFFICES ASSUME x < y2 PROVE FALSE
          OBVIOUS
        <5>1. y2 \in x + 1 .. k
          OBVIOUS
        <5> QED BY <3>2, <5>1
      <4>2. ~(y2 < x)
        <5> SUFFICES ASSUME y2 < x PROVE FALSE
          OBVIOUS
        <5>1. x \in y2 + 1 .. k
          OBVIOUS
        <5> QED BY <3>2, <5>1
      <4> QED BY <4>1, <4>2
    <3>3. CASE \A n \in 1 .. k : ~q[n].last
      <4>1. z = d
        BY <1>4, <3>3
      <4>2. y = d
        BY <2>2, <3>1, <3>3
      <4> QED BY <2>1, <2>4, <4>1, <4>2
    <3>4. CASE ~(\A n \in 1 .. k : ~q[n].last)
      <4>1. PICK x \in 1 .. k : q[x].last /\ z = q[x].entry /\ \A n \in x + 1 .. k : ~q[n].last
        BY <1>4, <3>4
      <4>2. PICK x2 \in 1 .. k + 1 : q[x2].last /\ y = q[x2].entry
                                     /\ \A n \in x2 + 1 .. k + 1 : ~q[n].last
        <5>1. ~(\A n \in 1 .. k + 1 : ~q[n].last)
          BY <3>4
        <5> QED BY <2>2, <5>1
      <4>3. x2 \in 1 .. k /\ \A n \in x2 + 1 .. k : ~q[n].last
        BY <3>1, <4>2
      <4>4. x = x2
        BY <3>2, <4>1, <4>2, <4>3
      <4> QED BY <2>1, <2>4, <4>1, <4>2, <4>4
    <3> QED BY <3>3, <3>4
  <2> QED BY <2>3, <2>4
<1>7. ASSUME q[k + 1].last PROVE q[k + 1].entry = z + 1
  <2>1. PICK e \in Nat : e = q[k + 1].entry
    BY <1>1
  <2>2. d < e /\ e < c
    BY <1>1, <1>2, <1>7, <2>1
  <2>3. z < e
    <3>1. CASE z = d
      BY <2>2, <3>1
    <3>2. ASSUME NEW x \in 1 .. k, q[x].last, z = q[x].entry PROVE z < e
      <4>1. x \in 1 .. Len(q) /\ x < k + 1
        BY <1>1
      <4> QED BY <1>1, <1>2, <2>1, <3>2, <4>1
    <3> QED BY <1>4, <3>1, <3>2
  <2>4. z + 1 \in d + 1 .. c - 1
    BY <1>5, <2>2, <2>3
  <2>5. PICK n \in 1 .. Len(q) : q[n].last /\ q[n].entry = z + 1
    BY <1>2, <2>4
  <2>6. ~(n \in 1 .. k)
    BY <1>5, <2>5
  <2>7. ~(k + 1 < n)
    <3> SUFFICES ASSUME k + 1 < n PROVE FALSE
      OBVIOUS
    <3>1. e < z + 1
      BY <1>1, <1>2, <1>7, <2>1, <2>5
    <3> QED BY <1>5, <2>3, <3>1
  <2>8. n = k + 1
    BY <2>6, <2>7
  <2> QED BY <2>5, <2>8
<1> QED BY <1>3, <1>5, <1>6, <1>7

\* What the first k steps credit is what the entries that they close did.
LEMMA CreditsOfPart ==
  ASSUME NEW q \in Seq(Steps), NEW c \in Nat, NEW d \in Int, NEW idle, InOrder(q, c, d, idle),
         Priced(q), NEW k \in 0 .. Len(q)
  PROVE  /\ LastClosed(q, k, d) \in Int /\ d <= LastClosed(q, k, d)
         /\ Credits(SubSeq(q, 1, k)) = Cardinality(Doing(d + 2, LastClosed(q, k, d) + 1))
<1> DEFINE Right(n) == /\ LastClosed(q, n, d) \in Int /\ d <= LastClosed(q, n, d)
                       /\ Credits(SubSeq(q, 1, n)) = Cardinality(Doing(d + 2, LastClosed(q, n, d) + 1))
           T == {n \in Nat : n <= Len(q) => Right(n)}
<1>0. Len(q) \in Nat
  OBVIOUS
<1>1. 0 \in T
  <2>1. LastClosed(q, 0, d) = d
    BY DEF LastClosed
  <2>2. SubSeq(q, 1, 0) = <<>>
    OBVIOUS
  <2>3. PICK x \in Int : x = d + 1 /\ x + 1 = d + 2
    OBVIOUS
  <2>4. Cardinality(Doing(x + 1, x)) = 0
    BY DoingOne
  <2>5. Credits(SubSeq(q, 1, 0)) = 0
    BY <2>2, UnplayedOfNothing
  <2>6. Right(0)
    BY <2>1, <2>3, <2>4, <2>5
  <2> QED BY <2>6
<1>2. \A n \in Nat : n \in T => n + 1 \in T
  <2> SUFFICES ASSUME NEW n \in Nat, n \in T, n + 1 <= Len(q) PROVE Right(n + 1)
    OBVIOUS
  <2>1. Right(n) /\ n < Len(q)
    BY <1>0
  <2>2. PICK z \in Int : z = LastClosed(q, n, d) /\ d <= z
    BY <2>1
  <2>3. /\ LastClosed(q, n + 1, d) = IF q[n + 1].last THEN q[n + 1].entry ELSE z
        /\ q[n + 1].last => q[n + 1].entry = z + 1
    BY <2>1, <2>2, ClosedNext
  <2>4. n + 1 \in 1 .. Len(q)
    BY <1>0, <2>1
  <2>5. SubSeq(q, 1, n + 1) = SubSeq(q, 1, n) \o <<q[n + 1]>>
    <3>1. 1 \in 1 .. Len(q) /\ n + 1 \in 1 .. Len(q) /\ (n + 1) - 1 = n
      BY <1>0, <2>4
    <3> QED BY <3>1, SubSeqRecursiveSecond
  <2>6. Credits(SubSeq(q, 1, n + 1)) = Credits(SubSeq(q, 1, n)) + q[n + 1].ops
    <3>1. n \in 0 .. Len(q)
      BY <1>0, <2>1
    <3>2. q[n + 1] \in Steps /\ SubSeq(q, 1, n) \in Seq(Steps) /\ <<q[n + 1]>> \in Seq(Steps)
      BY <2>4, <3>1, UnplayedOfParts
    <3>3. Credits(<<q[n + 1]>>) = q[n + 1].ops
      BY <3>2, UnplayedOfOne
    <3>4. Credits(SubSeq(q, 1, n) \o <<q[n + 1]>>) = Credits(SubSeq(q, 1, n)) + Credits(<<q[n + 1]>>)
      BY <3>2, UnplayedOfJoin
    <3> QED BY <2>5, <3>3, <3>4
  <2>7. q[n + 1].ops = IF q[n + 1].last /\ IsFileOp(plan[q[n + 1].entry + 1]) THEN 1 ELSE 0
    BY <2>4 DEF Priced
  <2>8. Credits(SubSeq(q, 1, n)) = Cardinality(Doing(d + 2, z + 1))
    BY <2>1, <2>2
  <2>9. CASE q[n + 1].last
    <3>1. LastClosed(q, n + 1, d) = z + 1
      BY <2>3, <2>9
    <3>2. Cardinality(Doing(d + 2, z + 2))
            = Cardinality(Doing(d + 2, z + 1)) + Cardinality(Doing((z + 1) + 1, z + 2))
      BY <2>2, DoingJoins
    <3>3. Cardinality(Doing(z + 2, z + 2)) = IF IsFileOp(plan[z + 2]) THEN 1 ELSE 0
      <4>1. z + 2 \in Int
        BY <2>2
      <4> QED BY <4>1, DoingOne
    <3>4. q[n + 1].ops = IF IsFileOp(plan[z + 2]) THEN 1 ELSE 0
      <4>1. q[n + 1].entry + 1 = z + 2
        BY <2>2, <2>3, <2>9
      <4> QED BY <2>7, <2>9, <4>1
    <3>5. (z + 1) + 1 = z + 2 /\ z + 1 \in Int /\ d <= z + 1
      BY <2>2
    <3> QED BY <2>6, <2>8, <3>1, <3>2, <3>3, <3>4, <3>5
  <2>10. CASE ~q[n + 1].last
    <3>1. LastClosed(q, n + 1, d) = z /\ q[n + 1].ops = 0
      BY <2>3, <2>7, <2>10
    <3>2. Cardinality(Doing(d + 2, z + 1)) \in Nat
      <4>1. d + 2 <= (z + 1) + 1
        BY <2>2
      <4> QED BY <2>2, <4>1, DoingJoins
    <3>3. Credits(SubSeq(q, 1, n + 1)) = Cardinality(Doing(d + 2, z + 1))
      BY <2>6, <2>8, <3>1, <3>2
    <3> QED BY <2>2, <3>1, <3>3
  <2> QED BY <2>9, <2>10
<1>3. k \in T
  <2> HIDE DEF T
  <2> QED BY <1>1, <1>2, SetInduction
<1> QED BY <1>0, <1>3

\* A round of pump() leaves the end of the bracket as it should be, and does not fall back.
LEMMA RoundBooted ==
  ASSUME BootFirst, plan \in Plans, NEW u \in Workers, PumpGoesOn(u), Held(u),
         NEW j \in 1 .. Len(plan), plan[j].kind = "prepOff", Booted(u, j)
  PROVE  Booted(PumpOnce(u), j) /\ Onward(u, PumpOnce(u))
<1>1. PICK v : v = PumpOnce(u)
  OBVIOUS
<1>2. u.realCmd = Idle /\ u.cursor < Len(u.entries)
  BY DEF PumpGoesOn
<1>3. PICK c \in Nat : c = u.cursor
  BY WorkerFields
<1>4. c < Len(plan) /\ u.entries[c + 1] = plan[c + 1]
  BY <1>2, <1>3, HeldNext
<1>5. Len(plan) \in Nat /\ u.drained \in Int /\ u.queue \in Seq(Steps)
  <2>1. plan \in Seq(PlanEntries)
    BY PlanTypes
  <2> QED BY <2>1, WorkerFields
<1>6. /\ plan[1].kind = "prepOn" /\ j # 1
      /\ \A i \in j + 1 .. Len(plan) :
           plan[i].kind = "churn" \/ (plan[i].kind = "garbled" /\ plan[i].script = <<>>)
  BY DEF BootFirst
<1>7. CASE ~AtEnd(u)
  <2>0. plan[c + 1].kind \notin {"prepOn", "prepOff"}
    BY <1>3, <1>4, <1>7 DEF AtEnd
  <2>1. CASE c < j
    <3>1. c # 0 /\ c + 1 # j
      BY <1>6, <2>0
    <3>2. Len(u.queue) = 0 /\ u.prep /\ u.drained = c - 1
      BY <1>3, <2>1, <3>1 DEF Booted
    <3>3. CASE Closing(u, v)
      <4>1. v.queue = u.queue /\ v.prep = u.prep /\ v.realCmd = Idle /\ v.cursor = c + 1
            /\ v.drained = c
        BY <1>3, <3>2, <3>3 DEF Closing, Closes
      <4>2. c + 1 < j /\ ~(j <= c + 1) /\ c = (c + 1) - 1
        BY <2>1, <3>1
      <4>3. Onward(u, v)
        BY <1>3, <3>2, <4>1 DEF Onward
      <4> QED BY <1>1, <3>2, <4>1, <4>2, <4>3 DEF Booted
    <3>4. CASE Starts(u, v)
      <4>1. v.queue = u.queue /\ v.prep = u.prep /\ v.cursor = c /\ v.drained = c - 1
        BY <1>3, <3>2, <3>4 DEF Starts
      <4>2. plan[c + 1].kind = "command"
        <5>1. v.realCmd # Idle /\ v.realCmd = c
          BY <1>3, <3>4 DEF Starts, Idle
        <5>2. u.entries[u.cursor + 1].kind = "command"
          <6> SUFFICES ASSUME u.entries[u.cursor + 1].kind # "command" PROVE FALSE
            OBVIOUS
          <6>1. u.entries[u.cursor + 1].kind \in {"churn", "garbled"}
            <7>1. u.entries[u.cursor + 1].kind
                    \in {"churn", "command", "garbled", "prepOn", "prepOff"}
              BY <1>2, NextEntry
            <7> QED BY <1>7, <7>1 DEF AtEnd
          <6>2. PICK script \in Seq(Operations) : script = u.entries[u.cursor + 1].script
            BY <1>2, NextEntry
          <6>3. CASE u.entries[u.cursor + 1].kind = "churn"
            <7>1. v = ExecEntry(u, u.cursor, script)
              BY <1>1, <6>2, <6>3 DEF PumpOnce
            <7>2. v.realCmd = Idle
              BY <1>2, <7>1, ExecEntryIs DEF Closes
            <7> QED BY <5>1, <7>2
          <6>4. CASE u.entries[u.cursor + 1].kind = "garbled"
            <7>1. v = [EnqueueBatch([u EXCEPT !.entryFileOps = 0], u.cursor, <<>>, TRUE, 0)
                         EXCEPT !.cursor = u.cursor + 1, !.parked = TRUE]
              BY <1>1, <6>4 DEF PumpOnce
            <7>2. v.realCmd = Idle
              BY <1>2, <7>1, GarbledIs DEF Closes
            <7> QED BY <5>1, <7>2
          <6> QED BY <6>1, <6>3, <6>4
        <5> QED BY <1>3, <1>4, <5>2
      <4>3. Onward(u, v)
        BY <1>3, <3>2, <4>1 DEF Onward
      <4> QED BY <1>1, <2>1, <3>2, <4>1, <4>2, <4>3 DEF Booted
    <3> QED BY <1>1, <1>7, <3>3, <3>4, RoundIs
  <2>2. CASE j <= c
    <3>1. c + 1 \in j + 1 .. Len(plan)
      BY <1>4, <1>5, <2>2
    <3>2. plan[c + 1].kind = "churn" \/ (plan[c + 1].kind = "garbled" /\ plan[c + 1].script = <<>>)
      BY <1>6, <3>1
    <3>3. PICK ops \in Nat : ops = IF IsFileOp(plan[c + 1]) THEN 1 ELSE 0
      OBVIOUS
    <3>4. \E tape \in Seq(Nat) : Closes(u, v, tape, ops)
      <4>1. CASE plan[c + 1].kind = "churn"
        <5>1. PICK script \in Seq(Operations) : script = u.entries[u.cursor + 1].script
          BY <1>2, NextEntry
        <5>2. v = ExecEntry(u, u.cursor, script)
          BY <1>1, <1>3, <1>4, <4>1, <5>1 DEF PumpOnce
        <5>3. ops = FileOps(script)
          BY <1>3, <1>4, <3>3, <5>1 DEF IsFileOp, FileOps
        <5>4. PICK tape \in Seq(Nat), n \in Nat :
                n = FileOps(script)
                /\ Closes(u, ExecEntry(u, u.cursor, script), tape, n)
          BY <1>2, ExecEntryIs
        <5> QED BY <5>2, <5>3, <5>4
      <4>2. CASE plan[c + 1].kind = "garbled" /\ plan[c + 1].script = <<>>
        <5>1. v = [EnqueueBatch([u EXCEPT !.entryFileOps = 0], u.cursor, <<>>, TRUE, 0)
                     EXCEPT !.cursor = u.cursor + 1, !.parked = TRUE]
          BY <1>1, <1>3, <1>4, <4>2 DEF PumpOnce
        <5>2. ops = 0
          BY <3>3, <4>2 DEF IsFileOp
        <5> QED BY <1>2, <5>1, <5>2, GarbledIs
      <4> QED BY <3>2, <4>1, <4>2
    <3>5. PICK tape \in Seq(Nat) : Closes(u, v, tape, ops)
      BY <3>4
    <3>6. /\ ~u.prep /\ j <= u.drained + 1 /\ InOrder(u.queue, c, u.drained, TRUE)
          /\ Priced(u.queue) /\ u.dispFileOps = Cardinality(Doing(j + 1, u.drained + 1))
      BY <1>3, <2>2 DEF Booted
    <3>7. /\ ~v.prep /\ v.drained = u.drained /\ v.dispFileOps = u.dispFileOps
          /\ v.realCmd = Idle /\ v.cursor = c + 1
          /\ Queued(u.queue, v.queue, c, tape, TRUE, ops)
      BY <1>3, <3>5, <3>6 DEF Closes
    <3>8. PICK q \in Seq(Steps), r \in Seq(Steps) : q = u.queue /\ r = v.queue
      BY <1>5, <3>7 DEF Queued
    <3>9. /\ Extends(q, r, c, TRUE)
          /\ \A k \in Len(q) + 1 .. Len(r) : r[k].ops = IF r[k].last THEN ops ELSE 0
      BY <3>7, <3>8 DEF Queued
    <3>10. InOrder(r, c + 1, u.drained, TRUE)
      BY <1>5, <3>6, <3>8, <3>9, OrderClosed
    <3>11. Priced(r)
      <4> SUFFICES ASSUME NEW k \in 1 .. Len(r)
                   PROVE  r[k].ops = IF r[k].last /\ IsFileOp(plan[r[k].entry + 1])
                                     THEN 1 ELSE 0
        BY DEF Priced
      <4>1. k \in 1 .. Len(q) \/ k \in Len(q) + 1 .. Len(r)
        OBVIOUS
      <4>2. CASE k \in 1 .. Len(q)
        <5>1. r[k] = q[k]
          BY <3>9, <4>2 DEF Extends
        <5>2. q[k].ops = IF q[k].last /\ IsFileOp(plan[q[k].entry + 1]) THEN 1 ELSE 0
          BY <3>6, <3>8, <4>2 DEF Priced
        <5> QED BY <5>1, <5>2
      <4>3. CASE k \in Len(q) + 1 .. Len(r)
        <5>1. r[k].entry = c /\ r[k].ops = IF r[k].last THEN ops ELSE 0
          BY <3>9, <4>3 DEF Extends
        <5> QED BY <3>3, <5>1
      <4> QED BY <4>1, <4>2, <4>3
    <3>12. v.realCmd = Idle /\ ~(v.cursor < j)
      BY <1>5, <2>2, <3>7
    <3>13. InOrder(v.queue, v.cursor, v.drained, TRUE) /\ Priced(v.queue)
      BY <3>7, <3>8, <3>10, <3>11
    <3>14. j <= v.drained + 1 /\ v.dispFileOps = Cardinality(Doing(j + 1, v.drained + 1))
      BY <3>6, <3>7
    <3>15. Onward(u, v)
      BY <1>3, <1>5, <3>7 DEF Onward
    <3> QED BY <1>1, <3>7, <3>12, <3>13, <3>14, <3>15 DEF Booted
  <2> QED BY <1>5, <2>1, <2>2
<1>8. CASE AtEnd(u)
  <2>1. Brackets(u, v)
    BY <1>1, <1>8, RoundIs
  <2>2. /\ v.realCmd = Idle /\ v.cursor = c + 1 /\ v.queue = u.queue /\ v.drained = c
        /\ v.prep = (plan[c + 1].kind = "prepOn") /\ (~v.prep => v.dispFileOps = 0)
        /\ plan[c + 1].kind \in {"prepOn", "prepOff"}
    BY <1>2, <1>3, <1>4, <1>8, <2>1 DEF Brackets, AtEnd
  <2>3. c < j
    <3> SUFFICES ASSUME j <= c PROVE FALSE
      BY <1>5
    <3>1. c + 1 \in j + 1 .. Len(plan)
      BY <1>4, <1>5
    <3> QED BY <1>6, <2>2, <3>1
  <2>4. Len(u.queue) = 0 /\ u.drained = c - 1
    BY <1>3, <2>3 DEF Booted
  <2>7. Onward(u, v)
    BY <1>3, <2>2, <2>4 DEF Onward
  <2>5. CASE c + 1 = j
    <3>1. ~v.prep /\ v.dispFileOps = 0
      BY <2>2, <2>5
    <3>2. PICK q \in Seq(Steps) : q = v.queue /\ Len(q) = 0
      BY <1>5, <2>2, <2>4
    <3>3. InOrder(q, c + 1, c, TRUE) /\ Priced(q)
      BY <3>2 DEF InOrder, Priced
    <3>4. Cardinality(Doing(j + 1, c + 1)) = 0
      <4>1. Cardinality(Doing(j + 1, j)) = 0
        BY DoingOne
      <4> QED BY <2>5, <4>1
    <3>5. InOrder(v.queue, v.cursor, v.drained, TRUE) /\ Priced(v.queue)
      BY <2>2, <3>2, <3>3
    <3>6. ~(v.cursor < j) /\ j <= v.drained + 1
      BY <1>5, <2>2, <2>5
    <3>7. v.dispFileOps = Cardinality(Doing(j + 1, v.drained + 1))
      BY <2>2, <3>1, <3>4
    <3> QED BY <1>1, <2>2, <2>7, <3>1, <3>5, <3>6, <3>7 DEF Booted
  <2>6. CASE c + 1 # j
    <3>1. c + 1 < j
      BY <2>3, <2>6
    <3>2. v.prep
      <4> SUFFICES ASSUME plan[c + 1].kind = "prepOff" PROVE FALSE
        BY <2>2
      <4>1. c + 1 \in 1 .. Len(plan) /\ j \in (c + 1) + 1 .. Len(plan)
        BY <1>4, <1>5, <3>1
      <4>2. plan[j].kind \in {"churn", "garbled"}
        BY <4>1 DEF BootFirst
      <4> QED BY <4>2
    <3>3. v.cursor < j /\ ~(j <= v.cursor) /\ Len(v.queue) = 0 /\ v.drained = v.cursor - 1
      BY <1>5, <2>2, <2>4, <3>1
    <3> QED BY <1>1, <2>2, <2>7, <3>2, <3>3 DEF Booted
  <2> QED BY <2>5, <2>6
<1> QED BY <1>7, <1>8

\* What is not of the bracket does not matter to it.
LEMMA AlikeBooted ==
  ASSUME NEW u, NEW v, Boots(u), v.cursor = u.cursor, v.prep = u.prep, v.queue = u.queue,
         v.realCmd = u.realCmd, v.drained = u.drained, v.dispFileOps = u.dispFileOps
  PROVE  Boots(v)
BY DEF Boots, Booted

\* Playing displays what the entries that it closes did.
LEMMA SpentBooted ==
  ASSUME NEW u \in Workers, NEW j \in 1 .. Len(plan), Booted(u, j),
         NEW v, NEW k \in Nat, NEW a \in Nat, Spent(u, v, k, a)
  PROVE  Booted(v, j) /\ Onward(u, v)
<1>1. /\ v.cursor = u.cursor /\ v.prep = u.prep /\ v.realCmd = u.realCmd
      /\ k \in 0 .. Len(u.queue) /\ v.drained = LastClosed(u.queue, k, u.drained)
      /\ v.dispFileOps = u.dispFileOps + Credits(SubSeq(u.queue, 1, k))
  BY DEF Spent
<1>2. PICK q \in Seq(Steps) : q = u.queue
  BY WorkerFields
<1>3. PICK r \in Seq(Steps) : r = v.queue /\ Remains(q, r, k, a)
  BY <1>2 DEF Spent, Remains
<1>4. PICK c \in Nat, d \in Int : c = u.cursor /\ d = u.drained
  BY WorkerFields
<1>5. /\ Len(q) \in Nat /\ Len(r) = Len(q) - k
      /\ \A n \in 1 .. Len(r) : /\ r[n].entry = q[k + n].entry /\ r[n].last = q[k + n].last
                                /\ r[n].ops = q[k + n].ops
  BY <1>3 DEF Remains
<1>6. CASE c < j
  <2>1. Len(q) = 0 /\ (c # 0 => u.prep) /\ d = c - 1
    BY <1>2, <1>4, <1>6 DEF Booted
  <2>2. k = 0
    <3>1. k \in 0 .. Len(q)
      BY <1>1, <1>2
    <3> QED BY <2>1, <3>1
  <2>3. Len(v.queue) = 0
    BY <1>3, <1>5, <2>1, <2>2
  <2>4. v.cursor = c /\ ~(j <= v.cursor) /\ (v.cursor # 0 => v.prep)
    BY <1>1, <1>4, <1>6, <2>1
  <2>5. v.realCmd # Idle => plan[v.cursor + 1].kind = "command"
    BY <1>1 DEF Booted
  <2>6. v.drained = d
    BY <1>1, <1>4, <2>2 DEF LastClosed
  <2>7. Onward(u, v) /\ v.drained = v.cursor - 1
    BY <1>4, <2>1, <2>4, <2>6 DEF Onward
  <2> QED BY <2>3, <2>4, <2>5, <2>7 DEF Booted
<1>7. CASE j <= c
  <2>1. /\ ~u.prep /\ j <= d + 1 /\ InOrder(q, c, d, TRUE) /\ Priced(q)
        /\ u.dispFileOps = Cardinality(Doing(j + 1, d + 1))
    BY <1>2, <1>4, <1>7 DEF Booted
  <2>2. PICK e : e = LastClosed(q, k, d)
    OBVIOUS
  <2>3. e \in Int /\ d <= e /\ Credits(SubSeq(q, 1, k)) = Cardinality(Doing(d + 2, e + 1))
    BY <1>1, <1>2, <2>1, <2>2, CreditsOfPart
  <2>4. InOrder(r, c, e, TRUE)
    BY <1>1, <1>2, <1>3, <2>1, <2>2, OrderSpent
  <2>5. Priced(r)
    <3> SUFFICES ASSUME NEW n \in 1 .. Len(r)
                 PROVE  r[n].ops = IF r[n].last /\ IsFileOp(plan[r[n].entry + 1])
                                   THEN 1 ELSE 0
      BY DEF Priced
    <3>1. k + n \in 1 .. Len(q)
      BY <1>1, <1>2, <1>5
    <3>2. q[k + n].ops = IF q[k + n].last /\ IsFileOp(plan[q[k + n].entry + 1])
                         THEN 1 ELSE 0
      BY <2>1, <3>1 DEF Priced
    <3> QED BY <1>5, <3>2
  <2>6. Cardinality(Doing(j + 1, e + 1))
          = Cardinality(Doing(j + 1, d + 1)) + Cardinality(Doing(d + 2, e + 1))
    <3>1. (d + 1) + 1 = d + 2 /\ j + 1 <= (d + 1) + 1 /\ d + 1 <= e + 1
      BY <2>1, <2>3
    <3>2. Cardinality(Doing(j + 1, e + 1))
            = Cardinality(Doing(j + 1, d + 1)) + Cardinality(Doing((d + 1) + 1, e + 1))
      BY <2>3, <3>1, DoingJoins
    <3> QED BY <3>1, <3>2
  <2>7. v.dispFileOps = Cardinality(Doing(j + 1, e + 1))
    BY <1>1, <1>2, <2>1, <2>3, <2>6
  <2>8. v.drained = e /\ j <= e + 1
    BY <1>1, <1>2, <1>4, <2>1, <2>2, <2>3
  <2>9. v.cursor = c /\ ~(v.cursor < j) /\ ~v.prep
    BY <1>1, <1>4, <1>7, <2>1
  <2>10. v.realCmd # Idle => plan[v.cursor + 1].kind = "command"
    BY <1>1 DEF Booted
  <2>11. InOrder(v.queue, v.cursor, v.drained, TRUE) /\ Priced(v.queue)
    BY <1>3, <2>4, <2>5, <2>8, <2>9
  <2>12. j <= v.drained + 1 /\ v.dispFileOps = Cardinality(Doing(j + 1, v.drained + 1))
    BY <2>7, <2>8
  <2>13. Onward(u, v)
    BY <1>4, <2>3, <2>8, <2>9 DEF Onward
  <2> QED BY <2>9, <2>10, <2>11, <2>12, <2>13 DEF Booted
<1> QED BY <1>4, <1>6, <1>7

\* Where the worker may get from u with its counter in order.
BootKept(u) == {v \in Kept(u) : Held(v) /\ Boots(v) /\ Advances(u, v)}

\* What is not behind what is not behind is not.
LEMMA OnwardAgain ==
  ASSUME NEW u, NEW v, NEW x, u.cursor \in Int, u.drained \in Int, v.cursor \in Int,
         v.drained \in Int, x.cursor \in Int, x.drained \in Int,
         Advances(u, v), Advances(v, x)
  PROVE  Advances(u, x)
BY DEF Advances, Onward

LEMMA OnwardOn ==
  ASSUME NEW u, NEW v \in Workers, NEW x \in Workers, u.cursor \in Int, u.drained \in Int,
         Advances(u, v), Advances(v, x)
  PROVE  Advances(u, x)
<1>1. v.cursor \in Nat /\ x.cursor \in Nat /\ v.drained \in Int /\ x.drained \in Int
  BY WorkerFields
<1> QED BY <1>1, OnwardAgain

LEMMA OnwardStill ==
  ASSUME NEW u \in Workers, NEW v, v.cursor = u.cursor, v.drained = u.drained
  PROVE  Advances(u, v)
<1>1. u.cursor \in Nat /\ u.drained \in Int
  BY WorkerFields
<1> QED BY <1>1 DEF Advances, Onward

\* pump() keeps the counter in order.
LEMMA PumpBoots ==
  ASSUME BootFirst, plan \in Plans, NEW u \in Workers, NEW v \in BootKept(u)
  PROVE  Pump(v) \in BootKept(u)
<1>0. u.cursor \in Int /\ u.drained \in Int
  BY WorkerFields
<1>1. \A x \in BootKept(u) : PumpGoesOn(x) => PumpOnce(x) \in BootKept(u)
  <2> SUFFICES ASSUME NEW x \in BootKept(u), PumpGoesOn(x)
               PROVE  PumpOnce(x) \in BootKept(u)
    OBVIOUS
  <2>1. x \in Workers /\ Sound(x) /\ GoesOn(u, x) /\ Held(x) /\ Boots(x)
        /\ Advances(u, x)
    BY DEF BootKept, Kept
  <2>2. PICK y : y = PumpOnce(x)
    OBVIOUS
  <2>3. y \in Workers /\ Sound(y) /\ Same(x, y)
    BY <2>1, <2>2, RoundSound
  <2>4. x.realCmd = Idle
    BY DEF PumpGoesOn
  <2>5. GoesOn(u, y)
    BY <2>1, <2>3, <2>4 DEF GoesOn, Same
  <2>6. Boots(y) /\ Advances(x, y)
    BY <2>1, <2>2, RoundBooted DEF Boots, Advances
  <2>7. Held(y) /\ Advances(u, y)
    BY <1>0, <2>1, <2>3, <2>6, HeldSame, OnwardOn DEF Same
  <2> QED BY <2>2, <2>3, <2>5, <2>6, <2>7 DEF BootKept, Kept
<1>2. \A x \in BootKept(u) : [x EXCEPT !.parked = FALSE] \in BootKept(u)
  <2> SUFFICES ASSUME NEW x \in BootKept(u)
               PROVE  [x EXCEPT !.parked = FALSE] \in BootKept(u)
    OBVIOUS
  <2>1. x \in Workers /\ Sound(x) /\ GoesOn(u, x) /\ Held(x) /\ Boots(x)
        /\ Advances(u, x)
    BY DEF BootKept, Kept
  <2>2. PICK y : y = [x EXCEPT !.parked = FALSE]
    OBVIOUS
  <2>3. y \in Workers /\ Same(x, y) /\ y.cursor = x.cursor /\ y.realCmd = x.realCmd
        /\ y.queue = x.queue /\ y.prep = x.prep /\ y.drained = x.drained
        /\ y.dispFileOps = x.dispFileOps
    BY <2>1, <2>2, Unparked
  <2>4. Sound(y) /\ GoesOn(u, y)
    BY <2>1, <2>3 DEF Sound, GoesOn, Same
  <2>5. Boots(y)
    BY <2>1, <2>3, AlikeBooted
  <2>6. Held(y) /\ Advances(u, y)
    BY <1>0, <2>1, <2>3, HeldSame, OnwardOn, OnwardStill DEF Same
  <2> QED BY <2>2, <2>3, <2>4, <2>5, <2>6 DEF BootKept, Kept
<1>3. Len(v.entries) \in Nat
  <2>1. v.entries \in Seq(PlanEntries)
    BY WorkerFields DEF BootKept, Kept
  <2> QED BY <2>1
<1> QED BY <1>1, <1>2, <1>3, PumpStays

\* So does drain().
LEMMA DrainBoots ==
  ASSUME BootFirst, plan \in Plans, NEW u \in Workers, NEW v \in BootKept(u)
  PROVE  Drain(v) \in BootKept(u)
<1>0. u.cursor \in Int /\ u.drained \in Int
  BY WorkerFields
<1>1. BootKept(u) \subseteq Workers
  BY DEF BootKept, Kept
<1>2. \A x \in BootKept(u), y \in Workers :
        (\E k \in Nat, a \in Nat : Spent(x, y, k, a)) => y \in BootKept(u)
  <2> SUFFICES ASSUME NEW x \in BootKept(u), NEW y \in Workers, NEW k \in Nat,
                      NEW a \in Nat, Spent(x, y, k, a)
               PROVE  y \in BootKept(u)
    OBVIOUS
  <2>1. x \in Workers /\ Sound(x) /\ GoesOn(u, x) /\ Held(x) /\ Boots(x)
        /\ Advances(u, x)
    BY DEF BootKept, Kept
  <2>2. Sound(y) /\ GoesOn(x, y)
    BY <2>1, SpentSound
  <2>3. GoesOn(u, y)
    BY <2>1, <2>2 DEF GoesOn
  <2>4. Boots(y) /\ Advances(x, y)
    BY <2>1, SpentBooted DEF Boots, Advances
  <2>5. Held(y) /\ Advances(u, y)
    BY <1>0, <2>1, <2>2, <2>4, HeldSame, OnwardOn DEF GoesOn
  <2> QED BY <2>2, <2>3, <2>4, <2>5 DEF BootKept, Kept
<1>3. \A x \in BootKept(u) : Pump(x) \in BootKept(u)
  BY PumpBoots
<1> QED BY <1>1, <1>2, <1>3, DrainStays

\* Where the worker is, it may go on from.
LEMMA BootSelf ==
  ASSUME NEW u \in Workers, Sound(u), Held(u), Boots(u)
  PROVE  u \in BootKept(u)
BY KeptSelf, OnwardStill DEF BootKept

\* What every handler but a reset's leaves behind.
BootsOn == Boots(w') /\ Advances(w, w') /\ w'.epoch = w.epoch

LEMMA BecomingBoots ==
  ASSUME NEW u, NEW v \in BootKept(u), Become(v), w.cursor = u.cursor, w.drained = u.drained,
         w.epoch = u.epoch
  PROVE  BootsOn
BY DEF BootKept, Kept, GoesOn, Become, Advances, Onward, BootsOn

\* A worker that stays where it is does so.
LEMMA StayingBoots == w \in Workers /\ Boots(w) /\ w' = w => BootsOn
BY OnwardStill DEF BootsOn

\* A grant keeps the counter in order.
LEMMA GrantBoots ==
  BootFirst /\ WInv /\ Boots(w) /\ HandleGrant => BootsOn
<1> SUFFICES ASSUME BootFirst, WInv, Boots(w), HandleGrant PROVE BootsOn
  OBVIOUS
<1>1. /\ Types /\ Sound(w) /\ Held(w) /\ OfPlan(inbox) /\ Rising(inbox, w.epoch)
      /\ w \in Workers /\ plan \in Plans
  BY DEF WInv, Shipped, EpochsRise, Types
<1>2. PICK m \in Mail : m = Head(inbox) /\ m.type = "GRANT"
  BY <1>1, Received DEF HandleGrant
<1>3. m.grant \in Grants
  BY <1>2 DEF Mail
<1>4. CASE m.epoch = w.epoch
  <2>1. PICK u : u = [w EXCEPT !.limits = m.grant]
    OBVIOUS
  <2>2. u \in Workers /\ Sound(u) /\ Alike(w, u) /\ u.entries = w.entries
    BY <1>1, <1>3, <2>1, WithLimits
  <2>3. Boots(u) /\ Held(u)
    BY <1>1, <2>2, AlikeBooted, HeldSame DEF Alike
  <2>4. PICK v : v = Drain(Pump(u))
    OBVIOUS
  <2>5. v \in BootKept(u)
    <3>1. Pump(u) \in BootKept(u)
      BY <1>1, <2>2, <2>3, BootSelf, PumpBoots
    <3> QED BY <1>1, <2>2, <2>4, <3>1, DrainBoots
  <2>6. Become(v)
    BY <1>2, <1>4, <2>1, <2>4 DEF HandleGrant
  <2> QED BY <2>2, <2>5, <2>6, BecomingBoots DEF Alike
<1>5. CASE m.epoch # w.epoch
  BY <1>1, <1>2, <1>5, StayingBoots DEF HandleGrant
<1> QED BY <1>4, <1>5

\* So does an entry that is shipped.
LEMMA EntriesBoot ==
  BootFirst /\ WInv /\ Boots(w) /\ HandleEntries => BootsOn
<1> SUFFICES ASSUME BootFirst, WInv, Boots(w), HandleEntries PROVE BootsOn
  OBVIOUS
<1>1. /\ Types /\ Sound(w) /\ Held(w) /\ OfPlan(inbox) /\ Rising(inbox, w.epoch)
      /\ w \in Workers /\ plan \in Plans
  BY DEF WInv, Shipped, EpochsRise, Types
<1>2. Receives("ENTRIES")
  BY DEF HandleEntries
<1>3. PICK m \in Mail : m = Head(inbox) /\ m.type = "ENTRIES"
  BY <1>1, <1>2, Received
<1>4. m.from < Len(plan) /\ m.list = <<plan[m.from + 1]>>
  BY <1>1, <1>2, <1>3, Received
<1>5. CASE m.epoch = w.epoch /\ m.from = Len(w.entries)
  <2>1. PICK u : u = [w EXCEPT !.entries = @ \o <<plan[Len(w.entries) + 1]>>]
    OBVIOUS
  <2>2. u \in Workers /\ Sound(u) /\ Held(u) /\ Alike(w, u)
    <3>1. Len(w.entries) < Len(plan)
      BY <1>4, <1>5
    <3> QED BY <1>1, <2>1, <3>1, WithEntry
  <2>3. Boots(u)
    BY <1>1, <2>2, AlikeBooted DEF Alike
  <2>4. PICK v : v = Pump(u)
    OBVIOUS
  <2>5. v \in BootKept(u)
    BY <1>1, <2>2, <2>3, <2>4, BootSelf, PumpBoots
  <2>6. Become(v)
    <3>1. u = [w EXCEPT !.entries = @ \o m.list]
      BY <1>4, <1>5, <2>1
    <3> QED BY <1>3, <1>5, <2>4, <3>1 DEF HandleEntries
  <2> QED BY <2>2, <2>5, <2>6, BecomingBoots DEF Alike
<1>6. CASE ~(m.epoch = w.epoch /\ m.from = Len(w.entries))
  BY <1>1, <1>3, <1>6, StayingBoots DEF HandleEntries
<1> QED BY <1>5, <1>6

\* So does the landing of the runner.
LEMMA LandingBoots ==
  BootFirst /\ WInv /\ Boots(w) /\ RunnerLands => BootsOn
<1> SUFFICES ASSUME BootFirst, WInv, Boots(w), RunnerLands PROVE BootsOn
  OBVIOUS
<1>1. Sound(w) /\ Held(w) /\ w \in Workers /\ plan \in Plans
  BY DEF WInv, Shipped, Types
<1>2. PICK u : u = [w EXCEPT !.runner = TRUE]
  OBVIOUS
<1>3. u \in Workers /\ Sound(u) /\ Alike(w, u) /\ u.entries = w.entries
  BY <1>1, <1>2, WithRunner
<1>4. Boots(u) /\ Held(u)
  BY <1>1, <1>3, AlikeBooted, HeldSame DEF Alike
<1>5. PICK v : v = Pump(u)
  OBVIOUS
<1>6. v \in BootKept(u)
  BY <1>1, <1>3, <1>4, <1>5, BootSelf, PumpBoots
<1>7. Become(v)
  BY <1>2, <1>5 DEF RunnerLands
<1> QED BY <1>3, <1>6, <1>7, BecomingBoots DEF Alike

\* A worker that starts over is before the end of the bracket.
LEMMA FreshBoots ==
  ASSUME plan \in Plans, NEW e \in Nat, NEW runner \in BOOLEAN
  PROVE  Boots(Fresh(e, runner))
<1>1. PICK v : v = Fresh(e, runner)
  OBVIOUS
<1>2. v.queue = <<>> /\ v.realCmd = Idle /\ v.cursor = 0 /\ v.drained = -1
  BY <1>1, FreshIs
<1>3. Len(plan) \in Nat
  <2>1. plan \in Seq(PlanEntries)
    BY PlanTypes
  <2> QED BY <2>1
<1>4. ASSUME NEW j \in 1 .. Len(plan) PROVE Booted(v, j)
  <2>1. ~(j <= 0) /\ Len(v.queue) = 0 /\ v.drained = v.cursor - 1
    BY <1>2, <1>3
  <2> QED BY <1>2, <2>1 DEF Booted
<1> QED BY <1>1, <1>4 DEF Boots

\* What a reset leaves starts over in a later epoch.
LEMMA ResetBoots ==
  WInv /\ HandleReset =>
    Boots(w') /\ w.epoch < w'.epoch /\ w'.epoch <= epoch /\ w'.cursor = 0 /\ w'.drained = -1
<1> SUFFICES ASSUME WInv, HandleReset
             PROVE  Boots(w') /\ w.epoch < w'.epoch /\ w'.epoch <= epoch /\ w'.cursor = 0
                    /\ w'.drained = -1
  OBVIOUS
<1>1. /\ Types /\ OfPlan(inbox) /\ Rising(inbox, w.epoch) /\ w \in Workers /\ plan \in Plans
  BY DEF WInv, Shipped, EpochsRise, Types
<1>2. PICK m \in Mail : m = Head(inbox) /\ m.type = "RESET" /\ w.epoch < m.epoch
                        /\ m.epoch <= epoch
  BY <1>1, Received DEF HandleReset
<1>3. m.epoch \in Nat /\ w.runner \in BOOLEAN
  BY <1>1, <1>2, WorkerFields DEF Mail
<1>4. w' = Fresh(m.epoch, w.runner)
  BY <1>2 DEF HandleReset
<1>5. w'.epoch = m.epoch /\ w'.cursor = 0 /\ w'.drained = -1
  BY <1>3, <1>4, FreshIs
<1> QED BY <1>1, <1>2, <1>3, <1>4, <1>5, FreshBoots

\* A command is in flight in the bracket only, with nothing on the tape.
LEMMA FlyingInside ==
  ASSUME BootFirst, plan \in Plans, NEW u \in Workers, u.cursor < Len(plan), u.realCmd # Idle,
         NEW j \in 1 .. Len(plan), plan[j].kind = "prepOff", Booted(u, j)
  PROVE  u.cursor + 1 < j /\ u.prep /\ Len(u.queue) = 0
<1>1. Len(plan) \in Nat
  <2>1. plan \in Seq(PlanEntries)
    BY PlanTypes
  <2> QED BY <2>1
<1>2. PICK c \in Nat : c = u.cursor
  BY WorkerFields
<1>3. plan[c + 1].kind = "command"
  BY <1>2 DEF Booted
<1>4. /\ plan[1].kind = "prepOn"
      /\ \A i \in j + 1 .. Len(plan) : plan[i].kind \in {"churn", "garbled"}
  BY DEF BootFirst
<1>5. c # 0 /\ c + 1 # j
  BY <1>3, <1>4
<1>6. c + 1 \notin j + 1 .. Len(plan)
  BY <1>3, <1>4
<1>7. c + 1 < j
  BY <1>1, <1>2, <1>5, <1>6
<1>8. u.prep /\ Len(u.queue) = 0
  BY <1>2, <1>5, <1>7 DEF Booted
<1> QED BY <1>2, <1>7, <1>8

\* What fills the tape in the bracket leaves nothing on it.
LEMMA FillsNothing ==
  ASSUME NEW u, u.prep, Len(u.queue) = 0, NEW v \in Workers, Fills(u, v)
  PROVE  Len(v.queue) = 0
<1>1. PICK r \in Seq(Steps) : r = v.queue
  BY WorkerFields
<1>2. ASSUME NEW k \in 1 .. Len(r) PROVE FALSE
  <2>1. \E j \in 1 .. Len(u.queue) : v.queue[k].entry = u.queue[j].entry
    BY <1>1, <1>2 DEF Fills
  <2> QED BY <2>1
<1>3. Len(r) \in Nat /\ 1 \notin 1 .. Len(r)
  BY <1>1, <1>2
<1> QED BY <1>1, <1>3

\* So the next operation of the command in flight keeps the counter in order.
\* An operation of a command leaves the epoch alone.
LEMMA OpEpoch == WInv /\ (CommandOp \/ StaleOp) => w'.epoch = w.epoch
<1> SUFFICES ASSUME WInv, CommandOp \/ StaleOp PROVE w'.epoch = w.epoch
  OBVIOUS
<1>1. w \in Workers
  BY DEF WInv, Types
<1>2. ASSUME NEW u \in Workers, NEW i, NEW tape
      PROVE  EnqueueBatch(u, i, tape, FALSE, 0).epoch = u.epoch
  BY DEF EnqueueBatch, Workers
<1>3. \A op : CountFileOp(w, op) \in Workers /\ CountFileOp(w, op).epoch = w.epoch
  BY <1>1, CountIs DEF Same
<1>4. PICK x \in Workers : x = BumpFileOp(w) /\ x.epoch = w.epoch
  BY <1>1, BumpIs DEF Same
<1>5. DeviceReset(x) \in Workers /\ DeviceReset(x).epoch = w.epoch
  <2>1. <<>> \in Seq(Steps)
    OBVIOUS
  <2> QED BY <1>4, <2>1 DEF DeviceReset, Workers
<1>6. \A on : SetPrep(w, on).epoch = w.epoch
  BY <1>1 DEF SetPrep, Workers
<1>7. CASE CommandOp
  <2>1. PICK f \in fibers : f.epoch = w.epoch /\ f.script # <<>>
          /\ w' = (CASE Head(f.script).does \in {"io", "raw"} ->
                          EnqueueBatch(CountFileOp(w, Head(f.script)), f.index,
                                       Head(f.script).tape, FALSE, 0)
                     [] Head(f.script).does = "throw" -> BumpFileOp(w)
                     [] Head(f.script).does = "format" ->
                          EnqueueBatch(DeviceReset(BumpFileOp(w)), f.index,
                                       Head(f.script).tape, FALSE, 0)
                     [] Head(f.script).does = "prepOn" -> SetPrep(w, TRUE)
                     [] Head(f.script).does = "prepOff" -> SetPrep(w, FALSE))
    BY <1>7 DEF CommandOp
  <2>2. PICK op : op = Head(f.script)
    OBVIOUS
  <2>3. op.does \in {"io", "raw", "throw", "format", "prepOn", "prepOff"}
    <3>1. f.script \in Seq(PlanOps)
      BY <2>1, InFlight DEF WInv, Types, Shipped
    <3> QED BY <2>1, <2>2, <3>1, ScriptParts
  <2>4. CASE op.does \in {"io", "raw"}
    <3>1. w' = EnqueueBatch(CountFileOp(w, op), f.index, op.tape, FALSE, 0)
      BY <2>1, <2>2, <2>4
    <3>2. PICK y \in Workers : y = CountFileOp(w, op) /\ y.epoch = w.epoch
      BY <1>3
    <3>3. EnqueueBatch(y, f.index, op.tape, FALSE, 0).epoch = y.epoch
      BY <1>2
    <3> QED BY <3>1, <3>2, <3>3
  <2>5. CASE op.does = "throw"
    BY <1>4, <2>1, <2>2, <2>5
  <2>6. CASE op.does = "format"
    <3>1. w' = EnqueueBatch(DeviceReset(x), f.index, op.tape, FALSE, 0)
      BY <1>4, <2>1, <2>2, <2>6
    <3>2. EnqueueBatch(DeviceReset(x), f.index, op.tape, FALSE, 0).epoch = DeviceReset(x).epoch
      BY <1>2, <1>5
    <3> QED BY <1>5, <3>1, <3>2
  <2>7. CASE op.does \in {"prepOn", "prepOff"}
    BY <1>6, <2>1, <2>2, <2>7
  <2> QED BY <2>3, <2>4, <2>5, <2>6, <2>7
<1>8. CASE StaleOp
  <2>1. \/ w' = w
        \/ \E on : w' = SetPrep(w, on)
        \/ \E op : w' = CountFileOp(w, op)
    BY <1>8 DEF StaleOp, Refused
  <2> QED BY <1>3, <1>6, <2>1
<1> QED BY <1>7, <1>8

LEMMA OpBoots ==
  BootFirst /\ BInv /\ Boots(w) /\ CommandOp => BootsOn
<1> SUFFICES ASSUME BootFirst, BInv, Boots(w), CommandOp,
                    NEW j \in 1 .. Len(plan), plan[j].kind = "prepOff"
             PROVE  Booted(w', j) /\ Onward(w, w')
  BY OpEpoch DEF BInv, Boots, Advances, BootsOn
<1>1. /\ Types /\ OneBody /\ Sound(w) /\ Held(w) /\ w \in Workers /\ plan \in Plans
      /\ QuietFibers /\ Booted(w, j)
  BY DEF BInv, WInv, Shipped, Types, Boots
<1>2. PICK f \in fibers : f.epoch = w.epoch /\ f.script # <<>>
        /\ w' = (CASE Head(f.script).does \in {"io", "raw"} ->
                        EnqueueBatch(CountFileOp(w, Head(f.script)), f.index,
                                     Head(f.script).tape, FALSE, 0)
                   [] Head(f.script).does = "throw" -> BumpFileOp(w)
                   [] Head(f.script).does = "format" ->
                        EnqueueBatch(DeviceReset(BumpFileOp(w)), f.index,
                                     Head(f.script).tape, FALSE, 0)
                   [] Head(f.script).does = "prepOn" -> SetPrep(w, TRUE)
                   [] Head(f.script).does = "prepOff" -> SetPrep(w, FALSE))
  BY DEF CommandOp
<1>3. /\ f.index = w.realCmd /\ w.realCmd # Idle /\ w.realCmd \in Nat
      /\ f.script \in Seq(PlanOps) /\ w.realCmd = w.cursor /\ w.cursor < Len(w.entries)
  BY <1>1, <1>2, InFlight
<1>4. PICK op \in Operations : op = Head(f.script)
  BY <1>2, <1>3, ScriptParts
<1>5. op.does \in {"io", "raw", "throw", "format"} /\ op.tape \in Seq(Nat)
  <2>1. op.does \in {"io", "raw", "throw", "format", "prepOn", "prepOff"} /\ op.tape \in Seq(Nat)
    BY <1>2, <1>3, <1>4, ScriptParts
  <2>2. Quiet(plan)
    BY <1>1 DEF BootFirst
  <2>3. QuietScript(f.script)
    BY <1>1, <2>2 DEF QuietFibers
  <2>4. op.does \notin {"prepOn", "prepOff"}
    BY <1>2, <1>3, <1>4, <2>3, QuietParts
  <2> QED BY <2>1, <2>4
<1>6. PICK i \in Nat : i = w.cursor /\ i = w.realCmd
  BY <1>3
<1>7. i < Len(plan)
  BY <1>1, <1>3, <1>6, HeldNext
<1>8. i + 1 < j /\ w.prep /\ Len(w.queue) = 0
  BY <1>1, <1>3, <1>6, <1>7, FlyingInside
<1>9. /\ w'.cursor = w.cursor /\ w'.prep = w.prep /\ w'.realCmd = w.realCmd
      /\ Len(w'.queue) = 0 /\ w'.drained = w.drained
  <2>1. CASE op.does \in {"io", "raw"}
    <3>1. w' = EnqueueBatch(CountFileOp(w, op), i, op.tape, FALSE, 0)
      BY <1>2, <1>3, <1>4, <1>6, <2>1
    <3>2. Issues(w, w', i, op.tape)
      BY <1>1, <1>5, <3>1, IoIs
    <3> QED BY <1>8, <3>2 DEF Issues
  <2>2. CASE op.does = "throw"
    <3>1. w' = BumpFileOp(w)
      BY <1>2, <1>4, <2>2
    <3> QED BY <1>1, <1>8, <3>1, BumpIs
  <2>3. CASE op.does = "format"
    <3>1. w' = EnqueueBatch(DeviceReset(BumpFileOp(w)), i, op.tape, FALSE, 0)
      BY <1>2, <1>3, <1>4, <1>6, <2>3
    <3>2. /\ w'.cursor = w.cursor /\ w'.realCmd = w.realCmd /\ w'.prep = w.prep
          /\ Fills(w, w') /\ w'.drained = w.drained
      BY <1>1, <1>5, <1>6, <3>1, FormatFills
    <3>3. w' \in Workers
      BY WStep DEF BInv, WInv, Types, Next, Worker
    <3> QED BY <1>8, <3>2, <3>3, FillsNothing
  <2> QED BY <1>5, <2>1, <2>2, <2>3
<1>10. w'.realCmd # Idle => plan[w'.cursor + 1].kind = "command"
  BY <1>1, <1>9 DEF Booted
<1>11. w'.cursor = i /\ ~(j <= i)
  <2>1. plan \in Seq(PlanEntries)
    BY <1>1, PlanTypes
  <2>2. Len(plan) \in Nat
    BY <2>1
  <2>3. j \in Int
    BY <2>2
  <2>4. ~(j <= i)
    BY <1>8, <2>3
  <2> QED BY <1>6, <1>9, <2>4
<1>12. Onward(w, w')
  BY <1>1, <1>9, OnwardStill DEF Advances
<1>13. w.drained = w.cursor - 1
  <2>1. w.cursor < j
    BY <1>6, <1>8, <1>11, <1>9
  <2> QED BY <1>1, <2>1 DEF Booted
<1> QED BY <1>8, <1>9, <1>10, <1>11, <1>12, <1>13 DEF Booted

\* So does what a fiber of an earlier epoch still does.
LEMMA StaleBoots ==
  BootFirst /\ BInv /\ Boots(w) /\ StaleOp => BootsOn
<1> SUFFICES ASSUME BootFirst, BInv, Boots(w), StaleOp,
                    NEW j \in 1 .. Len(plan), plan[j].kind = "prepOff"
             PROVE  Booted(w', j) /\ Onward(w, w')
  BY OpEpoch DEF BInv, Boots, Advances, BootsOn
<1>1. Types /\ w \in Workers /\ plan \in Plans /\ QuietFibers
  BY DEF BInv, WInv, Types
<1>2. PICK f \in fibers :
        IF f.script = <<>> THEN UNCHANGED w
        ELSE IF Head(f.script).does \in {"prepOn", "prepOff"}
             THEN w' = SetPrep(w, Head(f.script).does = "prepOn")
             ELSE w' = Refused(w, f, Head(f.script))
  BY DEF StaleOp
<1>3. f.script \in Seq(PlanOps)
  <2>1. f \in Fibers
    BY <1>1 DEF Types
  <2> QED BY <2>1 DEF Fibers
<1>4. CASE f.script = <<>>
  <2>1. w' = w
    BY <1>2, <1>4
  <2> QED BY <1>1, <2>1, OnwardStill DEF Boots, Advances
<1>5. CASE f.script # <<>>
  <2>1. Quiet(plan)
    BY <1>1 DEF BootFirst
  <2>2. QuietScript(f.script)
    BY <1>1, <2>1 DEF QuietFibers
  <2>3. Head(f.script).does \notin {"prepOn", "prepOff"}
    BY <1>3, <1>5, <2>2, QuietParts
  <2>4. w' = CountFileOp(w, Head(f.script))
    BY <1>2, <1>5, <2>3 DEF Refused
  <2>5. /\ w'.cursor = w.cursor /\ w'.realCmd = w.realCmd /\ w'.prep = w.prep
        /\ w'.queue = w.queue /\ w'.drained = w.drained /\ w'.dispFileOps = w.dispFileOps
    BY <1>1, <2>4, CountIs
  <2>6. Boots(w')
    BY <2>5, AlikeBooted
  <2> QED BY <1>1, <2>5, <2>6, OnwardStill DEF Boots, Advances
<1> QED BY <1>4, <1>5

\* So does finish().
LEMMA QuiescedBoots ==
  BootFirst /\ WInv /\ Boots(w) /\ CommandQuiesced => BootsOn
<1> SUFFICES ASSUME BootFirst, WInv, Boots(w), CommandQuiesced PROVE BootsOn
  OBVIOUS
<1>1. /\ Types /\ OneBody /\ Sound(w) /\ Held(w) /\ w \in Workers /\ plan \in Plans
  BY DEF WInv, Shipped, Types
<1>2. PICK f \in fibers : f.epoch = w.epoch
        /\ w' = Drain(Pump([EnqueueBatch(w, f.index, <<>>, TRUE, w.entryFileOps)
                              EXCEPT !.realCmd = Idle, !.cursor = f.index + 1]))
  BY DEF CommandQuiesced
<1>3. /\ f.index = w.realCmd /\ w.realCmd # Idle
      /\ w.realCmd = w.cursor /\ w.cursor < Len(w.entries)
  BY <1>1, <1>2, InFlight
<1>4. PICK u : u = [EnqueueBatch(w, w.realCmd, <<>>, TRUE, w.entryFileOps)
                      EXCEPT !.realCmd = Idle, !.cursor = w.realCmd + 1]
  OBVIOUS
<1>5. Closes(w, u, <<>>, w.entryFileOps)
  BY <1>1, <1>3, <1>4, QuiescedIs
<1>6. u \in Workers /\ Sound(u) /\ Held(u)
  <2>1. <<>> \in Seq(Nat) /\ w.entryFileOps \in Nat
    BY <1>1, EmptySeq, WorkerFields
  <2>2. u \in Workers /\ Sound(u) /\ Same(w, u)
    BY <1>1, <1>3, <1>5, <2>1, ClosingSound DEF Closing
  <2> QED BY <1>1, <2>2, HeldSame DEF Same
<1>7. Boots(u) /\ Advances(w, u)
  <2> SUFFICES ASSUME NEW j \in 1 .. Len(plan), plan[j].kind = "prepOff"
               PROVE  Booted(u, j) /\ Onward(w, u)
    BY DEF Boots, Advances
  <2>1. PICK c \in Nat : c = w.cursor
    BY <1>1, WorkerFields
  <2>2. c < Len(plan) /\ Booted(w, j)
    BY <1>1, <1>3, <2>1, HeldNext DEF Boots
  <2>3. c + 1 < j /\ w.prep /\ Len(w.queue) = 0
    BY <1>1, <1>3, <2>1, <2>2, FlyingInside
  <2>4. u.cursor = c + 1 /\ u.prep /\ u.queue = w.queue /\ u.realCmd = Idle /\ u.drained = c
    BY <1>5, <2>1, <2>3 DEF Closes
  <2>5. ~(j <= c + 1) /\ Len(u.queue) = 0 /\ c = (c + 1) - 1
    BY <2>3, <2>4
  <2>6. w.drained = c - 1
    <3>1. c < j
      BY <2>3
    <3> QED BY <2>1, <2>2, <3>1 DEF Booted
  <2>7. Onward(w, u)
    BY <2>1, <2>4, <2>6 DEF Onward
  <2> QED BY <2>4, <2>5, <2>7 DEF Booted
<1>8. Drain(Pump(u)) \in BootKept(u)
  <2>1. Pump(u) \in BootKept(u)
    BY <1>1, <1>6, <1>7, BootSelf, PumpBoots
  <2> QED BY <1>1, <1>6, <2>1, DrainBoots
<1>9. w' = Drain(Pump(u))
  BY <1>2, <1>3, <1>4
<1>10. w' \in Workers /\ Advances(u, w') /\ Boots(w') /\ w'.epoch = u.epoch
  BY <1>8, <1>9 DEF BootKept, Kept, GoesOn
<1>11. w.cursor \in Int /\ w.drained \in Int
  BY <1>1, WorkerFields
<1>12. u.epoch = w.epoch
  BY <1>5 DEF Closes, Same
<1> QED BY <1>6, <1>7, <1>10, <1>11, <1>12, OnwardOn DEF BootsOn

\* What the worker tells is told as it stands when the handler is done.
LEMMA WorkerTells ==
  Worker /\ ~HandleReset => outbox' = outbox \/ outbox' = Append(outbox, AckOf(w'))
BY DEF Worker, HandleGrant, HandleEntries, RunnerLands, CommandOp, CommandQuiesced, StaleOp, Become

-----------------------------------------------------------------------------
(* What is reported of it *)

\* An ack past the end of the bracket carries what the later entries did.
Truthful(a) ==
  \A j \in 1 .. Len(plan) : plan[j].kind = "prepOff" /\ j <= a.cursor =>
    a.fileOps = Cardinality(Doing(j + 1, a.drained + 1))

\* The acks under way in epoch e tell of one state of the worker u after another, none
\* behind what the proxy has merged into a.
Reported(e, a, box, u) ==
  /\ \A k \in 1 .. Len(box) :
       /\ Truthful(box[k])
       /\ box[k].epoch <= u.epoch
       /\ box[k].epoch = u.epoch => Advances(box[k], u)
       /\ box[k].epoch = e => Advances(a, box[k])
  /\ \A k, l \in 1 .. Len(box) : k < l /\ box[k].epoch = box[l].epoch => Advances(box[k], box[l])
  /\ u.epoch < e => a.cursor = 0 /\ a.drained = -1
  /\ u.epoch = e => Advances(a, u)

\* The positions that an ack tells.
LEMMA AckPositions ==
  ASSUME NEW box \in Seq(Acks), NEW k \in 1 .. Len(box)
  PROVE  box[k].epoch \in Nat /\ box[k].cursor \in Int /\ box[k].drained \in Int
         /\ box[k] \in Acks
<1>1. PICK m \in Acks : m = box[k]
  OBVIOUS
<1>2. m.epoch \in Nat /\ m.cursor \in Nat /\ m.drained \in Int
  BY DEF Acks
<1> QED BY <1>1, <1>2

\* A worker that goes on in its epoch leaves the acks behind it.
LEMMA MoveReports ==
  ASSUME NEW e \in Nat, NEW a \in Acked, NEW box \in Seq(Acks), NEW u \in Workers,
         NEW v \in Workers, Reported(e, a, box, u), Advances(u, v), v.epoch = u.epoch
  PROVE  Reported(e, a, box, v)
<1>1. /\ u.cursor \in Int /\ u.drained \in Int /\ v.cursor \in Int /\ v.drained \in Int
      /\ a.cursor \in Int /\ a.drained \in Int
  BY WorkerFields DEF Acked
<1>2. ASSUME NEW k \in 1 .. Len(box), box[k].epoch = v.epoch PROVE Advances(box[k], v)
  <2>1. Advances(box[k], u)
    BY <1>2 DEF Reported
  <2> QED BY <1>1, <2>1, AckPositions, OnwardAgain
<1>3. v.epoch = e => Advances(a, v)
  BY <1>1, OnwardAgain DEF Reported
<1> QED BY <1>2, <1>3 DEF Reported

\* A worker that starts over in a later epoch has acked nothing in it.
LEMMA FreshReports ==
  ASSUME NEW e \in Nat, NEW a \in Acked, NEW box \in Seq(Acks), NEW u \in Workers,
         NEW v \in Workers, Reported(e, a, box, u), u.epoch < v.epoch, v.epoch <= e,
         v.cursor = 0, v.drained = -1
  PROVE  Reported(e, a, box, v)
<1>1. u.epoch \in Nat /\ v.epoch \in Nat
  BY WorkerFields
<1>2. a.cursor = 0 /\ a.drained = -1
  <2>1. u.epoch < e
    BY <1>1
  <2> QED BY <2>1 DEF Reported
<1>3. Advances(a, v)
  BY <1>2 DEF Advances, Onward
<1>4. ASSUME NEW k \in 1 .. Len(box) PROVE box[k].epoch <= v.epoch /\ box[k].epoch # v.epoch
  <2>1. box[k].epoch \in Nat /\ box[k].epoch <= u.epoch
    BY AckPositions DEF Reported
  <2> QED BY <1>1, <2>1
<1> QED BY <1>2, <1>3, <1>4 DEF Reported

\* An ack tells the truth of the worker, which is ahead of all that it told before.
LEMMA AckReports ==
  ASSUME NEW e \in Nat, NEW a \in Acked, NEW box \in Seq(Acks), NEW u \in Workers,
         Reported(e, a, box, u), Boots(u), plan \in Plans
  PROVE  Reported(e, a, Append(box, AckOf(u)), u)
<1>1. PICK m : m = AckOf(u)
  OBVIOUS
<1>2. /\ m.epoch = u.epoch /\ m.cursor = u.cursor /\ m.drained = u.drained
      /\ m.fileOps = u.dispFileOps /\ m \in Acks
  BY <1>1, AckType DEF AckOf
<1>3. PICK more : more = Append(box, m)
  OBVIOUS
<1>4. /\ Len(box) \in Nat /\ Len(more) = Len(box) + 1
      /\ \A k \in 1 .. Len(box) : more[k] = box[k]
      /\ more[Len(box) + 1] = m
  BY <1>2, <1>3
<1>5. Len(plan) \in Nat
  <2>1. plan \in Seq(PlanEntries)
    BY PlanTypes
  <2> QED BY <2>1
<1>6. Truthful(m)
  BY <1>2, <1>5, WorkerFields DEF Truthful, Boots, Booted
<1>7. Advances(m, u) /\ m.epoch <= u.epoch
  BY <1>2, OnwardStill, WorkerFields DEF Advances, Onward
<1>8. m.epoch = e => Advances(a, m)
  BY <1>2 DEF Reported, Advances, Onward
<1>9. ASSUME NEW k \in 1 .. Len(box), box[k].epoch = m.epoch PROVE Advances(box[k], m)
  <2>1. Advances(box[k], u)
    BY <1>2, <1>9 DEF Reported
  <2> QED BY <1>2, <2>1 DEF Advances, Onward
<1>10. ASSUME NEW k \in 1 .. Len(more)
       PROVE  /\ Truthful(more[k]) /\ more[k].epoch <= u.epoch
              /\ more[k].epoch = u.epoch => Advances(more[k], u)
              /\ more[k].epoch = e => Advances(a, more[k])
  <2>1. k \in 1 .. Len(box) \/ k = Len(box) + 1
    BY <1>4
  <2>2. CASE k \in 1 .. Len(box)
    BY <1>4, <2>2 DEF Reported
  <2>3. CASE k = Len(box) + 1
    BY <1>4, <1>6, <1>7, <1>8, <2>3
  <2> QED BY <2>1, <2>2, <2>3
<1>11. ASSUME NEW k \in 1 .. Len(more), NEW l \in 1 .. Len(more), k < l,
              more[k].epoch = more[l].epoch
       PROVE  Advances(more[k], more[l])
  <2>1. k \in 1 .. Len(box) /\ (l \in 1 .. Len(box) \/ l = Len(box) + 1)
    BY <1>4, <1>11
  <2>2. CASE l \in 1 .. Len(box)
    BY <1>4, <1>11, <2>1, <2>2 DEF Reported
  <2>3. CASE l = Len(box) + 1
    BY <1>4, <1>9, <1>11, <2>1, <2>3
  <2> QED BY <2>1, <2>2, <2>3
<1>12. Reported(e, a, more, u)
  BY <1>10, <1>11 DEF Reported
<1> QED BY <1>1, <1>3, <1>12

\* Merging an ack that is not behind is taking its positions, and the larger count.
LEMMA MergeIs ==
  ASSUME NEW a \in Acked, NEW m \in Acks
  PROVE  LET b == MaxMerge(a, m)
         IN  /\ b.fileOps \in {a.fileOps, m.fileOps}
             /\ b.cursor = IF a.cursor >= m.cursor THEN a.cursor ELSE m.cursor
             /\ b.drained = IF a.drained >= m.drained THEN a.drained ELSE m.drained
<1>1. DOMAIN a = {"round", "playback", "cursor", "drained", "fileOps"}
  BY DEF Acked
<1> QED BY <1>1 DEF MaxMerge

\* The proxy has merged an ack, and the rest is as it was.
LEMMA MergeReports ==
  ASSUME NEW e \in Nat, NEW a \in Acked, NEW box \in Seq(Acks), NEW u \in Workers,
         box # <<>>, u.epoch <= e, Reported(e, a, box, u),
         NEW b, b = IF Head(box).epoch = e THEN MaxMerge(a, Head(box)) ELSE a
  PROVE  Reported(e, b, Tail(box), u)
<1>1. PICK m \in Acks : m = Head(box) /\ m = box[1]
  <2>1. 1 \in 1 .. Len(box) /\ Head(box) = box[1]
    OBVIOUS
  <2> QED BY <2>1, AckPositions
<1>2. PICK rest \in Seq(Acks) : /\ rest = Tail(box) /\ Len(rest) = Len(box) - 1
                                /\ \A k \in 1 .. Len(rest) : rest[k] = box[k + 1]
  <2>1. Tail(box) \in Seq(Acks)
    BY HeadTailProperties
  <2>2. Len(Tail(box)) = Len(box) - 1
    BY HeadTailProperties
  <2>3. \A k \in 1 .. Len(Tail(box)) : Tail(box)[k] = box[k + 1]
    BY HeadTailProperties
  <2> QED BY <2>1, <2>2, <2>3
<1>3. /\ Len(box) \in Nat \ {0} /\ Len(rest) \in Nat
      /\ \A k \in 1 .. Len(rest) : k + 1 \in 1 .. Len(box) /\ 1 < k + 1
  BY <1>2
<1>4. b \in Acked
  BY <1>1, MergeType
<1>5. CASE m.epoch = e
  <2>1. 1 \in 1 .. Len(box) /\ u.epoch = e
    <3>1. box[1].epoch <= u.epoch
      BY <1>3 DEF Reported
    <3>2. u.epoch \in Nat
      BY WorkerFields
    <3> QED BY <1>1, <1>3, <1>5, <3>1, <3>2
  <2>2. /\ b.cursor = IF a.cursor >= m.cursor THEN a.cursor ELSE m.cursor
        /\ b.drained = IF a.drained >= m.drained THEN a.drained ELSE m.drained
    BY <1>1, <1>5, MergeIs
  <2>3. ASSUME NEW x, Advances(a, x), Advances(m, x) PROVE Advances(b, x)
    BY <2>2, <2>3 DEF Advances, Onward
  <2>4. Advances(b, u)
    BY <1>1, <1>5, <2>1, <2>3 DEF Reported
  <2>5. ASSUME NEW k \in 1 .. Len(rest), rest[k].epoch = e PROVE Advances(b, rest[k])
    <3>1. Advances(a, box[k + 1]) /\ Advances(box[1], box[k + 1])
      BY <1>1, <1>2, <1>3, <1>5, <2>1, <2>5 DEF Reported
    <3> QED BY <1>1, <1>2, <2>3, <3>1
  <2>6. ASSUME NEW k \in 1 .. Len(rest)
        PROVE  /\ Truthful(rest[k]) /\ rest[k].epoch <= u.epoch
               /\ rest[k].epoch = u.epoch => Advances(rest[k], u)
    BY <1>2, <1>3 DEF Reported
  <2>7. ASSUME NEW k \in 1 .. Len(rest), NEW l \in 1 .. Len(rest), k < l,
               rest[k].epoch = rest[l].epoch
        PROVE  Advances(rest[k], rest[l])
    BY <1>2, <1>3, <2>7 DEF Reported
  <2>8. ~(u.epoch < e)
    BY <2>1
  <2> QED BY <1>2, <2>4, <2>5, <2>6, <2>7, <2>8 DEF Reported
<1>6. CASE m.epoch # e
  <2>1. b = a
    BY <1>1, <1>6
  <2>2. ASSUME NEW k \in 1 .. Len(rest)
        PROVE  /\ Truthful(rest[k]) /\ rest[k].epoch <= u.epoch
               /\ rest[k].epoch = u.epoch => Advances(rest[k], u)
               /\ rest[k].epoch = e => Advances(a, rest[k])
    BY <1>2, <1>3 DEF Reported
  <2>3. ASSUME NEW k \in 1 .. Len(rest), NEW l \in 1 .. Len(rest), k < l,
               rest[k].epoch = rest[l].epoch
        PROVE  Advances(rest[k], rest[l])
    BY <1>2, <1>3, <2>3 DEF Reported
  <2> QED BY <1>2, <2>1, <2>2, <2>3 DEF Reported
<1> QED BY <1>5, <1>6

\* A new epoch has acked nothing.
LEMMA NewEpochReports ==
  ASSUME NEW e \in Nat, NEW a \in Acked, NEW box \in Seq(Acks), NEW u \in Workers,
         u.epoch <= e, Reported(e, a, box, u)
  PROVE  Reported(e + 1, NothingAcked, box, u)
<1>1. u.epoch \in Nat
  BY WorkerFields
<1>2. NothingAcked.cursor = 0 /\ NothingAcked.drained = -1 /\ u.epoch # e + 1
  BY <1>1 DEF NothingAcked
<1>3. ASSUME NEW k \in 1 .. Len(box) PROVE box[k].epoch # e + 1
  <2>1. box[k].epoch \in Nat /\ box[k].epoch <= u.epoch
    BY AckPositions DEF Reported
  <2> QED BY <1>1, <2>1
<1> QED BY <1>2, <1>3 DEF Reported

\* The inductive invariant.
BootInv == BInv /\ Boots(w) /\ Reported(epoch, acked, outbox, w)

\* Every step keeps the counter in order, and what is reported of it.
LEMMA BootStep ==
  ASSUME BootFirst, BootInv, [Next]_vars
  PROVE  BootInv'
<1>1. /\ BInv /\ WInv /\ Types /\ w.epoch <= epoch /\ epoch \in Nat /\ acked \in Acked
      /\ outbox \in Seq(Acks) /\ w \in Workers /\ plan \in Plans
      /\ Boots(w) /\ Reported(epoch, acked, outbox, w)
  BY DEF BootInv, BInv, WInv, Types, EpochsRise
<1>2. BInv'
  BY <1>1, BootOnce, BStep
<1>3. w' \in Workers
  BY <1>2 DEF BInv, WInv, Types
<1>4. plan' = plan
  BY DEF Next, Worker, HandleGrant, HandleEntries, HandleReset, Receives, RunnerLands, CommandOp,
     CommandQuiesced, StaleOp, Coordinator, SendEntries, SendGrant, SendReset, ReceiveAck, Post,
     vars
<1>5. Boots(w') /\ Reported(epoch', acked', outbox', w')
  <2>1. CASE Worker /\ ~HandleReset
    <3>1. BootsOn
      BY <1>1, <2>1, GrantBoots, EntriesBoot, LandingBoots, OpBoots, QuiescedBoots, StaleBoots
         DEF Worker
    <3>2. epoch' = epoch /\ acked' = acked
      BY <2>1 DEF Worker, HandleGrant, HandleEntries, HandleReset, Receives, RunnerLands,
         CommandOp, CommandQuiesced, StaleOp
    <3>3. Reported(epoch, acked, outbox, w')
      BY <1>1, <1>3, <3>1, MoveReports DEF BootsOn
    <3>4. Reported(epoch, acked, Append(outbox, AckOf(w')), w')
      BY <1>1, <1>3, <3>1, <3>3, AckReports DEF BootsOn
    <3> QED BY <2>1, <3>1, <3>2, <3>3, <3>4, WorkerTells DEF BootsOn
  <2>2. CASE HandleReset
    <3>1. Boots(w') /\ w.epoch < w'.epoch /\ w'.epoch <= epoch /\ w'.cursor = 0 /\ w'.drained = -1
      BY <1>1, <2>2, ResetBoots
    <3>2. epoch' = epoch /\ acked' = acked /\ outbox' = outbox
      BY <2>2 DEF HandleReset, Receives
    <3> QED BY <1>1, <1>3, <3>1, <3>2, FreshReports
  <2>3. CASE SendEntries \/ SendGrant \/ UNCHANGED vars
    <3>1. w' = w /\ epoch' = epoch /\ acked' = acked /\ outbox' = outbox
      BY <2>3 DEF SendEntries, SendGrant, Post, vars
    <3> QED BY <1>1, <3>1
  <2>4. CASE SendReset
    <3>1. w' = w /\ epoch' = epoch + 1 /\ acked' = NothingAcked /\ outbox' = outbox
      BY <2>4 DEF SendReset, Post
    <3> QED BY <1>1, <3>1, NewEpochReports
  <2>5. CASE ReceiveAck
    <3>1. /\ w' = w /\ epoch' = epoch /\ outbox # <<>> /\ outbox' = Tail(outbox)
          /\ acked' = IF Head(outbox).epoch = epoch THEN MaxMerge(acked, Head(outbox)) ELSE acked
      BY <2>5 DEF ReceiveAck
    <3> QED BY <1>1, <3>1, MergeReports
  <2> QED BY <2>1, <2>2, <2>3, <2>4, <2>5 DEF Next, Coordinator
<1>6. Boots(w)'
  BY <1>4, <1>5 DEF Boots, Booted, Priced, Doing
<1>7. Reported(epoch, acked, outbox, w)'
  BY <1>4, <1>5 DEF Reported, Truthful, Doing, Advances
<1> QED BY <1>2, <1>6, <1>7 DEF BootInv

\* A step moves what is displayed, past the end of the bracket, by merging an ack only.
LEMMA DisplayedMoves ==
  ASSUME BootInv, Next, NEW j \in 1 .. Len(plan), plan[j].kind = "prepOff",
         acked'.cursor >= j, acked'.fileOps # acked.fileOps
  PROVE  acked'.fileOps = FileOpsPast(j, acked'.drained)
<1>1. /\ acked \in Acked /\ outbox \in Seq(Acks) /\ plan \in Plans
      /\ Reported(epoch, acked, outbox, w)
  BY DEF BootInv, BInv, WInv, Types
<1>2. j \in Nat \ {0}
  <2>1. plan \in Seq(PlanEntries)
    BY <1>1, PlanTypes
  <2> QED BY <2>1
<1>3. ReceiveAck
  <2>1. SendReset => acked'.cursor = 0
    BY DEF SendReset, NothingAcked
  <2>2. ~SendReset
    BY <1>2, <2>1
  <2>3. acked' # acked
    OBVIOUS
  <2> QED BY <2>2, <2>3 DEF Next, Worker, HandleGrant, HandleEntries, HandleReset, Receives,
        RunnerLands, CommandOp, CommandQuiesced, StaleOp, Coordinator, SendEntries, SendGrant
<1>4. outbox # <<>> /\ 1 \in 1 .. Len(outbox) /\ Head(outbox) = outbox[1]
  BY <1>1, <1>3 DEF ReceiveAck
<1>5. PICK m \in Acks : m = outbox[1]
  BY <1>1, <1>4, AckPositions
<1>6. m.epoch = epoch /\ acked' = MaxMerge(acked, m)
  BY <1>3, <1>4, <1>5 DEF ReceiveAck
<1>7. Truthful(m) /\ Advances(acked, m)
  BY <1>1, <1>4, <1>5, <1>6 DEF Reported
<1>8. acked.cursor <= m.cursor /\ acked.drained <= m.drained
  BY <1>7 DEF Advances, Onward
<1>9. /\ m.cursor \in Int /\ m.drained \in Int /\ acked.cursor \in Int /\ acked.drained \in Int
  BY <1>1 DEF Acks, Acked
<1>10. acked'.cursor = m.cursor /\ acked'.drained = m.drained /\ acked'.fileOps = m.fileOps
  <2>1. PICK b : b = MaxMerge(acked, m)
    OBVIOUS
  <2>2. /\ b.fileOps \in {acked.fileOps, m.fileOps}
        /\ b.cursor = IF acked.cursor >= m.cursor THEN acked.cursor ELSE m.cursor
        /\ b.drained = IF acked.drained >= m.drained THEN acked.drained ELSE m.drained
    BY <1>1, <2>1, MergeIs
  <2>3. b.cursor = m.cursor /\ b.drained = m.drained
    BY <1>8, <1>9, <2>2
  <2> QED BY <1>6, <2>1, <2>2, <2>3
<1>11. j <= m.cursor
  BY <1>2, <1>9, <1>10
<1>12. m.fileOps = Cardinality(Doing(j + 1, m.drained + 1))
  BY <1>7, <1>11 DEF Truthful
<1> QED BY <1>10, <1>12 DEF FileOpsPast, Doing

\* What boot did is never added to what the page displays: once the end of the bracket is
\* acked, the displayed count moves only to be the number of later file operations that
\* were played, whatever grants, resets, acks of earlier epochs and fibers of earlier
\* epochs come in between.
THEOREM BootIsNeverAdded ==
  ASSUME BootFirst
  PROVE  Spec => BootIsNotAdded
<1>1. Init => BootInv
  <2> SUFFICES ASSUME Init PROVE BootInv
    OBVIOUS
  <2>1. PICK runner \in BOOLEAN : w = Fresh(0, runner)
    BY DEF Init
  <2>2. plan \in Plans /\ epoch = 0 /\ acked = NothingAcked /\ outbox = <<>>
    BY DEF Init
  <2>3. Boots(w)
    BY <2>1, <2>2, FreshBoots
  <2>4. w.epoch = 0 /\ w.cursor = 0 /\ w.drained = -1
    BY <2>1, FreshIs
  <2>5. Advances(acked, w)
    BY <2>2, <2>4 DEF NothingAcked, Advances, Onward
  <2>6. Reported(epoch, acked, outbox, w)
    BY <2>2, <2>4, <2>5 DEF Reported
  <2> QED BY <2>3, <2>6, BInit DEF BootInv
<1>2. BootInv /\ [Next]_vars => BootInv'
  BY BootStep
<1>3. BootInv /\ [Next]_vars
        => [\A j \in DOMAIN plan :
              /\ plan[j].kind = "prepOff"
              /\ acked'.cursor >= j
              /\ acked'.fileOps # acked.fileOps
              => acked'.fileOps = FileOpsPast(j, acked'.drained)]_acked
  <2> SUFFICES ASSUME BootInv, [Next]_vars, acked' # acked, NEW j \in DOMAIN plan,
                      plan[j].kind = "prepOff", acked'.cursor >= j,
                      acked'.fileOps # acked.fileOps
               PROVE  acked'.fileOps = FileOpsPast(j, acked'.drained)
    OBVIOUS
  <2>1. plan \in Seq(PlanEntries)
    BY PlanTypes DEF BootInv, BInv, WInv, Types
  <2>2. j \in 1 .. Len(plan) /\ Next
    BY <2>1 DEF vars
  <2> QED BY <2>2, DisplayedMoves
<1> QED BY <1>1, <1>2, <1>3, PTL DEF Spec, BootIsNotAdded

=============================================================================
