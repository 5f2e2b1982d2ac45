------------------------- MODULE FieldWorkerProofs --------------------------
(***************************************************************************)
(* The worker of SessionWorker implements that of Lockstep: with a plan of *)
(* timed operations that compiles, and room on its queue, each step of it  *)
(* is one of the worker that has positions on the tape instead of a queue, *)
(* or is not seen.                                                         *)
(*                                                                         *)
(* Between handlers a worker stands where the plan says that entries end   *)
(* (Stands).  pump() walks on to where it has to stop, drain() plays to a  *)
(* position that separates the markers it passed from those it leaves, and *)
(* a handler that composes them is put together from the two.              *)
(***************************************************************************)
EXTENDS SessionWorkerProofs

-----------------------------------------------------------------------------
(* Where an entry ends *)

\* Flash traffic takes time, and an operation that throws is the last one.
TimedOp(op) == \A t \in 1 .. Len(op.tape) : 0 < op.tape[t]

TimedScript(script) ==
  \A j \in 1 .. Len(script) :
    /\ TimedOp(script[j])
    /\ script[j].does = "throw" => j = Len(script) /\ script[j].tape = <<>>

\* A churn entry is one operation at most; source that does not compile does nothing.
TimedEntry(e) ==
  /\ TimedScript(e.script)
  /\ e.kind = "churn" => Len(e.script) <= 1
  /\ e.kind = "garbled" => e.script = <<>>

\* Where the tape of the first n entries ends.
EndOf(list, n) == IF n = 0 THEN 0 ELSE list[n].end

\* The plans say where their entries end.
TimedPlans ==
  \A p \in Plans : \A i \in 1 .. Len(p) :
    TimedEntry(p[i]) /\ p[i].end = EndOf(p, i - 1) + Duration(p[i].script)

\* The flash time of each operation of a script.
OpTimes(script) == [j \in DOMAIN script |-> Total(script[j].tape)]

\* A tape takes a natural number of nanoseconds.
LEMMA TotalType ==
  ASSUME NEW tape \in Seq(Nat)
  PROVE  Total(tape) \in Nat
<1>1. Summable(tape)
  BY SequencesAreSummable
<1> QED BY <1>1, SumType DEF Total

\* There is a flash time for each operation.
LEMMA OpTimesType ==
  ASSUME NEW script \in Seq(Operations)
  PROVE  OpTimes(script) \in Seq(Nat) /\ Len(OpTimes(script)) = Len(script)
<1>1. DOMAIN script = 1 .. Len(script) /\ Len(script) \in Nat
  OBVIOUS
<1>2. ASSUME NEW j \in 1 .. Len(script) PROVE Total(script[j].tape) \in Nat
  <2>1. script[j] \in Operations
    OBVIOUS
  <2>2. script[j].tape \in Seq(Nat)
    BY <2>1 DEF Operations
  <2> QED BY <2>2, TotalType
<1>3. OpTimes(script) = [j \in 1 .. Len(script) |-> Total(script[j].tape)]
  BY <1>1 DEF OpTimes
<1> QED BY <1>1, <1>2, <1>3

\* A script takes the time of its first operation and of the others.
LEMMA DurationParts ==
  ASSUME NEW script \in Seq(Operations)
  PROVE  /\ Duration(script) \in Nat
         /\ script = <<>> => Duration(script) = 0
         /\ script # <<>> => /\ Tail(script) \in Seq(Operations)
                             /\ Duration(script) = Total(script[1].tape) + Duration(Tail(script))
<1>1. PICK s \in Seq(Nat) : s = OpTimes(script) /\ Len(s) = Len(script)
  BY OpTimesType
<1>2. Duration(script) = SumFunction(s)
  BY <1>1 DEF Duration, OpTimes
<1>3. Duration(script) \in Nat
  <2>1. Summable(s)
    BY SequencesAreSummable
  <2> QED BY <1>2, <2>1, SumType
<1>4. ASSUME script = <<>> PROVE Duration(script) = 0
  <2>1. DOMAIN s = {}
    BY <1>1, <1>4
  <2> QED BY <1>2, <2>1, SumOfNothing
<1>5. ASSUME script # <<>>
      PROVE  /\ Tail(script) \in Seq(Operations)
             /\ Duration(script) = Total(script[1].tape) + Duration(Tail(script))
  <2>1. PICK rest \in Seq(Operations) : rest = Tail(script)
    BY <1>5, HeadTailProperties
  <2>2. PICK t \in Seq(Nat) : t = OpTimes(rest) /\ Len(t) = Len(rest)
    BY OpTimesType
  <2>3. PICK x \in Nat : x = Total(script[1].tape)
    <3>1. script[1] \in Operations
      BY <1>5
    <3>2. script[1].tape \in Seq(Nat)
      BY <3>1 DEF Operations
    <3> QED BY <3>2, TotalType
  <2>4. Len(script) \in Nat \ {0} /\ Len(rest) = Len(script) - 1
        /\ \A n \in 1 .. Len(rest) : rest[n] = script[n + 1]
    BY <1>5, <2>1
  <2>5. \A n \in 1 .. Len(script) : s[n] = Total(script[n].tape)
    BY <1>1 DEF OpTimes
  <2>6. \A n \in 1 .. Len(rest) : t[n] = Total(rest[n].tape)
    BY <2>2 DEF OpTimes
  <2>7. PICK o \in Seq(Nat) : o = <<x>> /\ Len(o) = 1 /\ o[1] = x
    <3>1. <<x>> \in Seq(Nat) /\ Len(<<x>>) = 1 /\ <<x>>[1] = x
      OBVIOUS
    <3> QED BY <3>1
  <2>8. o \o t \in Seq(Nat) /\ Len(o \o t) = 1 + Len(t)
        /\ \A n \in 1 .. 1 + Len(t) : (o \o t)[n] = IF n <= 1 THEN x ELSE t[n - 1]
    BY <2>7, ConcatProperties
  <2>9. ASSUME NEW n \in 1 .. Len(script) PROVE s[n] = (o \o t)[n]
    <3>1. CASE n = 1
      <4>1. s[1] = x
        BY <2>3, <2>4, <2>5
      <4>2. 1 \in 1 .. 1 + Len(t)
        BY <2>2, <2>4
      <4>3. (o \o t)[1] = x
        BY <2>8, <4>2
      <4> QED BY <3>1, <4>1, <4>3
    <3>2. CASE n # 1
      <4>1. n - 1 \in 1 .. Len(rest) /\ n \in 1 .. 1 + Len(t) /\ ~(n <= 1) /\ (n - 1) + 1 = n
        BY <2>2, <2>4, <3>2
      <4>2. rest[n - 1] = script[n]
        BY <2>4, <4>1
      <4>3. t[n - 1] = Total(script[n].tape)
        BY <2>6, <4>1, <4>2
      <4>4. (o \o t)[n] = t[n - 1]
        BY <2>8, <4>1
      <4> QED BY <2>5, <4>3, <4>4
    <3> QED BY <3>1, <3>2
  <2>10. s = o \o t
    <3>1. Len(s) = Len(o \o t)
      BY <1>1, <2>2, <2>4, <2>8
    <3>2. PICK z \in Seq(Nat) : z = o \o t
      BY <2>8
    <3>3. \A n \in 1 .. Len(s) : s[n] = z[n]
      BY <1>1, <2>9, <3>2
    <3> QED BY <3>1, <3>2, <3>3, SeqEqual
  <2>11. SumFunction(o \o t) = SumFunction(o) + SumFunction(t)
    BY SumOfJoin
  <2>12. SumFunction(o) = x
    <3>1. PICK z \in Seq(Nat) : z = <<>>
      BY EmptySeq
    <3>2. SumFunction(z) = 0
      BY <3>1, SumOfNothing
    <3>3. SumFunction(Append(z, x)) = SumFunction(z) + x
      BY SumOfAppend
    <3>4. o = Append(z, x)
      BY <2>7, <3>1
    <3> QED BY <3>2, <3>3, <3>4
  <2>13. Duration(rest) = SumFunction(t)
    BY <2>2 DEF Duration, OpTimes
  <2> QED BY <1>2, <2>1, <2>3, <2>10, <2>11, <2>12, <2>13
<1> QED BY <1>3, <1>4, <1>5

\* What is left of a timed script is timed.
LEMMA TimedParts ==
  ASSUME NEW script \in Seq(PlanOps), TimedScript(script), script # <<>>
  PROVE  /\ TimedOp(Head(script)) /\ TimedScript(Tail(script)) /\ TimedScript(<<>>)
         /\ Head(script).does = "throw" => Head(script).tape = <<>> /\ Tail(script) = <<>>
<1>1. PICK rest \in Seq(PlanOps) : rest = Tail(script)
  BY ScriptParts
<1>2. /\ Len(script) \in Nat \ {0} /\ Len(rest) = Len(script) - 1 /\ Head(script) = script[1]
      /\ \A n \in 1 .. Len(rest) : rest[n] = script[n + 1]
  BY <1>1
<1>3. 1 \in 1 .. Len(script)
  BY <1>2
<1>4. TimedOp(Head(script))
  BY <1>2, <1>3 DEF TimedScript
<1>5. TimedScript(rest)
  <2> SUFFICES ASSUME NEW j \in 1 .. Len(rest)
               PROVE  /\ TimedOp(rest[j])
                      /\ rest[j].does = "throw" => j = Len(rest) /\ rest[j].tape = <<>>
    BY DEF TimedScript
  <2>1. j + 1 \in 1 .. Len(script) /\ rest[j] = script[j + 1]
    BY <1>2
  <2>2. /\ TimedOp(script[j + 1])
        /\ script[j + 1].does = "throw" => j + 1 = Len(script) /\ script[j + 1].tape = <<>>
    BY <2>1 DEF TimedScript
  <2> QED BY <1>2, <2>1, <2>2
<1>6. ASSUME Head(script).does = "throw" PROVE Head(script).tape = <<>> /\ rest = <<>>
  <2>1. 1 = Len(script) /\ script[1].tape = <<>>
    BY <1>2, <1>3, <1>6 DEF TimedScript
  <2>2. Len(rest) = 0
    BY <1>2, <2>1
  <2> QED BY <1>2, <2>1, <2>2
<1>7. TimedScript(<<>>)
  BY DEF TimedScript
<1> QED BY <1>1, <1>4, <1>5, <1>6, <1>7

\* The entries held end where the plan says.
LEMMA HeldTimed ==
  ASSUME TimedPlans, plan \in Plans, NEW u \in Workers, Held(u), NEW n \in 1 .. Len(u.entries)
  PROVE  /\ TimedEntry(u.entries[n])
         /\ EndOf(u.entries, n) = EndOf(u.entries, n - 1) + Duration(u.entries[n].script)
         /\ EndOf(u.entries, n) \in Nat /\ EndOf(u.entries, n - 1) \in Nat
         /\ u.entries[n] = plan[n] /\ n \in 1 .. Len(plan)
<1>1. PICK es \in Seq(PlanEntries) : es = u.entries
  BY WorkerFields
<1>2. Len(es) \in Nat /\ Len(es) <= Len(plan) /\ \A i \in 1 .. Len(es) : es[i] = plan[i]
  BY <1>1 DEF Held
<1>3. Len(plan) \in Nat
  BY PlanTypes
<1>4. n \in 1 .. Len(plan) /\ es[n] = plan[n] /\ n # 0
  BY <1>1, <1>2, <1>3
<1>5. TimedEntry(plan[n]) /\ plan[n].end = EndOf(plan, n - 1) + Duration(plan[n].script)
  BY <1>4 DEF TimedPlans
<1>6. EndOf(es, n - 1) = EndOf(plan, n - 1)
  <2>1. CASE n - 1 = 0
    BY <2>1 DEF EndOf
  <2>2. CASE n - 1 # 0
    <3>1. n - 1 \in 1 .. Len(es)
      BY <1>1, <1>2, <2>2
    <3> QED BY <1>2, <2>2, <3>1 DEF EndOf
  <2> QED BY <2>1, <2>2
<1>7. EndOf(es, n) = es[n].end
  BY <1>4 DEF EndOf
<1>8. \A i \in 1 .. Len(es) : es[i].end \in Nat
  <2> SUFFICES ASSUME NEW i \in 1 .. Len(es) PROVE es[i].end \in Nat
    OBVIOUS
  <2>1. es[i] \in Entries
    BY PlanTypes
  <2> QED BY <2>1 DEF Entries
<1>9. EndOf(es, n) \in Nat /\ EndOf(es, n - 1) \in Nat
  <2>1. CASE n - 1 = 0
    BY <1>1, <1>7, <1>8, <2>1 DEF EndOf
  <2>2. CASE n - 1 # 0
    <3>1. n - 1 \in 1 .. Len(es)
      BY <1>1, <1>2, <2>2
    <3> QED BY <1>1, <1>7, <1>8, <2>2, <3>1 DEF EndOf
  <2> QED BY <2>1, <2>2
<1> QED BY <1>1, <1>4, <1>5, <1>6, <1>7, <1>9

-----------------------------------------------------------------------------
(* The markers on the tape *)

\* What is on the queue takes time, but for the markers.
Timed(q) == \A k \in 1 .. Len(q) : ~q[k].last => 0 < q[k].ns

\* With p played, every marker is where its entry ends.
Marked(p, es, q) ==
  \A k \in 1 .. Len(q) :
    q[k].last => p + Unplayed(SubSeq(q, 1, k)) = EndOf(es, q[k].entry + 1)

\* A batch of flash traffic takes time, and has a step for each piece of it.
LEMMA BatchTimed ==
  ASSUME NEW q \in Seq(Steps), NEW i \in Nat, NEW tape \in Seq(Nat), NEW last \in BOOLEAN,
         NEW ops \in Nat, Timed(q), \A t \in 1 .. Len(tape) : 0 < tape[t]
  PROVE  /\ Timed(q \o Batch(i, tape, last, ops))
         /\ Len(q \o Batch(i, tape, last, ops)) = Len(q) + Len(tape) + (IF last THEN 1 ELSE 0)
<1>1. PICK b \in Seq(Steps) : b = Batch(i, tape, last, ops)
  BY BatchFacts
<1>2. Len(b) = Len(tape) + (IF last THEN 1 ELSE 0) /\ Len(q) \in Nat /\ Len(tape) \in Nat
      /\ Len(b) \in Nat
  BY <1>1, BatchFacts
<1>3. last => b[Len(tape) + 1].last
  BY <1>1, BatchFacts
<1>4. ASSUME NEW k \in 1 .. Len(tape) PROVE b[k].ns = tape[k]
  <2>1. PICK a : a = [n \in DOMAIN tape |-> Step(i, tape[n])]
    OBVIOUS
  <2>2. /\ \A n \in 1 .. Len(tape) : tape[n] \in Nat
        /\ DOMAIN tape = 1 .. Len(tape)
    OBVIOUS
  <2>3. \A n \in 1 .. Len(tape) : Step(i, tape[n]) \in Steps
    BY <2>2 DEF Step, Steps
  <2>4. a \in Seq(Steps) /\ Len(a) = Len(tape)
    <3>1. a = [n \in 1 .. Len(tape) |-> Step(i, tape[n])]
      BY <2>1, <2>2
    <3>2. a \in [1 .. Len(tape) -> Steps]
      BY <2>3, <3>1
    <3>3. PICK m \in Nat : m = Len(tape)
      OBVIOUS
    <3>4. a \in [1 .. m -> Steps]
      BY <3>2, <3>3
    <3>5. a \in Seq(Steps)
      BY ONLY <3>4
    <3>6. Len(a) = m
      BY <3>1, <3>3, <3>5
    <3> QED BY <3>3, <3>5, <3>6
  <2>5. PICK c \in Seq(Steps) : c = IF last THEN <<Marker(i, ops)>> ELSE <<>>
    <3>1. PICK x \in Steps : x = Marker(i, ops)
      BY DEF Marker, Steps
    <3>2. <<x>> \in Seq(Steps) /\ <<>> \in Seq(Steps)
      BY EmptySeq
    <3> QED BY <3>1, <3>2
  <2>6. b = a \o c
    BY <1>1, <2>1, <2>5 DEF Batch
  <2>7. k \in 1 .. Len(a) + Len(c) /\ k <= Len(a)
    BY <2>4
  <2>8. b[k] = a[k]
    BY <2>4, <2>5, <2>6, <2>7, ConcatProperties
  <2>9. a[k] = Step(i, tape[k])
    BY <2>1, <2>2
  <2> QED BY <2>8, <2>9 DEF Step
<1>5. PICK r \in Seq(Steps) :
        /\ r = q \o b /\ Len(r) = Len(q) + Len(b)
        /\ \A k \in 1 .. Len(q) + Len(b) : r[k] = IF k <= Len(q) THEN q[k] ELSE b[k - Len(q)]
  <2>1. /\ q \o b \in Seq(Steps) /\ Len(q \o b) = Len(q) + Len(b)
        /\ \A k \in 1 .. Len(q) + Len(b) :
             (q \o b)[k] = IF k <= Len(q) THEN q[k] ELSE b[k - Len(q)]
    BY ConcatProperties
  <2> QED BY <2>1
<1>6. Timed(r)
  <2> SUFFICES ASSUME NEW k \in 1 .. Len(r), ~r[k].last PROVE 0 < r[k].ns
    BY DEF Timed
  <2>1. k \in 1 .. Len(q) + Len(b)
    BY <1>5
  <2>2. CASE k <= Len(q)
    <3>1. k \in 1 .. Len(q) /\ r[k] = q[k]
      BY <1>2, <1>5, <2>1, <2>2
    <3> QED BY <3>1 DEF Timed
  <2>3. CASE ~(k <= Len(q))
    <3>1. PICK n \in 1 .. Len(b) : n = k - Len(q) /\ r[k] = b[n]
      BY <1>2, <1>5, <2>1, <2>3
    <3>2. n \in 1 .. Len(tape)
      <4>1. n # Len(tape) + 1 \/ ~last
        BY <1>3, <3>1
      <4> QED BY <1>2, <4>1
    <3>3. b[n].ns = tape[n] /\ 0 < tape[n]
      BY <1>4, <3>2
    <3> QED BY <3>1, <3>3
  <2> QED BY <2>2, <2>3
<1>7. Len(r) = Len(q) + Len(tape) + (IF last THEN 1 ELSE 0)
  <2>1. Len(r) = Len(q) + Len(b)
    BY <1>5
  <2>2. CASE last
    BY <1>2, <2>1, <2>2
  <2>3. CASE ~last
    BY <1>2, <2>1, <2>3
  <2> QED BY <2>2, <2>3
<1> QED BY <1>1, <1>5, <1>6, <1>7

\* A queue that grows is marked as before, and its new marker is at its end.
LEMMA MarkedExtends ==
  ASSUME NEW p \in Nat, NEW es, NEW q \in Seq(Steps), NEW r \in Seq(Steps), NEW i, NEW last,
         Extends(q, r, i, last), Marked(p, es, q),
         last => p + Unplayed(r) = EndOf(es, i + 1)
  PROVE  Marked(p, es, r)
<1> SUFFICES ASSUME NEW k \in 1 .. Len(r), r[k].last
             PROVE  p + Unplayed(SubSeq(r, 1, k)) = EndOf(es, r[k].entry + 1)
  BY DEF Marked
<1>1. Len(q) \in Nat /\ Len(r) \in Nat /\ Len(q) <= Len(r)
      /\ \A n \in 1 .. Len(q) : r[n] = q[n]
  BY DEF Extends
<1>2. CASE k <= Len(q)
  <2>1. k \in 1 .. Len(q) /\ k \in 0 .. Len(q)
    BY <1>1, <1>2
  <2>2. SubSeq(r, 1, k) = SubSeq(q, 1, k) /\ r[k] = q[k]
    BY <1>1, <2>1, PrefixSame
  <2> QED BY <2>1, <2>2 DEF Marked
<1>3. CASE ~(k <= Len(q))
  <2>1. k \in Len(q) + 1 .. Len(r)
    BY <1>1, <1>3
  <2>2. last /\ k = Len(r) /\ r[k].entry = i
    BY <2>1 DEF Extends
  <2>3. SubSeq(r, 1, k) = r
    BY <2>2, SubSeqFull
  <2> QED BY <2>2, <2>3
<1> QED BY <1>2, <1>3

\* Of more entries held, the marks are as before.
LEMMA MarkedLonger ==
  ASSUME NEW p, NEW es, NEW fs, NEW q \in Seq(Steps), NEW n \in Nat, Marked(p, es, q),
         \A k \in 1 .. Len(q) : q[k].entry < n, \A k \in 1 .. n : fs[k] = es[k]
  PROVE  Marked(p, fs, q)
<1> SUFFICES ASSUME NEW k \in 1 .. Len(q), q[k].last
             PROVE  p + Unplayed(SubSeq(q, 1, k)) = EndOf(fs, q[k].entry + 1)
  BY DEF Marked
<1>1. q[k].entry \in Nat /\ q[k].entry < n
  BY StepFields
<1>2. q[k].entry + 1 \in 1 .. n /\ q[k].entry + 1 # 0
  BY <1>1
<1>3. EndOf(fs, q[k].entry + 1) = EndOf(es, q[k].entry + 1)
  BY <1>2 DEF EndOf
<1> QED BY <1>3 DEF Marked

\* What is played of the steps up to one that is left.
LEMMA PlayedPrefix ==
  ASSUME NEW q \in Seq(Steps), NEW r \in Seq(Steps), NEW k \in 0 .. Len(q), NEW a \in Nat,
         Remains(q, r, k, a), Leaves(q, r, k, a), NEW n \in 1 .. Len(r)
  PROVE  /\ k + n \in 1 .. Len(q)
         /\ Unplayed(SubSeq(q, 1, k + n)) =
              Unplayed(SubSeq(q, 1, k)) + a + Unplayed(SubSeq(r, 1, n))
<1>1. PICK m \in Nat : m = Len(q) /\ Len(r) = m - k
  BY DEF Remains
<1>2. k + n \in 1 .. m /\ k + n \in 0 .. m /\ n \in 0 .. Len(r)
  BY <1>1
<1>3. PICK x \in Seq(Steps), y \in Seq(Steps) :
        /\ x = SubSeq(q, 1, k + n) /\ y = SubSeq(q, k + n + 1, m)
        /\ Unplayed(q) = Unplayed(x) + Unplayed(y)
  BY <1>1, <1>2, UnplayedOfParts
<1>4. PICK s \in Seq(Steps), z \in Seq(Steps) :
        /\ s = SubSeq(r, 1, n) /\ z = SubSeq(r, n + 1, Len(r))
        /\ Unplayed(r) = Unplayed(s) + Unplayed(z)
  BY <1>2, UnplayedOfParts
<1>5. PICK h \in Seq(Steps) : h = SubSeq(q, 1, k)
  BY UnplayedOfParts
<1>6. Unplayed(q) = Unplayed(h) + a + Unplayed(r)
  BY <1>5 DEF Remains
<1>7. Unplayed(y) = Unplayed(z)
  <2>1. /\ Len(y) = m - (k + n)
        /\ \A j \in 1 .. Len(y) : y[j] = q[k + n + j]
    <3>1. /\ Len(y) = IF k + n + 1 <= m THEN m - (k + n + 1) + 1 ELSE 0
          /\ \A j \in 1 .. m - (k + n + 1) + 1 : y[j] = q[k + n + 1 + j - 1]
      <4>1. k + n + 1 \in Int /\ m \in Int /\ \A j \in k + n + 1 .. m : q[j] \in Steps
        BY <1>1, <1>2
      <4> QED BY <1>3, <4>1, SubSeqProperties
    <3>2. Len(y) = m - (k + n)
      BY <1>2, <3>1
    <3>3. ASSUME NEW j \in 1 .. Len(y) PROVE y[j] = q[k + n + j]
      <4>1. j \in 1 .. m - (k + n + 1) + 1 /\ k + n + 1 + j - 1 = k + n + j
        BY <1>2, <3>2
      <4> QED BY <3>1, <4>1
    <3> QED BY <3>2, <3>3
  <2>2. /\ Len(z) = Len(r) - n
        /\ \A j \in 1 .. Len(z) : z[j] = r[n + j]
    <3>1. /\ Len(z) = IF n + 1 <= Len(r) THEN Len(r) - (n + 1) + 1 ELSE 0
          /\ \A j \in 1 .. Len(r) - (n + 1) + 1 : z[j] = r[n + 1 + j - 1]
      <4>1. n + 1 \in Int /\ Len(r) \in Int /\ \A j \in n + 1 .. Len(r) : r[j] \in Steps
        BY <1>2
      <4> QED BY <1>4, <4>1, SubSeqProperties
    <3>2. Len(z) = Len(r) - n
      BY <1>2, <3>1
    <3>3. ASSUME NEW j \in 1 .. Len(z) PROVE z[j] = r[n + j]
      <4>1. j \in 1 .. Len(r) - (n + 1) + 1 /\ n + 1 + j - 1 = n + j
        BY <1>2, <3>2
      <4> QED BY <3>1, <4>1
    <3> QED BY <3>2, <3>3
  <2>3. Len(y) = Len(z)
    BY <1>1, <1>2, <2>1, <2>2
  <2>4. ASSUME NEW j \in 1 .. Len(y) PROVE y[j].ns = z[j].ns /\ y[j].ns \in Nat
    <3>1. n + j \in 1 .. Len(r) /\ n + j # 1 /\ k + (n + j) = k + n + j /\ k + n + j \in 1 .. Len(q)
      BY <1>1, <1>2, <2>1
    <3>2. r[n + j].ns = q[k + n + j].ns
      BY <3>1 DEF Leaves
    <3>3. q[k + n + j].ns \in Nat
      BY <3>1, StepFields
    <3> QED BY <2>1, <2>2, <2>3, <3>2, <3>3
  <2>5. Unplayed(y) <= Unplayed(z)
    <3>1. \A j \in 1 .. Len(y) : y[j].ns <= z[j].ns
      BY <2>4
    <3> QED BY ONLY <1>3, <1>4, <2>3, <3>1, UnplayedPointwise
  <2>6. Unplayed(z) <= Unplayed(y)
    <3>1. \A j \in 1 .. Len(z) : z[j].ns <= y[j].ns
      BY <2>3, <2>4
    <3> QED BY ONLY <1>3, <1>4, <2>3, <3>1, UnplayedPointwise
  <2>7. Unplayed(y) \in Nat /\ Unplayed(z) \in Nat
    BY UnplayedType
  <2> QED BY <2>5, <2>6, <2>7
<1>8. Unplayed(x) \in Nat /\ Unplayed(y) \in Nat /\ Unplayed(s) \in Nat /\ Unplayed(h) \in Nat
  BY UnplayedType
<1>9. Unplayed(x) = Unplayed(h) + a + Unplayed(s)
  <2>1. PICK ux \in Nat, uy \in Nat, us \in Nat, uh \in Nat :
          /\ ux = Unplayed(x) /\ uy = Unplayed(y) /\ us = Unplayed(s) /\ uh = Unplayed(h)
    BY <1>8
  <2>2. ux + uy = uh + a + (us + uy)
    BY <1>3, <1>4, <1>6, <1>7, <2>1
  <2>3. ux = uh + a + us
    BY ONLY <2>2
  <2> QED BY <2>1, <2>3
<1> QED BY <1>1, <1>2, <1>3, <1>4, <1>5, <1>9

\* Playing leaves the marks where they are.
LEMMA MarkedSpent ==
  ASSUME NEW p \in Nat, NEW es, NEW q \in Seq(Steps), NEW r \in Seq(Steps), NEW k \in 0 .. Len(q),
         NEW a \in Nat, Remains(q, r, k, a), Leaves(q, r, k, a), Marked(p, es, q)
  PROVE  Marked(p + Unplayed(SubSeq(q, 1, k)) + a, es, r)
<1> SUFFICES ASSUME NEW n \in 1 .. Len(r), r[n].last
             PROVE  p + Unplayed(SubSeq(q, 1, k)) + a + Unplayed(SubSeq(r, 1, n))
                      = EndOf(es, r[n].entry + 1)
  BY DEF Marked
<1>1. r[n].entry = q[k + n].entry /\ r[n].last = q[k + n].last
  BY DEF Remains
<1>2. k + n \in 1 .. Len(q)
      /\ Unplayed(SubSeq(q, 1, k + n)) =
           Unplayed(SubSeq(q, 1, k)) + a + Unplayed(SubSeq(r, 1, n))
  BY PlayedPrefix
<1>3. p + Unplayed(SubSeq(q, 1, k + n)) = EndOf(es, q[k + n].entry + 1)
  BY <1>1, <1>2 DEF Marked
<1>4. Unplayed(SubSeq(q, 1, k)) \in Nat /\ Unplayed(SubSeq(r, 1, n)) \in Nat
  BY PartIsLess
<1> QED BY <1>1, <1>2, <1>3, <1>4

\* What is left to play takes time.
LEMMA TimedSpent ==
  ASSUME NEW q \in Seq(Steps), NEW r \in Seq(Steps), NEW k \in 0 .. Len(q), NEW a \in Nat,
         Remains(q, r, k, a), Leaves(q, r, k, a), Timed(q),
         0 < a => a < q[k + 1].ns
  PROVE  Timed(r)
<1> SUFFICES ASSUME NEW n \in 1 .. Len(r), ~r[n].last PROVE 0 < r[n].ns
  BY DEF Timed
<1>1. Len(r) = Len(q) - k /\ r[n].last = q[k + n].last
  BY DEF Remains
<1>2. k + n \in 1 .. Len(q)
  BY <1>1
<1>3. 0 < q[k + n].ns /\ q[k + n].ns \in Nat
  BY <1>1, <1>2, StepFields DEF Timed
<1>4. CASE n = 1
  <2>1. r[n].ns = q[k + n].ns - a
    BY <1>4 DEF Leaves
  <2>2. 0 < a => a < q[k + n].ns
    BY <1>4
  <2> QED BY <1>3, <2>1, <2>2
<1>5. CASE n # 1
  BY <1>3, <1>5 DEF Leaves
<1> QED BY <1>4, <1>5

-----------------------------------------------------------------------------
(* pump() *)

\* pump() has rounds enough: when each of them takes from a measure that is no more than
\* the entries held, the last one has nothing to go on with.
LEMMA PumpEnds ==
  ASSUME NEW S, NEW u \in S, Len(u.entries) \in Nat, NEW M \in [S -> Nat],
         M[u] <= Len(u.entries),
         \A v \in S : PumpGoesOn(v) => PumpOnce(v) \in S /\ M[PumpOnce(v)] < M[v]
  PROVE  \E v \in S : ~PumpGoesOn(v) /\ Pump(u) = [v EXCEPT !.parked = FALSE]
<1> DEFINE rounds == Len(u.entries) + 1
           Eq(g) == g = [n \in 0 .. rounds |->
                           IF n = 0 THEN u
                           ELSE IF PumpGoesOn(g[n - 1]) THEN PumpOnce(g[n - 1]) ELSE g[n - 1]]
           after == CHOOSE g : Eq(g)
<1>1. rounds \in Nat
  OBVIOUS
<1>2. PICK g : g = [k \in 0 .. rounds |-> g[k]] /\ IsPumping(g, u, rounds)
  <2> HIDE DEF rounds
  <2> QED BY <1>1, PumpingExists
<1>3. Eq(g)
  <2> HIDE DEF rounds
  <2> QED BY <1>2 DEF IsPumping
<1>4. Eq(after)
  <2> HIDE DEF Eq
  <2> QED BY <1>3
<1>5. /\ after[0] = u
      /\ \A k \in 0 .. rounds : k # 0 =>
           after[k] = IF PumpGoesOn(after[k - 1]) THEN PumpOnce(after[k - 1]) ELSE after[k - 1]
  <2> HIDE DEF after, rounds
  <2> QED BY <1>1, <1>4
<1>6. Pump(u) = [after[rounds] EXCEPT !.parked = FALSE]
  BY DEF Pump
<1>7. PICK m \in Nat : m = rounds /\ M[u] < m
  BY <1>1
<1> HIDE DEF after, rounds
<1> DEFINE Runs(n) == after[n] \in S /\ (PumpGoesOn(after[n]) => M[after[n]] + n <= M[u])
           T == {n \in Nat : n <= m => Runs(n)}
<1>8. 0 \in T
  BY <1>5
<1>9. \A n \in Nat : n \in T => n + 1 \in T
  <2> SUFFICES ASSUME NEW n \in Nat, n \in T, n + 1 <= m PROVE Runs(n + 1)
    <3> HIDE DEF Runs
    <3> QED OBVIOUS
  <2>1. n + 1 \in 0 .. m /\ n + 1 # 0 /\ (n + 1) - 1 = n /\ n <= m
    OBVIOUS
  <2>2. PICK x \in S : x = after[n] /\ (PumpGoesOn(x) => M[x] + n <= M[u])
    BY <2>1
  <2>3. after[n + 1] = IF PumpGoesOn(x) THEN PumpOnce(x) ELSE x
    BY <1>5, <1>7, <2>1, <2>2
  <2>4. CASE PumpGoesOn(x)
    <3>1. PICK y \in S : y = PumpOnce(x) /\ M[y] < M[x]
      BY <2>4
    <3>2. M[y] \in Nat /\ M[x] \in Nat /\ M[u] \in Nat
      OBVIOUS
    <3>3. M[y] + (n + 1) <= M[u]
      BY <2>2, <2>4, <3>1, <3>2
    <3> QED BY <2>3, <2>4, <3>1, <3>3
  <2>5. CASE ~PumpGoesOn(x)
    BY <2>3, <2>5
  <2> QED BY <2>4, <2>5
<1>10. m \in T
  <2>1. Nat \subseteq T
    <3> HIDE DEF T
    <3> QED BY <1>8, <1>9, SetInduction
  <2> HIDE DEF T
  <2> QED BY <2>1
<1>11. PICK v \in S : v = after[m] /\ (PumpGoesOn(v) => M[v] + m <= M[u])
  BY <1>10
<1>12. ~PumpGoesOn(v)
  <2>1. M[v] \in Nat /\ M[u] \in Nat
    OBVIOUS
  <2> QED BY <1>7, <1>11, <2>1
<1> QED BY <1>6, <1>7, <1>11, <1>12

\* The steps that the entries after lo and up to hi queue as they are closed.
Counting(list, lo, hi) == [i \in lo + 1 .. hi |-> ClosingSteps(list[i])]
Counted(list, lo, hi)  == SumFunction(Counting(list, lo, hi))

\* An entry queues a natural number of steps as it is closed.
LEMMA ClosingStepsType ==
  ASSUME NEW list \in Seq(PlanEntries), NEW i \in 1 .. Len(list)
  PROVE  ClosingSteps(list[i]) \in Nat
<1>1. list[i] \in Entries
  BY PlanTypes
<1>2. CASE list[i].script = <<>>
  BY <1>2 DEF ClosingSteps
<1>3. CASE list[i].script # <<>>
  <2>1. list[i].script \in Seq(Operations)
    BY <1>1 DEF Entries
  <2>2. list[i].script[1] \in Operations
    BY <1>3, <2>1
  <2>3. list[i].script[1].tape \in Seq(Nat)
    BY <2>2 DEF Operations
  <2>4. Len(list[i].script[1].tape) + 1 \in Nat
    BY <2>3
  <2> QED BY <2>4 DEF ClosingSteps
<1> QED BY <1>2, <1>3

\* So do the entries between two places.
LEMMA CountingIs ==
  ASSUME NEW list \in Seq(PlanEntries), NEW lo \in Nat, NEW hi \in Nat, hi <= Len(list)
  PROVE  Summable(Counting(list, lo, hi)) /\ Counted(list, lo, hi) \in Nat
<1>1. DOMAIN Counting(list, lo, hi) = lo + 1 .. hi
  BY DEF Counting
<1>2. IsFiniteSet(lo + 1 .. hi)
  BY FS_Interval
<1>3. ASSUME NEW i \in lo + 1 .. hi PROVE Counting(list, lo, hi)[i] \in Nat
  <2>1. i \in 1 .. Len(list)
    OBVIOUS
  <2>2. Counting(list, lo, hi)[i] = ClosingSteps(list[i])
    BY DEF Counting
  <2> QED BY <2>1, <2>2, ClosingStepsType
<1>4. PICK f : f = Counting(list, lo, hi)
  OBVIOUS
<1>5. Summable(f)
  BY <1>1, <1>2, <1>3, <1>4 DEF Summable
<1> QED BY <1>4, <1>5, SumType DEF Counted

\* One more entry.
LEMMA CountedNext ==
  ASSUME NEW list \in Seq(PlanEntries), NEW lo \in Nat, NEW hi \in Nat, lo <= hi, hi < Len(list)
  PROVE  Counted(list, lo, hi + 1) = Counted(list, lo, hi) + ClosingSteps(list[hi + 1])
<1>1. Len(list) \in Nat /\ hi <= Len(list) /\ hi + 1 \in 1 .. Len(list)
  OBVIOUS
<1>2. PICK f : f = Counting(list, lo, hi)
  OBVIOUS
<1>3. PICK g : g = Counting(list, lo, hi + 1)
  OBVIOUS
<1>4. PICK n \in Nat : n = ClosingSteps(list[hi + 1])
  BY <1>1, ClosingStepsType
<1>5. Summable(f) /\ SumFunction(f) \in Nat
  BY <1>1, <1>2, CountingIs, SumType
<1>6. DOMAIN f = lo + 1 .. hi /\ DOMAIN g = lo + 1 .. hi + 1
  BY <1>2, <1>3 DEF Counting
<1>7. DOMAIN g = DOMAIN f \cup {hi + 1} /\ hi + 1 \notin DOMAIN f
  BY <1>6
<1>8. g[hi + 1] = n
  BY <1>3, <1>4, <1>6, <1>7 DEF Counting
<1>9. \A y \in DOMAIN f \ {hi + 1} : g[y] = f[y]
  BY <1>2, <1>3, <1>6 DEF Counting
<1>10. SumFunction(g) = SumFunction(f) - (IF hi + 1 \in DOMAIN f THEN f[hi + 1] ELSE 0) + n
  <2>1. PICK x : x = hi + 1
    OBVIOUS
  <2>2. /\ DOMAIN g = DOMAIN f \cup {x} /\ g[x] = n /\ \A y \in DOMAIN f \ {x} : g[y] = f[y]
    BY <1>7, <1>8, <1>9, <2>1
  <2>3. SumFunction(g) = SumFunction(f) - (IF x \in DOMAIN f THEN f[x] ELSE 0) + n
    BY ONLY <1>4, <1>5, <2>2, SumWith
  <2> QED BY <2>1, <2>3
<1>11. SumFunction(g) = SumFunction(f) + n
  BY <1>5, <1>7, <1>10
<1> QED BY <1>2, <1>3, <1>4, <1>11 DEF Counted

\* No entry.
LEMMA CountedNone ==
  ASSUME NEW list, NEW lo \in Nat
  PROVE  Counted(list, lo, lo) = 0
<1>1. DOMAIN Counting(list, lo, lo) = {}
  BY DEF Counting
<1> QED BY <1>1, SumOfNothing DEF Counted

\* The entries up to one of them, and those after it.
LEMMA CountedParts ==
  ASSUME NEW list \in Seq(PlanEntries), NEW lo \in Nat, NEW mid \in Nat, NEW hi \in Nat,
         lo <= mid, mid <= hi, hi <= Len(list)
  PROVE  Counted(list, lo, hi) = Counted(list, lo, mid) + Counted(list, mid, hi)
<1> DEFINE Parts(n) == Counted(list, lo, mid + n) = Counted(list, lo, mid) + Counted(list, mid, mid + n)
           T == {n \in Nat : mid + n <= Len(list) => Parts(n)}
<1>0. Len(list) \in Nat /\ mid <= Len(list)
  OBVIOUS
<1>1. 0 \in T
  <2>1. mid + 0 = mid
    OBVIOUS
  <2>2. Counted(list, mid, mid) = 0
    BY CountedNone
  <2>3. Counted(list, lo, mid) \in Nat
    BY <1>0, CountingIs
  <2>4. Parts(0)
    BY <2>1, <2>2, <2>3
  <2> HIDE DEF Parts
  <2> QED BY <2>4
<1>2. \A n \in Nat : n \in T => n + 1 \in T
  <2> SUFFICES ASSUME NEW n \in Nat, n \in T, mid + (n + 1) <= Len(list) PROVE Parts(n + 1)
    <3> HIDE DEF Parts
    <3> QED OBVIOUS
  <2>1. PICK h \in Nat : h = mid + n /\ mid + (n + 1) = h + 1 /\ h < Len(list) /\ lo <= h
                         /\ mid <= h /\ h <= Len(list)
    BY <1>0
  <2>2. Counted(list, lo, h) = Counted(list, lo, mid) + Counted(list, mid, h)
    BY <2>1
  <2>3. /\ Counted(list, lo, h + 1) = Counted(list, lo, h) + ClosingSteps(list[h + 1])
        /\ Counted(list, mid, h + 1) = Counted(list, mid, h) + ClosingSteps(list[h + 1])
    BY <2>1, CountedNext
  <2>4. h + 1 \in 1 .. Len(list)
    BY <2>1
  <2>5. /\ Counted(list, lo, mid) \in Nat /\ Counted(list, mid, h) \in Nat
        /\ ClosingSteps(list[h + 1]) \in Nat
    BY <1>0, <2>1, <2>4, CountingIs, ClosingStepsType
  <2> QED BY <2>1, <2>2, <2>3, <2>5
<1>3. PICK n \in Nat : mid + n = hi
  <2>1. hi - mid \in Nat /\ mid + (hi - mid) = hi
    OBVIOUS
  <2> QED BY <2>1
<1>4. n \in T
  <2>1. Nat \subseteq T
    <3> HIDE DEF T
    <3> QED BY <1>1, <1>2, SetInduction
  <2> HIDE DEF T
  <2> QED BY <2>1
<1>5. Parts(n)
  BY <1>3, <1>4
<1> QED BY <1>3, <1>5

\* All source compiles.
Compiles == \A i \in DOMAIN plan : plan[i].kind # "garbled"

\* pump() may go on to entry j, as Lockstep says it (I3).
May(u, j) ==
  /\ u.runner
  /\ j < u.limits.entryLimit
  /\ j < Len(u.entries)
  /\ EndOf(u.entries, j) - u.playback < TAPE_CAP_FRAMES * u.limits.scale

\* The tape takes time and is marked where its entries end.
Placed(u) == Timed(u.queue) /\ Marked(u.playback, u.entries, u.queue)

\* With no command in flight, what is executed ends at the cursor.
Settles(u) == u.realCmd = Idle => u.executed = EndOf(u.entries, u.cursor)

\* v is u after one round of pump().
Goes(u, v) ==
  /\ Same(u, v) /\ v.playback = u.playback /\ v.drained = u.drained /\ ~v.parked
  /\ Placed(v) /\ May(u, u.cursor)
  /\ \/ /\ u.entries[u.cursor + 1].kind = "churn"
        /\ v.realCmd = Idle /\ v.cursor = u.cursor + 1
        /\ v.executed = EndOf(u.entries, v.cursor)
        /\ Len(v.queue) = Len(u.queue) + ClosingSteps(u.entries[u.cursor + 1])
     \/ /\ u.entries[u.cursor + 1].kind = "command"
        /\ v.realCmd = u.cursor /\ v.cursor = u.cursor /\ v.executed = u.executed
        /\ v.queue = u.queue

\* What is compiled and metered is churn or a command.
LEMMA PlainEntry ==
  ASSUME MeteredPlans, plan \in Plans, Compiles, NEW u \in Workers, Held(u),
         NEW j \in Nat, j < Len(u.entries)
  PROVE  u.entries[j + 1].kind \in {"churn", "command"}
<1>1. PICK es \in Seq(PlanEntries) : es = u.entries
  BY WorkerFields
<1>2. j + 1 \in 1 .. Len(es) /\ Len(es) <= Len(plan) /\ Len(plan) \in Nat
  BY <1>1, PlanTypes DEF Held
<1>3. es[j + 1] = plan[j + 1] /\ es[j + 1] \in PlanEntries
  BY <1>1, <1>2 DEF Held
<1>4. j + 1 \in DOMAIN plan
  BY <1>2, PlanTypes
<1>5. plan[j + 1].kind # "garbled" /\ es[j + 1].kind \in {"churn", "command", "garbled"}
  BY <1>3, <1>4 DEF Compiles, MeteredPlans
<1> QED BY <1>1, <1>3, <1>5

\* Backpressure is about where the next entry begins, as long as the queue has room.
LEMMA MayIs ==
  ASSUME MeteredPlans, TimedPlans, plan \in Plans, Compiles, NEW u \in Workers, Held(u),
         Sound(u), Tape(u), ~u.parked, u.realCmd = Idle, u.executed = EndOf(u.entries, u.cursor)
  PROVE  /\ PumpGoesOn(u) => May(u, u.cursor)
         /\ May(u, u.cursor) /\ Len(u.queue) < BACKLOG_CAP => PumpGoesOn(u)
<1>1. PICK c \in Nat : c = u.cursor
  BY WorkerFields
<1>2. u.playback \in Nat /\ u.executed \in Nat /\ ~u.prep
  BY WorkerFields DEF Tape
<1>3. PICK m \in Nat : m = TAPE_CAP_FRAMES * u.limits.scale
  <2>1. u.limits.scale \in {0, 1}
    BY WorkerFields DEF Grants
  <2>2. TAPE_CAP_FRAMES * 0 \in Nat /\ TAPE_CAP_FRAMES * 1 \in Nat
    BY Caps
  <2> QED BY <2>1, <2>2
<1>4. Len(u.queue) \in Nat
  BY WorkerFields
<1>5. c < Len(u.entries) => u.entries[c + 1].kind \notin {"prepOn", "prepOff"}
  BY PlainEntry
<1>6. Backpressured(u) <=> (u.executed - u.playback >= m \/ Len(u.queue) >= BACKLOG_CAP)
  BY <1>3 DEF Backpressured
<1>7. PumpGoesOn(u) <=> /\ c < u.limits.entryLimit /\ c < Len(u.entries)
                        /\ u.runner /\ ~Backpressured(u)
  BY <1>1, <1>2, <1>5 DEF PumpGoesOn
<1>8. May(u, u.cursor) <=> /\ u.runner /\ c < u.limits.entryLimit /\ c < Len(u.entries)
                           /\ u.executed - u.playback < m
  BY <1>1, <1>3 DEF May
<1> QED BY <1>2, <1>3, <1>4, <1>6, <1>7, <1>8, Caps

\* Closing a churn entry.
LEMMA ChurnGoes ==
  ASSUME MeteredPlans, TimedPlans, plan \in Plans, Compiles, NEW u \in Workers, Held(u),
         Sound(u), Tape(u), Placed(u), ~u.parked, u.realCmd = Idle,
         u.executed = EndOf(u.entries, u.cursor), PumpGoesOn(u),
         u.entries[u.cursor + 1].kind = "churn"
  PROVE  Goes(u, PumpOnce(u))
<1>1. PICK v : v = PumpOnce(u)
  OBVIOUS
<1>2. PICK c \in Nat : c = u.cursor /\ c < Len(u.entries)
  BY WorkerFields DEF PumpGoesOn
<1>3. PICK script \in Seq(Operations) : script = u.entries[c + 1].script
  BY <1>2, NextEntry
<1>4. v = ExecEntry(u, u.cursor, script)
  BY <1>1, <1>2, <1>3 DEF PumpOnce
<1>5. PICK tape \in Seq(Nat), ops \in Nat :
        /\ tape = IF script = <<>> THEN <<>> ELSE script[1].tape
        /\ Closes(u, v, tape, ops) /\ v.parked = u.parked
        /\ ~u.prep => v.queue = u.queue \o Batch(u.cursor, tape, TRUE, ops)
  BY <1>4, ExecEntryIs
<1>6. ~u.prep /\ u.executed = u.playback + Unplayed(u.queue)
  BY DEF Tape
<1>7. /\ v \in Workers /\ Same(u, v) /\ v.realCmd = Idle /\ v.cursor = c + 1
      /\ Queued(u.queue, v.queue, c, tape, TRUE, ops)
      /\ v.executed = u.executed + Total(tape)
      /\ v.playback = u.playback /\ v.drained = u.drained
  BY <1>2, <1>5, <1>6 DEF Closes
<1>8. PICK es \in Seq(PlanEntries) : es = u.entries
  BY WorkerFields
<1>9. PICK n \in 1 .. Len(es) : n = c + 1 /\ n - 1 = c
  BY <1>2, <1>8
<1>10. /\ TimedEntry(es[n])
       /\ EndOf(es, n) = EndOf(es, c) + Duration(es[n].script)
       /\ EndOf(es, n) \in Nat /\ EndOf(es, c) \in Nat
  BY <1>8, <1>9, HeldTimed
<1>11. es[n].kind = "churn" /\ es[n].script = script
  BY <1>2, <1>3, <1>8, <1>9
<1>12. Total(tape) = Duration(script) /\ Duration(script) \in Nat
  <2>1. CASE script = <<>>
    <3>1. PICK z \in Seq(Nat) : z = <<>>
      BY EmptySeq
    <3>2. SumFunction(z) = 0
      BY <3>1, SumOfNothing
    <3> QED BY <1>5, <2>1, <3>1, <3>2, DurationParts DEF Total
  <2>2. CASE script # <<>>
    <3>1. Len(script) <= 1
      BY <1>10, <1>11 DEF TimedEntry
    <3>2. PICK rest \in Seq(Operations) :
            rest = Tail(script) /\ Duration(script) = Total(tape) + Duration(rest)
            /\ Duration(script) \in Nat
      BY <1>5, <2>2, DurationParts
    <3>3. rest = <<>>
      <4>1. Len(script) \in Nat \ {0} /\ Len(rest) = Len(script) - 1
        BY <2>2, <3>2, HeadTailProperties
      <4>2. Len(rest) = 0
        BY <3>1, <4>1
      <4> QED BY <4>2
    <3>4. Duration(rest) = 0
      BY <3>3, DurationParts
    <3>5. Total(tape) \in Nat
      BY TotalType
    <3> QED BY <3>2, <3>4, <3>5
  <2> QED BY <2>1, <2>2
<1>13. v.executed = EndOf(es, n)
  BY <1>2, <1>7, <1>8, <1>10, <1>11, <1>12
<1>14. \A t \in 1 .. Len(tape) : 0 < tape[t]
  <2>1. CASE script = <<>>
    BY <1>5, <2>1
  <2>2. CASE script # <<>>
    <3>1. 1 \in 1 .. Len(script)
      BY <2>2
    <3>2. TimedOp(script[1])
      BY <1>10, <1>11, <3>1 DEF TimedEntry, TimedScript
    <3> QED BY <1>5, <2>2, <3>2 DEF TimedOp
  <2> QED BY <2>1, <2>2
<1>15. PICK q \in Seq(Steps), r \in Seq(Steps) : q = u.queue /\ r = v.queue
  BY <1>7, WorkerFields
<1>16. /\ Timed(q \o Batch(c, tape, TRUE, ops))
       /\ Len(q \o Batch(c, tape, TRUE, ops)) = Len(q) + Len(tape) + (IF TRUE THEN 1 ELSE 0)
  <2>1. Timed(q) /\ TRUE \in BOOLEAN
    BY <1>15 DEF Placed
  <2> QED BY <1>14, <2>1, BatchTimed
<1>17. Timed(r) /\ Len(r) = Len(q) + Len(tape) + 1
  BY <1>2, <1>5, <1>6, <1>15, <1>16
<1>18. Marked(u.playback, es, r)
  <2>1. Extends(q, r, c, TRUE) /\ Unplayed(r) = Unplayed(q) + Total(tape)
    BY <1>7, <1>15 DEF Queued
  <2>2. Marked(u.playback, es, q)
    BY <1>8, <1>15 DEF Placed
  <2>3. u.playback \in Nat /\ Unplayed(q) \in Nat /\ Total(tape) \in Nat
    BY WorkerFields, UnplayedType, TotalType
  <2>4. u.playback + Unplayed(r) = EndOf(es, c + 1)
    BY <1>6, <1>7, <1>9, <1>13, <1>15, <2>1, <2>3
  <2>5. PICK p \in Nat : p = u.playback
    BY <2>3
  <2>6. Marked(p, es, r)
    BY <2>1, <2>2, <2>4, <2>5, MarkedExtends
  <2> QED BY <2>5, <2>6
<1>19. Placed(v)
  <2>1. v.entries = es
    BY <1>7, <1>8 DEF Same
  <2> QED BY <1>7, <1>15, <1>17, <1>18, <2>1 DEF Placed
<1>20. Len(v.queue) = Len(u.queue) + ClosingSteps(u.entries[u.cursor + 1])
  <2>1. ClosingSteps(es[n]) = Len(tape) + 1
    <3>1. CASE script = <<>>
      BY <1>5, <1>11, <3>1 DEF ClosingSteps
    <3>2. CASE script # <<>>
      BY <1>5, <1>11, <3>2 DEF ClosingSteps
    <3> QED BY <3>1, <3>2
  <2>2. Len(tape) \in Nat /\ Len(q) \in Nat
    OBVIOUS
  <2>3. Len(r) = Len(q) + ClosingSteps(es[n])
    BY <1>17, <2>1, <2>2
  <2>4. es[n] = u.entries[u.cursor + 1]
    BY <1>2, <1>8, <1>9
  <2> QED BY <1>15, <2>3, <2>4
<1>21. May(u, u.cursor)
  BY MayIs
<1>22. v.executed = EndOf(u.entries, v.cursor)
  BY <1>7, <1>8, <1>9, <1>13
<1>23. ~v.parked
  BY <1>5
<1> QED BY <1>1, <1>2, <1>7, <1>19, <1>20, <1>21, <1>22, <1>23 DEF Goes

\* A round of pump() closes a churn entry or starts a command.
LEMMA RoundGoes ==
  ASSUME MeteredPlans, TimedPlans, plan \in Plans, Compiles, NEW u \in Workers, Held(u),
         Sound(u), Tape(u), Placed(u), ~u.parked, Settles(u), PumpGoesOn(u)
  PROVE  Goes(u, PumpOnce(u))
<1>1. PICK v : v = PumpOnce(u)
  OBVIOUS
<1>2. u.realCmd = Idle /\ u.cursor < Len(u.entries) /\ u.executed = EndOf(u.entries, u.cursor)
  BY DEF PumpGoesOn, Settles
<1>3. u.cursor \in Nat
  BY WorkerFields
<1>4. u.entries[u.cursor + 1].kind \in {"churn", "command"}
  BY <1>2, <1>3, PlainEntry
<1>5. CASE u.entries[u.cursor + 1].kind = "churn"
  BY <1>2, <1>5, ChurnGoes
<1>6. CASE u.entries[u.cursor + 1].kind = "command"
  <2>1. PICK c \in Nat : c = u.cursor
    BY <1>3
  <2>2. v = [u EXCEPT !.realCmd = c, !.entryFileOps = 0]
    BY <1>1, <1>6, <2>1 DEF PumpOnce
  <2>3. /\ Same(u, v) /\ v.playback = u.playback /\ v.drained = u.drained
        /\ v.parked = u.parked /\ v.realCmd = c /\ v.cursor = u.cursor
        /\ v.executed = u.executed /\ v.queue = u.queue
    BY <2>2 DEF Same, Workers
  <2>4. Placed(v)
    BY <2>3 DEF Placed, Same
  <2>5. May(u, u.cursor)
    BY <1>2, MayIs
  <2> QED BY <1>1, <1>6, <2>1, <2>3, <2>4, <2>5 DEF Goes
<1> QED BY <1>4, <1>5, <1>6

\* The workloads that Lockstep has: metered, timed and of source that compiles.
FieldPlan == MeteredPlans /\ TimedPlans /\ plan \in Plans /\ Compiles

\* A worker between two handlers.
Stands(u) ==
  /\ u \in Workers /\ Held(u) /\ Sound(u) /\ Tape(u) /\ Capped(u)
  /\ Placed(u) /\ ~u.parked /\ Settles(u)

\* v is where pump() has got from u.
Walks(u, v) ==
  /\ Same(u, v) /\ v.playback = u.playback /\ v.drained = u.drained /\ ~v.parked
  /\ u.cursor <= v.cursor
  /\ \A j \in u.cursor .. v.cursor - 1 : May(u, j) /\ u.entries[j + 1].kind = "churn"
  /\ v.realCmd # Idle => May(u, v.cursor) /\ u.entries[v.cursor + 1].kind = "command"
  /\ v.executed = EndOf(u.entries, v.cursor)
  /\ Len(v.queue) = Len(u.queue) + Counted(u.entries, u.cursor, v.cursor)

Walked(u) == {v \in OrderKept(u) : Placed(v) /\ Walks(u, v)}

\* A round takes it further.
LEMMA WalkRound ==
  ASSUME FieldPlan, NEW u \in Workers, Held(u), NEW x \in Walked(u), PumpGoesOn(x)
  PROVE  PumpOnce(x) \in Walked(u)
<1>1. /\ x \in Workers /\ Sound(x) /\ GoesOn(u, x) /\ Ordered(u, x) /\ Placed(x) /\ Walks(u, x)
      /\ x.realCmd = Idle /\ x.cursor < Len(x.entries)
  BY DEF Walked, OrderKept, Kept, PumpGoesOn
<1>2. PICK y : y = PumpOnce(x)
  OBVIOUS
<1>3. y \in Workers /\ Sound(y) /\ Same(x, y)
  BY <1>1, <1>2, RoundSound
<1>4. GoesOn(u, y)
  BY <1>1, <1>3 DEF GoesOn, Same
<1>5. Ordered(u, y)
  <2>1. Ordered(x, y)
    BY <1>1, <1>2, RoundOrdered DEF Ordered, FieldPlan
  <2> QED BY <1>1, <2>1 DEF Ordered
<1>6. /\ Same(u, x) /\ x.playback = u.playback /\ x.drained = u.drained /\ ~x.parked
      /\ u.cursor <= x.cursor
      /\ \A j \in u.cursor .. x.cursor - 1 : May(u, j) /\ u.entries[j + 1].kind = "churn"
      /\ x.executed = EndOf(u.entries, x.cursor)
      /\ Len(x.queue) = Len(u.queue) + Counted(u.entries, u.cursor, x.cursor)
  BY <1>1 DEF Walks
<1>7. Goes(x, y)
  <2>1. Held(x) /\ Tape(x) /\ Settles(x)
    BY <1>1, <1>6 DEF Held, Same, Ordered, Settles
  <2> QED BY <1>1, <1>2, <1>6, <2>1, RoundGoes DEF FieldPlan
<1>8. Same(u, y) /\ y.playback = u.playback /\ y.drained = u.drained /\ ~y.parked /\ Placed(y)
  BY <1>6, <1>7 DEF Same, Goes
<1>9. May(u, x.cursor)
  BY <1>6, <1>7 DEF Same, Goes, May
<1>10. PICK c \in Nat, b \in Nat : c = x.cursor /\ b = u.cursor /\ b <= c
  BY <1>1, <1>6, WorkerFields
<1>11. CASE /\ u.entries[c + 1].kind = "churn"
            /\ y.realCmd = Idle /\ y.cursor = c + 1
            /\ y.executed = EndOf(u.entries, y.cursor)
            /\ Len(y.queue) = Len(x.queue) + ClosingSteps(u.entries[c + 1])
  <2>1. u.cursor <= y.cursor
    BY <1>10, <1>11
  <2>2. ASSUME NEW j \in u.cursor .. y.cursor - 1
        PROVE  May(u, j) /\ u.entries[j + 1].kind = "churn"
    <3>1. j \in u.cursor .. x.cursor - 1 \/ j = x.cursor
      BY <1>10, <1>11
    <3> QED BY <1>6, <1>9, <1>10, <1>11, <3>1
  <2>3. Len(y.queue) = Len(u.queue) + Counted(u.entries, u.cursor, y.cursor)
    <3>1. PICK es \in Seq(PlanEntries) : es = u.entries
      BY WorkerFields
    <3>2. c < Len(es) /\ c <= Len(es) /\ c + 1 \in 1 .. Len(es)
      BY <1>1, <1>6, <1>10, <3>1 DEF Same
    <3>3. Counted(es, b, c + 1) = Counted(es, b, c) + ClosingSteps(es[c + 1])
      BY <1>10, <3>2, CountedNext
    <3>4. Counted(es, b, c) \in Nat /\ ClosingSteps(es[c + 1]) \in Nat
      BY <3>2, CountingIs, ClosingStepsType
    <3>5. Len(u.queue) \in Nat
      BY WorkerFields
    <3> QED BY <1>6, <1>10, <1>11, <3>1, <3>3, <3>4, <3>5
  <2>4. Walks(u, y)
    BY <1>8, <1>11, <2>1, <2>2, <2>3 DEF Walks
  <2> QED BY <1>2, <1>3, <1>4, <1>5, <1>8, <2>4 DEF Walked, OrderKept, Kept
<1>12. CASE /\ u.entries[c + 1].kind = "command"
            /\ y.realCmd = c /\ y.cursor = c /\ y.executed = x.executed
            /\ y.queue = x.queue
  <2>1. Walks(u, y)
    BY <1>6, <1>8, <1>9, <1>10, <1>12 DEF Walks
  <2> QED BY <1>2, <1>3, <1>4, <1>5, <1>8, <2>1 DEF Walked, OrderKept, Kept
<1> QED BY <1>6, <1>7, <1>10, <1>11, <1>12 DEF Goes, Same

\* pump() stops where it may not go on, or with a command in flight.
Pumped(u, v) ==
  /\ v \in Walked(u)
  /\ v.realCmd = Idle /\ Len(v.queue) < BACKLOG_CAP => ~May(u, v.cursor)

\* pump() closes entries one by one, each of which leaves its steps on the queue, and has
\* rounds enough to get to where it stops.
LEMMA PumpWalks ==
  ASSUME FieldPlan, NEW u, Stands(u), u.realCmd = Idle
  PROVE  Pumped(u, Pump(u))
<1>1. /\ u \in Workers /\ Held(u) /\ Sound(u) /\ Tape(u) /\ Capped(u) /\ Placed(u)
      /\ ~u.parked /\ u.executed = EndOf(u.entries, u.cursor)
  BY DEF Stands, Settles
<1>2. u.cursor \in Nat /\ u.entries \in Seq(PlanEntries) /\ u.queue \in Seq(Steps)
  BY <1>1, WorkerFields
<1>3. u \in Walked(u)
  <2>1. u \in OrderKept(u)
    BY <1>1, OrderSelf
  <2>2. Counted(u.entries, u.cursor, u.cursor) = 0
    BY <1>2, CountedNone
  <2>3. Len(u.queue) = Len(u.queue) + 0
    BY <1>2
  <2>4. Walks(u, u)
    BY <1>1, <1>2, <2>2, <2>3 DEF Walks, Same
  <2> QED BY <1>1, <2>1, <2>4 DEF Walked
<1> DEFINE m(x) == IF x.realCmd = Idle THEN Len(x.entries) - x.cursor
                   ELSE Len(x.entries) - x.cursor - 1
           M == [x \in Walked(u) |-> m(x)]
<1>4. ASSUME NEW x \in Walked(u)
      PROVE  /\ x \in Workers /\ Sound(x) /\ m(x) \in Nat /\ x.cursor \in Nat
             /\ Len(x.entries) \in Nat /\ x.entries = u.entries /\ u.cursor <= x.cursor
             /\ Walks(u, x)
  <2>1. x \in Workers /\ Sound(x) /\ Walks(u, x)
    BY DEF Walked, OrderKept, Kept
  <2>2. x.cursor \in Nat /\ Len(x.entries) \in Nat
    <3>1. x.cursor \in Nat /\ x.entries \in Seq(PlanEntries)
      BY <2>1, WorkerFields
    <3> QED BY <3>1
  <2>3. x.cursor <= Len(x.entries) /\ (x.realCmd # Idle => x.cursor < Len(x.entries))
    BY <2>1 DEF Sound
  <2>4. m(x) \in Nat
    BY <2>2, <2>3
  <2> QED BY <2>1, <2>2, <2>4 DEF Walks, Same
<1>5. M \in [Walked(u) -> Nat]
  <2> HIDE DEF m
  <2> QED BY <1>4
<1>6. \A x \in Walked(u) : PumpGoesOn(x) => PumpOnce(x) \in Walked(u) /\ M[PumpOnce(x)] < M[x]
  <2> SUFFICES ASSUME NEW x \in Walked(u), PumpGoesOn(x)
               PROVE  PumpOnce(x) \in Walked(u) /\ M[PumpOnce(x)] < M[x]
    <3> HIDE DEF M
    <3> QED OBVIOUS
  <2>1. PICK y \in Walked(u) : y = PumpOnce(x)
    BY <1>1, WalkRound
  <2>2. x.realCmd = Idle
    BY DEF PumpGoesOn
  <2>3. y.entries = x.entries /\ (y.realCmd = Idle => y.cursor = x.cursor + 1)
        /\ (y.realCmd # Idle => y.cursor = x.cursor)
    <3>1. Goes(x, y)
      <4>1. /\ x \in Workers /\ Held(x) /\ Sound(x) /\ Tape(x) /\ Placed(x) /\ ~x.parked
            /\ Settles(x)
        BY <1>1 DEF Walked, OrderKept, Kept, Ordered, Walks, Same, Held, Settles
      <4> QED BY <2>1, <4>1, RoundGoes DEF FieldPlan
    <3>2. x.cursor \in Nat
      BY <1>4
    <3> QED BY <3>1, <3>2 DEF Goes, Same, Idle
  <2>4. m(y) < m(x)
    <3>1. x.cursor \in Nat /\ Len(x.entries) \in Nat
      BY <1>4
    <3>2. CASE y.realCmd = Idle
      BY <2>2, <2>3, <3>1, <3>2
    <3>3. CASE y.realCmd # Idle
      BY <2>2, <2>3, <3>1, <3>3
    <3> QED BY <3>2, <3>3
  <2> QED BY <2>1, <2>4
<1>7. M[u] <= Len(u.entries)
  BY <1>2, <1>3
<1>8. PICK v \in Walked(u) : ~PumpGoesOn(v) /\ Pump(u) = [v EXCEPT !.parked = FALSE]
  <2>1. Len(u.entries) \in Nat
    BY <1>2
  <2> HIDE DEF M
  <2> QED BY <1>3, <1>5, <1>6, <1>7, <2>1, PumpEnds
<1>9. v \in Workers /\ Walks(u, v) /\ Sound(v) /\ Placed(v) /\ Tape(v)
  BY DEF Walked, OrderKept, Kept, Ordered
<1>10. Pump(u) = v
  <2>1. v.parked = FALSE
    BY <1>9 DEF Walks, Workers
  <2> QED BY <1>8, <1>9, <2>1 DEF Workers
<1>11. ASSUME v.realCmd = Idle, Len(v.queue) < BACKLOG_CAP PROVE ~May(u, v.cursor)
  <2>1. /\ Same(u, v) /\ v.playback = u.playback /\ ~v.parked
        /\ v.executed = EndOf(v.entries, v.cursor)
    BY <1>9 DEF Walks, Same
  <2>2. Held(v)
    BY <1>1, <2>1 DEF Held, Same
  <2>3. ~May(v, v.cursor)
    BY <1>8, <1>9, <1>11, <2>1, <2>2, MayIs DEF FieldPlan
  <2> QED BY <2>1, <2>3 DEF May, Same
<1> QED BY <1>8, <1>10, <1>11 DEF Pumped

\* With a command in flight pump() does nothing.
LEMMA PumpWaits ==
  ASSUME NEW u \in Workers, ~u.parked, u.realCmd # Idle
  PROVE  Pump(u) = u
<1>1. ~PumpGoesOn(u)
  BY DEF PumpGoesOn
<1>2. PICK M : M = [x \in {u} |-> 0]
  OBVIOUS
<1>3. Len(u.entries) \in Nat
  <2>1. u.entries \in Seq(PlanEntries)
    BY WorkerFields
  <2> QED BY <2>1
<1>4. \E v \in {u} : ~PumpGoesOn(v) /\ Pump(u) = [v EXCEPT !.parked = FALSE]
  <2>1. M \in [{u} -> Nat] /\ M[u] <= Len(u.entries)
    BY <1>2, <1>3
  <2>2. \A v \in {u} : PumpGoesOn(v) => PumpOnce(v) \in {u} /\ M[PumpOnce(v)] < M[v]
    BY <1>1
  <2> QED BY <1>3, <2>1, <2>2, PumpEnds
<1>5. Pump(u) = [u EXCEPT !.parked = FALSE]
  BY <1>4
<1>6. u.parked = FALSE
  BY DEF Workers
<1> QED BY <1>5, <1>6 DEF Workers

-----------------------------------------------------------------------------
(* drain() *)

\* More steps have more to play.
LEMMA PrefixGrows ==
  ASSUME NEW q \in Seq(Steps), NEW k \in 0 .. Len(q), NEW n \in 0 .. k
  PROVE  /\ Unplayed(SubSeq(q, 1, n)) \in Nat /\ Unplayed(SubSeq(q, 1, k)) \in Nat
         /\ Unplayed(SubSeq(q, 1, n)) <= Unplayed(SubSeq(q, 1, k))
<1>1. PICK x \in Seq(Steps) : x = SubSeq(q, 1, k)
  BY UnplayedOfParts
<1>2. \A i \in 1 .. k : q[i] \in Steps
  BY StepFields
<1>3. /\ Len(x) = IF 1 <= k THEN k - 1 + 1 ELSE 0
      /\ \A i \in 1 .. k - 1 + 1 : x[i] = q[1 + i - 1]
  BY <1>1, <1>2, SubSeqProperties
<1>4. Len(x) = k /\ Len(x) <= Len(q) /\ n \in 0 .. Len(x) /\ n \in 0 .. Len(q)
  BY <1>3
<1>5. ASSUME NEW i \in 1 .. Len(x) PROVE q[i] = x[i]
  <2>1. i \in 1 .. k - 1 + 1 /\ 1 + i - 1 = i
    BY <1>4
  <2> QED BY <1>3, <2>1
<1>6. SubSeq(q, 1, n) = SubSeq(x, 1, n)
  BY <1>4, <1>5, PrefixSame
<1>7. Unplayed(SubSeq(x, 1, n)) \in Nat /\ Unplayed(SubSeq(x, 1, n)) <= Unplayed(x)
  BY <1>4, PartIsLess
<1>8. Unplayed(x) \in Nat
  BY UnplayedType
<1> QED BY <1>1, <1>6, <1>7, <1>8

\* The first step of a queue has its own time to play.
LEMMA FirstToPlay ==
  ASSUME NEW q \in Seq(Steps), NEW k \in 1 .. Len(q)
  PROVE  q[1].ns <= Unplayed(SubSeq(q, 1, k)) /\ Unplayed(SubSeq(q, 1, k)) \in Nat /\ q[1].ns \in Nat
<1>1. 1 \in 1 .. Len(q) /\ 1 \in 0 .. Len(q) /\ k \in 0 .. Len(q) /\ 1 \in 0 .. k
  OBVIOUS
<1>2. q[1] \in Steps /\ q[1].ns \in Nat
  BY <1>1, StepFields
<1>3. PICK x \in Seq(Steps) : x = SubSeq(q, 1, 1)
  BY <1>1, UnplayedOfParts
<1>4. x = <<q[1]>>
  <2>1. \A i \in 1 .. 1 : q[i] \in Steps
    BY <1>2
  <2>2. /\ Len(x) = IF 1 <= 1 THEN 1 - 1 + 1 ELSE 0
        /\ \A i \in 1 .. 1 - 1 + 1 : x[i] = q[1 + i - 1]
    BY <1>3, <2>1, SubSeqProperties
  <2>3. Len(x) = 1 /\ x[1] = q[1]
    BY <2>2
  <2> QED BY <2>3
<1>5. Unplayed(SubSeq(q, 1, 1)) = q[1].ns
  BY <1>2, <1>3, <1>4, UnplayedOfOne
<1> QED BY <1>1, <1>2, <1>5, PrefixGrows

\* There is something on the queue when something is left to play or to drain.
LEMMA QueueHas ==
  ASSUME NEW q \in Seq(Steps), NEW c \in Nat, NEW d \in Int, NEW idle,
         InOrder(q, c, d, idle), Timed(q)
  PROVE  q # <<>> <=> (0 < Unplayed(q) \/ d < c - 1)
<1>1. Len(q) \in Nat
  OBVIOUS
<1>2. CASE q = <<>>
  <2>1. Unplayed(q) = 0
    BY <1>2, UnplayedOfNothing
  <2>2. ~(d < c - 1)
    <3> SUFFICES ASSUME d < c - 1 PROVE FALSE
      OBVIOUS
    <3>1. c - 1 \in d + 1 .. c - 1
      OBVIOUS
    <3>2. \E k \in 1 .. Len(q) : q[k].last /\ q[k].entry = c - 1
      BY <3>1 DEF InOrder
    <3> QED BY <1>2, <3>2
  <2> QED BY <1>2, <2>1, <2>2
<1>3. CASE q # <<>>
  <2>1. Len(q) \in 1 .. Len(q) /\ 1 \in 1 .. Len(q) /\ Len(q) \in 0 .. Len(q)
    BY <1>3
  <2>2. q[1].last \in BOOLEAN /\ q[1].entry \in Nat
    BY <2>1, StepFields
  <2>3. CASE q[1].last
    <3>1. d < q[1].entry /\ q[1].entry < c
      BY <2>1, <2>3 DEF InOrder
    <3> QED BY <1>3, <2>2, <3>1
  <2>4. CASE ~q[1].last
    <3>1. 0 < q[1].ns
      BY <2>1, <2>4 DEF Timed
    <3>2. PICK n \in 1 .. Len(q) : n = Len(q)
      BY <2>1
    <3>3. q[1].ns <= Unplayed(SubSeq(q, 1, n)) /\ Unplayed(SubSeq(q, 1, n)) \in Nat
          /\ q[1].ns \in Nat
      BY FirstToPlay
    <3>4. Unplayed(SubSeq(q, 1, n)) <= Unplayed(q) /\ Unplayed(q) \in Nat
      <4>1. n \in 0 .. Len(q)
        OBVIOUS
      <4> QED BY <4>1, PartIsLess, UnplayedType
    <3> QED BY <1>3, <3>1, <3>3, <3>4
  <2> QED BY <2>2, <2>3, <2>4
<1> QED BY <1>2, <1>3

\* What is drained was played.
LEMMA DrainedPlayed ==
  ASSUME NEW q \in Seq(Steps), NEW c \in Nat, NEW d \in Int, NEW idle, NEW k \in 0 .. Len(q),
         NEW p \in Nat, NEW es, InOrder(q, c, d, idle), Marked(p, es, q),
         NEW e \in Int, d < e, e <= LastClosed(q, k, d)
  PROVE  EndOf(es, e + 1) <= p + Unplayed(SubSeq(q, 1, k))
<1>1. PICK x \in 1 .. k : q[x].last /\ LastClosed(q, k, d) = q[x].entry
  BY LastClosedIs
<1>2. x \in 1 .. Len(q) /\ x \in Int
  OBVIOUS
<1>3. q[x].entry \in Nat
  BY <1>2, StepFields
<1>4. d < q[x].entry /\ q[x].entry < c
  BY <1>1, <1>2 DEF InOrder
<1>5. e \in d + 1 .. c - 1
  BY <1>1, <1>3, <1>4
<1>6. PICK l \in 1 .. Len(q) : q[l].last /\ q[l].entry = e
  BY <1>5 DEF InOrder
<1>7. l <= x
  <2> SUFFICES ASSUME x < l PROVE FALSE
    BY <1>2, <1>6
  <2>1. q[x].entry < q[l].entry
    BY <1>1, <1>2, <1>6 DEF InOrder
  <2> QED BY <1>1, <1>3, <1>6, <2>1
<1>8. l \in 0 .. k
  BY <1>2, <1>6, <1>7
<1>9. p + Unplayed(SubSeq(q, 1, l)) = EndOf(es, e + 1)
  BY <1>6 DEF Marked
<1> QED BY <1>8, <1>9, PrefixGrows

\* What is not drained ends where playback is, or later.
LEMMA UndrainedAhead ==
  ASSUME NEW q \in Seq(Steps), NEW c \in Nat, NEW d \in Int, NEW idle,
         NEW p \in Nat, NEW es, InOrder(q, c, d, idle), Marked(p, es, q), NEW e \in d + 1 .. c - 1
  PROVE  p <= EndOf(es, e + 1)
<1>1. PICK l \in 1 .. Len(q) : q[l].last /\ q[l].entry = e
  BY DEF InOrder
<1>2. p + Unplayed(SubSeq(q, 1, l)) = EndOf(es, e + 1)
  BY <1>1 DEF Marked
<1>3. l \in 0 .. Len(q)
  BY <1>1
<1>4. Unplayed(SubSeq(q, 1, l)) \in Nat
  BY <1>3, PartIsLess
<1> QED BY <1>2, <1>4

\* Playing drains something or takes time.
LEMMA PlayingMoves ==
  ASSUME NEW q \in Seq(Steps), NEW c \in Nat, NEW d \in Int, NEW idle, NEW k \in 0 .. Len(q),
         NEW a \in Nat, InOrder(q, c, d, idle), Timed(q), k = 0 => 0 < a
  PROVE  /\ d <= LastClosed(q, k, d)
         /\ Unplayed(SubSeq(q, 1, k)) + a = 0 => d < LastClosed(q, k, d)
<1>1. ASSUME NEW x \in 1 .. k, q[x].last PROVE d < q[x].entry
  <2>1. x \in 1 .. Len(q)
    OBVIOUS
  <2> QED BY <1>1, <2>1 DEF InOrder
<1>2. d <= LastClosed(q, k, d)
  <2>1. \/ LastClosed(q, k, d) = d
        \/ \E x \in 1 .. k : q[x].last /\ LastClosed(q, k, d) = q[x].entry
    BY LastClosedIs
  <2>2. CASE LastClosed(q, k, d) = d
    BY <2>2
  <2>3. ASSUME NEW x \in 1 .. k, q[x].last, LastClosed(q, k, d) = q[x].entry
        PROVE  d <= LastClosed(q, k, d)
    <3>1. x \in 1 .. Len(q)
      OBVIOUS
    <3>2. q[x].entry \in Nat /\ d < q[x].entry
      BY <1>1, <2>3, <3>1, StepFields
    <3> QED BY <2>3, <3>2
  <2> QED BY <2>1, <2>2, <2>3
<1>3. ASSUME Unplayed(SubSeq(q, 1, k)) + a = 0 PROVE d < LastClosed(q, k, d)
  <2>1. Unplayed(SubSeq(q, 1, k)) \in Nat
    BY PartIsLess
  <2>2. k # 0 /\ Unplayed(SubSeq(q, 1, k)) = 0
    BY <1>3, <2>1
  <2>3. k \in 1 .. Len(q) /\ 1 \in 1 .. Len(q) /\ 1 \in 1 .. k
    BY <2>2
  <2>4. q[1].last
    <3> SUFFICES ASSUME ~q[1].last PROVE FALSE
      OBVIOUS
    <3>1. 0 < q[1].ns
      BY <2>3 DEF Timed
    <3>2. q[1].ns <= 0 /\ q[1].ns \in Nat
      BY <2>2, <2>3, FirstToPlay
    <3> QED BY <3>1, <3>2
  <2>5. PICK x \in 1 .. k : q[x].last /\ LastClosed(q, k, d) = q[x].entry
    BY <2>3, <2>4, LastClosedIs
  <2> QED BY <1>1, <2>5
<1> QED BY <1>2, <1>3

\* v is x after drain() has played what it may.
Played(x, v) ==
  /\ Same(x, v) /\ v.cursor = x.cursor /\ v.realCmd = x.realCmd /\ v.executed = x.executed
  /\ x.playback <= v.playback /\ v.playback <= x.executed
  /\ x.drained <= v.drained /\ v.drained < x.cursor
  /\ x.limits.playLimit # Infinity => v.playback <= x.limits.playLimit
  /\ v.playback = x.playback => x.drained < v.drained
  /\ \A e \in x.drained + 1 .. v.drained : EndOf(x.entries, e + 1) <= v.playback
  /\ \A e \in v.drained + 1 .. x.cursor - 1 : v.playback <= EndOf(x.entries, e + 1)
  /\ Len(v.queue) <= Len(x.queue)

\* spend() plays from the front: a marker it has passed is of an entry that ends by the new
\* playback position, one it has not is of an entry that ends no earlier.
LEMMA SpendPlays ==
  ASSUME NEW x, Stands(x), x.queue # <<>>, Budget(x) # Infinity => 0 < Budget(x)
  PROVE  Played(x, Spend(x, Budget(x))) /\ Stands(Spend(x, Budget(x)))
<1>1. /\ x \in Workers /\ Held(x) /\ Sound(x) /\ Tape(x) /\ Capped(x)
      /\ Placed(x) /\ ~x.parked /\ Settles(x)
  BY DEF Stands
<1>2. PICK b : b = Budget(x) /\ (b = Infinity \/ (b \in Int /\ 0 < b))
  BY <1>1, BudgetType
<1>3. PICK v : v = Spend(x, b)
  OBVIOUS
<1>4. PICK k \in Nat, a \in Nat : Spent(x, v, k, a) /\ Spends(x.queue, v.queue, b, k, a)
  BY <1>1, <1>2, <1>3, SpendIs
<1>5. PICK q \in Seq(Steps), c \in Nat, d \in Int, p \in Nat :
        q = x.queue /\ c = x.cursor /\ d = x.drained /\ p = x.playback
  BY <1>1, WorkerFields
<1>6. /\ v \in Workers /\ Same(x, v) /\ v.cursor = c /\ v.realCmd = x.realCmd
      /\ v.parked = x.parked /\ v.executed = x.executed
      /\ k \in 0 .. Len(q) /\ Remains(q, v.queue, k, a)
      /\ v.playback = p + Unplayed(SubSeq(q, 1, k)) + a
      /\ v.drained = LastClosed(q, k, d)
  BY <1>4, <1>5 DEF Spent, Same
<1>7. PICK r \in Seq(Steps) : r = v.queue
  BY <1>6, WorkerFields
<1>8. /\ Leaves(q, r, k, a) /\ Remains(q, r, k, a)
      /\ b # Infinity => Unplayed(SubSeq(q, 1, k)) + a <= b
      /\ k = 0 => 0 < a
      /\ 0 < a => k < Len(q) /\ a < q[k + 1].ns
  BY <1>4, <1>5, <1>6, <1>7 DEF Spends
<1>9. PICK idle : idle = (x.realCmd = Idle)
  OBVIOUS
<1>10. InOrder(q, c, d, idle) /\ Timed(q) /\ Marked(p, x.entries, q) /\ ~x.prep
       /\ x.executed = p + Unplayed(q)
  BY <1>1, <1>5, <1>9 DEF Tape, Placed
<1>11. PICK t \in Nat : t = Unplayed(SubSeq(q, 1, k))
  BY <1>6, PartIsLess
<1>12. v.drained \in Int /\ v.playback \in Nat /\ v.executed \in Nat
  BY <1>6, WorkerFields
<1>13. Marked(v.playback, x.entries, r) /\ Timed(r)
  BY <1>6, <1>8, <1>10, MarkedSpent, TimedSpent
<1>14. Ordered(x, v)
  BY <1>1, <1>4, SpentOrdered
<1>15. Stands(v)
  <2>1. Sound(v)
    BY <1>1, <1>4, SpentSound
  <2>2. Held(v) /\ Placed(v) /\ Settles(v)
    BY <1>1, <1>5, <1>6, <1>7, <1>13 DEF Held, Same, Placed, Settles
  <2> QED BY <1>1, <1>6, <1>14, <2>1, <2>2 DEF Stands, Ordered
<1>16. InOrder(r, c, v.drained, idle) /\ v.executed = v.playback + Unplayed(r)
  BY <1>6, <1>7, <1>9, <1>14 DEF Ordered, Tape
<1>17. Unplayed(r) \in Nat
  BY UnplayedType
<1>18. x.playback <= v.playback /\ v.playback <= x.executed
  <2>1. v.playback = p + t + a /\ v.executed = v.playback + Unplayed(r)
    BY <1>6, <1>11, <1>16
  <2>2. p <= v.playback /\ v.playback <= v.executed
    BY <1>12, <1>17, <2>1
  <2> QED BY <1>5, <1>6, <2>2
<1>19. d <= v.drained /\ (t + a = 0 => d < v.drained)
  BY <1>6, <1>8, <1>10, <1>11, PlayingMoves
<1>20. v.drained < c
  BY <1>16 DEF InOrder
<1>21. x.limits.playLimit # Infinity => v.playback <= x.limits.playLimit
  <2> SUFFICES ASSUME x.limits.playLimit # Infinity PROVE v.playback <= x.limits.playLimit
    OBVIOUS
  <2>1. b = x.limits.playLimit - p
    BY <1>2, <1>5, <1>10 DEF Budget
  <2>2. x.limits.playLimit \in Nat
    <3>1. x.limits \in Grants
      BY <1>1, WorkerFields
    <3> QED BY <3>1 DEF Grants
  <2>3. b # Infinity
    <3>1. b \in Int
      BY <2>1, <2>2
    <3> QED BY <3>1, WorkerAssumption
  <2>4. t + a <= b
    BY <1>8, <1>11, <2>3
  <2> QED BY <1>6, <1>11, <2>1, <2>2, <2>4
<1>22. v.playback = x.playback => d < v.drained
  BY <1>5, <1>6, <1>11, <1>19
<1>23. ASSUME NEW e \in d + 1 .. v.drained PROVE EndOf(x.entries, e + 1) <= v.playback
  <2>1. EndOf(x.entries, e + 1) <= p + t
    <3>1. e \in Int /\ d < e /\ e <= LastClosed(q, k, d)
      BY <1>6, <1>12
    <3> QED BY <1>6, <1>10, <1>11, <3>1, DrainedPlayed
  <2>2. v.drained < Len(x.entries) /\ Len(x.entries) \in Nat /\ -1 <= d
    <3>1. x.cursor <= Len(x.entries) /\ x.entries \in Seq(PlanEntries)
      BY <1>1, WorkerFields DEF Sound
    <3>2. Len(x.entries) \in Nat
      BY <3>1
    <3> QED BY <1>5, <1>10, <1>12, <1>20, <3>1, <3>2 DEF InOrder
  <2>3. EndOf(x.entries, e + 1) \in Nat
    <3>1. PICK es \in Seq(PlanEntries) : es = x.entries
      BY <1>1, WorkerFields
    <3>2. e + 1 \in 1 .. Len(es) /\ e + 1 # 0
      BY <1>12, <2>2, <3>1
    <3>3. es[e + 1] \in Entries
      BY <3>2, PlanTypes
    <3>4. es[e + 1].end \in Nat
      BY <3>3 DEF Entries
    <3> QED BY <3>1, <3>2, <3>4 DEF EndOf
  <2> QED BY <1>6, <1>11, <2>1, <2>3
<1>24. ASSUME NEW e \in v.drained + 1 .. c - 1 PROVE v.playback <= EndOf(x.entries, e + 1)
  BY <1>12, <1>13, <1>16, UndrainedAhead
<1>25. Len(v.queue) <= Len(x.queue)
  <2>1. Len(r) = Len(q) - k /\ Len(q) \in Nat
    BY <1>8 DEF Remains
  <2> QED BY <1>5, <1>7, <2>1
<1>26. Played(x, v)
  BY <1>5, <1>6, <1>18, <1>19, <1>20, <1>21, <1>22, <1>23, <1>24, <1>25 DEF Played
<1> QED BY <1>2, <1>3, <1>15, <1>26

\* drain() plays, when something is left and may be played, and pumps again.
Drainable(x) ==
  /\ x.playback < x.executed \/ x.drained < x.cursor - 1
  /\ x.limits.playLimit = Infinity \/ x.playback < x.limits.playLimit

\* drain() does nothing, or plays what it may and pumps what that makes room for.
LEMMA DrainIs ==
  ASSUME NEW x, Stands(x)
  PROVE  /\ ~Drainable(x) => Drain(x) = x
         /\ Drainable(x) => \E v : Played(x, v) /\ Stands(v) /\ Drain(x) = Pump(v)
<1>1. x \in Workers /\ Tape(x) /\ Placed(x)
  BY DEF Stands
<1>2. PICK q \in Seq(Steps), c \in Nat, d \in Int, p \in Nat :
        q = x.queue /\ c = x.cursor /\ d = x.drained /\ p = x.playback
  BY <1>1, WorkerFields
<1>3. q # <<>> <=> (p < x.executed \/ d < c - 1)
  <2>1. InOrder(q, c, d, x.realCmd = Idle) /\ Timed(q) /\ x.executed = p + Unplayed(q)
    BY <1>1, <1>2 DEF Tape, Placed
  <2>2. Unplayed(q) \in Nat
    BY UnplayedType
  <2>3. q # <<>> <=> (0 < Unplayed(q) \/ d < c - 1)
    BY <2>1, QueueHas
  <2> QED BY <2>1, <2>2, <2>3
<1>4. Budget(x) # Infinity /\ Budget(x) <= 0
        <=> ~(x.limits.playLimit = Infinity \/ p < x.limits.playLimit)
  <2>1. x.limits.playLimit \in Nat \cup {Infinity}
    <3>1. x.limits \in Grants
      BY <1>1, WorkerFields
    <3> QED BY <3>1 DEF Grants
  <2>2. ~x.prep
    BY <1>1 DEF Tape
  <2>3. CASE x.limits.playLimit = Infinity
    BY <2>3 DEF Budget
  <2>4. CASE x.limits.playLimit # Infinity
    <3>1. PICK l \in Nat : l = x.limits.playLimit
      BY <2>1, <2>4
    <3>2. Budget(x) = l - p
      BY <1>2, <2>2, <2>4, <3>1 DEF Budget
    <3>3. l - p \in Int /\ l - p # Infinity
      BY WorkerAssumption
    <3> QED BY <2>4, <3>1, <3>2, <3>3
  <2> QED BY <2>3, <2>4
<1>5. ASSUME ~Drainable(x) PROVE Drain(x) = x
  <2>1. x.queue = <<>> \/ (Budget(x) # Infinity /\ Budget(x) <= 0)
    BY <1>2, <1>3, <1>4, <1>5 DEF Drainable
  <2> QED BY <2>1 DEF Drain
<1>6. ASSUME Drainable(x)
      PROVE  \E v : Played(x, v) /\ Stands(v) /\ Drain(x) = Pump(v)
  <2>1. x.queue # <<>> /\ ~(Budget(x) # Infinity /\ Budget(x) <= 0)
    BY <1>2, <1>3, <1>4, <1>6 DEF Drainable
  <2>2. Budget(x) # Infinity => 0 < Budget(x)
    <3>1. Budget(x) = Infinity \/ Budget(x) \in Int
      BY <1>1, BudgetType
    <3> QED BY <2>1, <3>1
  <2>3. PICK v : v = Spend(x, Budget(x))
    OBVIOUS
  <2>4. Played(x, v) /\ Stands(v)
    BY <2>1, <2>2, <2>3, SpendPlays
  <2>5. <<v.playback, v.drained>> # <<x.playback, x.drained>>
    BY <1>2, <2>4 DEF Played
  <2>6. Drain(x) = Pump(v)
    BY <2>1, <2>3, <2>5 DEF Drain, Released
  <2> QED BY <2>4, <2>6
<1> QED BY <1>5, <1>6

-----------------------------------------------------------------------------
(* pump(), drain() and the ack *)

\* v is u after pump(), as Lockstep says it.
PumpedTo(u, v) ==
  IF u.realCmd # Idle THEN v.cursor = u.cursor /\ v.realCmd # Idle
  ELSE /\ u.cursor <= v.cursor
       /\ \A j \in u.cursor .. v.cursor - 1 : May(u, j) /\ u.entries[j + 1].kind = "churn"
       /\ May(u, v.cursor) => u.entries[v.cursor + 1].kind = "command"
       /\ v.realCmd # Idle <=> May(u, v.cursor)

\* What is executed when pump() has got from u to v.
Reaches(u, v) ==
  v.executed = IF u.realCmd # Idle THEN u.executed ELSE EndOf(u.entries, v.cursor)

\* What pump() leaves alone.
StillThere(u, v) == Same(u, v) /\ v.playback = u.playback /\ v.drained = u.drained

\* pump() as Lockstep has it, as long as the queue has room.
LEMMA PumpIs ==
  ASSUME FieldPlan, NEW u, Stands(u)
  PROVE  \E v : /\ v = Pump(u) /\ Stands(v) /\ StillThere(u, v) /\ Reaches(u, v)
                /\ u.cursor <= v.cursor /\ v.cursor <= Len(u.entries)
                /\ Len(v.queue) = Len(u.queue) + Counted(u.entries, u.cursor, v.cursor)
                /\ Len(v.queue) < BACKLOG_CAP => PumpedTo(u, v)
<1>1. PICK v : v = Pump(u)
  OBVIOUS
<1>2. u \in Workers /\ ~u.parked /\ u.cursor \in Nat /\ u.queue \in Seq(Steps) /\ Held(u)
      /\ u.cursor <= Len(u.entries)
  BY WorkerFields DEF Stands, Sound
<1>3. CASE u.realCmd # Idle
  <2>1. v = u
    BY <1>1, <1>2, <1>3, PumpWaits
  <2>2. Counted(u.entries, u.cursor, u.cursor) = 0
    BY <1>2, CountedNone
  <2>3. Len(u.queue) = Len(u.queue) + 0
    BY <1>2
  <2> QED BY <1>1, <1>2, <1>3, <2>1, <2>2, <2>3 DEF StillThere, Same, Reaches, PumpedTo
<1>4. CASE u.realCmd = Idle
  <2>1. Pumped(u, v)
    BY <1>1, <1>4, PumpWalks
  <2>2. v \in Workers /\ Sound(v) /\ Tape(v) /\ Capped(v) /\ Placed(v) /\ Walks(u, v)
    BY <2>1 DEF Pumped, Walked, OrderKept, Kept, Ordered
  <2>3. StillThere(u, v) /\ Reaches(u, v) /\ u.cursor <= v.cursor
        /\ Len(v.queue) = Len(u.queue) + Counted(u.entries, u.cursor, v.cursor)
    BY <1>4, <2>2 DEF Walks, StillThere, Reaches
  <2>4. Stands(v)
    <3>1. Held(v) /\ ~v.parked /\ Settles(v)
      BY <1>2, <2>2 DEF Held, Walks, Same, Settles
    <3> QED BY <2>2, <3>1 DEF Stands
  <2>5. ASSUME Len(v.queue) < BACKLOG_CAP PROVE PumpedTo(u, v)
    <3>1. v.realCmd # Idle <=> May(u, v.cursor)
      BY <2>1, <2>2, <2>5 DEF Pumped, Walks
    <3> QED BY <1>4, <2>2, <3>1 DEF PumpedTo, Walks
  <2>6. v.cursor <= Len(u.entries)
    BY <2>2, <2>3 DEF Sound, StillThere, Same
  <2> QED BY <1>1, <2>3, <2>4, <2>5, <2>6
<1> QED BY <1>3, <1>4

\* Where pump() has stopped, it would not go on.
LEMMA PumpedAlready ==
  ASSUME NEW u, NEW x, PumpedTo(u, x), StillThere(u, x), x \in Workers
  PROVE  PumpedTo(x, x)
<1>1. \A j : May(x, j) <=> May(u, j)
  BY DEF May, StillThere, Same
<1>2. CASE x.realCmd # Idle
  BY <1>2 DEF PumpedTo
<1>3. CASE x.realCmd = Idle
  <2>1. ~May(u, x.cursor)
    BY <1>3 DEF PumpedTo
  <2>2. x.cursor \in Nat
    BY WorkerFields
  <2> QED BY <1>1, <1>3, <2>1, <2>2 DEF PumpedTo
<1> QED BY <1>2, <1>3

\* y is x after drain() has played what it may, or x when it may not.
DrainedTo(x, y) ==
  IF Drainable(x) THEN Played(x, y)
  ELSE y = x /\ x.playback <= x.executed /\ x.drained < x.cursor

\* pump() and drain(), which pumps again: what Lockstep's worker does of a grant.
Serves(u, x, y, v) ==
  /\ PumpedTo(u, x) /\ StillThere(u, x) /\ Reaches(u, x)
  /\ DrainedTo(x, y)
  /\ PumpedTo(y, v) /\ StillThere(y, v)
  /\ v.executed = IF u.realCmd # Idle THEN u.executed ELSE EndOf(u.entries, v.cursor)
  /\ u.cursor <= x.cursor /\ x.cursor <= v.cursor /\ v.cursor <= Len(u.entries)
  /\ -1 <= u.drained

\* A grant leaves the worker standing, and serves it as Lockstep says, as long as the queue
\* keeps room.
LEMMA ServesIs ==
  ASSUME FieldPlan, NEW u, Stands(u)
  PROVE  /\ Stands(Drain(Pump(u)))
         /\ Same(u, Drain(Pump(u)))
         /\ Len(u.queue) + Counted(u.entries, u.cursor, Drain(Pump(u)).cursor) < BACKLOG_CAP
              => \E x, y : /\ x \in Workers /\ y \in Workers /\ y.cursor = x.cursor
                           /\ y.realCmd = x.realCmd /\ Same(x, y)
                           /\ Serves(u, x, y, Drain(Pump(u)))
<1>1. PICK v : v = Drain(Pump(u))
  OBVIOUS
<1>2. PICK x : /\ x = Pump(u) /\ Stands(x) /\ StillThere(u, x) /\ Reaches(u, x)
               /\ u.cursor <= x.cursor /\ x.cursor <= Len(u.entries)
               /\ Len(x.queue) = Len(u.queue) + Counted(u.entries, u.cursor, x.cursor)
               /\ Len(x.queue) < BACKLOG_CAP => PumpedTo(u, x)
  BY PumpIs
<1>3. PICK es \in Seq(PlanEntries), b \in Nat, c \in Nat, n \in Nat, m \in Nat :
        /\ es = u.entries /\ b = u.cursor /\ c = x.cursor /\ n = Len(u.queue) /\ m = Len(x.queue)
  <2>1. u \in Workers /\ x \in Workers
    BY <1>2 DEF Stands
  <2>2. /\ u.entries \in Seq(PlanEntries) /\ u.cursor \in Nat /\ x.cursor \in Nat
        /\ u.queue \in Seq(Steps) /\ x.queue \in Seq(Steps)
    BY <2>1, WorkerFields
  <2>3. Len(u.queue) \in Nat /\ Len(x.queue) \in Nat
    BY <2>2
  <2> QED BY <2>2, <2>3
<1>4. x \in Workers /\ Same(u, x) /\ -1 <= u.drained
  BY <1>2 DEF Stands, StillThere, Tape, InOrder
<1>5. CASE ~Drainable(x)
  <2>1. v = x
    BY <1>1, <1>2, <1>5, DrainIs
  <2>2. ASSUME n + Counted(es, b, c) < BACKLOG_CAP PROVE Serves(u, x, x, x)
    <3>1. PumpedTo(u, x)
      BY <1>2, <1>3, <2>2
    <3>2. PumpedTo(x, x)
      BY <1>2, <1>4, <3>1, PumpedAlready
    <3>3. DrainedTo(x, x) /\ StillThere(x, x)
      <4>1. x.executed = x.playback + Unplayed(x.queue) /\ x.drained < x.cursor
        BY <1>2 DEF Stands, Tape, InOrder
      <4>2. Unplayed(x.queue) \in Nat /\ x.playback \in Nat
        BY <1>4, WorkerFields, UnplayedType
      <4> QED BY <1>5, <4>1, <4>2 DEF DrainedTo, StillThere, Same
    <3>4. x.cursor <= x.cursor
      BY <1>3
    <3> QED BY <1>2, <1>4, <3>1, <3>2, <3>3, <3>4 DEF Serves, Reaches
  <2>3. Same(x, x)
    BY DEF Same
  <2> QED BY <1>1, <1>2, <1>3, <1>4, <2>1, <2>2, <2>3
<1>6. CASE Drainable(x)
  <2>1. PICK y : Played(x, y) /\ Stands(y) /\ v = Pump(y)
    BY <1>1, <1>2, <1>6, DrainIs
  <2>2. /\ Stands(v) /\ StillThere(y, v) /\ Reaches(y, v)
        /\ y.cursor <= v.cursor /\ v.cursor <= Len(y.entries)
        /\ Len(v.queue) = Len(y.queue) + Counted(y.entries, y.cursor, v.cursor)
        /\ Len(v.queue) < BACKLOG_CAP => PumpedTo(y, v)
    <3>1. PICK z : /\ z = Pump(y) /\ Stands(z) /\ StillThere(y, z) /\ Reaches(y, z)
                   /\ y.cursor <= z.cursor /\ z.cursor <= Len(y.entries)
                   /\ Len(z.queue) = Len(y.queue) + Counted(y.entries, y.cursor, z.cursor)
                   /\ Len(z.queue) < BACKLOG_CAP => PumpedTo(y, z)
      BY <2>1, PumpIs
    <3> QED BY <2>1, <3>1
  <2>3. /\ y \in Workers /\ Same(x, y) /\ y.cursor = c /\ y.realCmd = x.realCmd
        /\ y.executed = x.executed /\ Len(y.queue) <= m /\ y.entries = es
    BY <1>2, <1>3, <2>1 DEF Stands, Played, StillThere, Same
  <2>4. Same(u, v)
    BY <1>4, <2>2, <2>3 DEF Same, StillThere
  <2>5. ASSUME n + Counted(es, b, v.cursor) < BACKLOG_CAP PROVE Serves(u, x, y, v)
    <3>1. PICK l \in Nat, e \in Nat : l = Len(y.queue) /\ e = v.cursor
      <4>1. y.queue \in Seq(Steps) /\ v \in Workers
        BY <2>2, <2>3, WorkerFields DEF Stands
      <4>2. v.cursor \in Nat /\ Len(y.queue) \in Nat
        BY <4>1, WorkerFields
      <4> QED BY <4>2
    <3>2. b <= c /\ c <= e /\ e <= Len(es)
      BY <1>2, <1>3, <2>2, <2>3, <3>1
    <3>3. Counted(es, b, e) = Counted(es, b, c) + Counted(es, c, e)
      BY <3>2, CountedParts
    <3>4. Counted(es, b, c) \in Nat /\ Counted(es, c, e) \in Nat /\ BACKLOG_CAP \in Nat
      <4>1. c <= Len(es)
        BY <1>2, <1>3
      <4> QED BY <3>2, <4>1, CountingIs, Caps
    <3>5. m = n + Counted(es, b, c) /\ Len(v.queue) = l + Counted(es, c, e) /\ l <= m
      BY <1>2, <1>3, <2>2, <2>3, <3>1
    <3>6. m < BACKLOG_CAP /\ Len(v.queue) < BACKLOG_CAP
      BY <2>5, <3>1, <3>3, <3>4, <3>5
    <3>7. PumpedTo(u, x) /\ PumpedTo(y, v)
      BY <1>2, <1>3, <2>2, <3>6
    <3>8. v.executed = IF u.realCmd # Idle THEN u.executed ELSE EndOf(u.entries, v.cursor)
      <4>1. CASE u.realCmd # Idle
        <5>1. x.realCmd # Idle /\ x.executed = u.executed
          BY <1>2, <3>7, <4>1 DEF PumpedTo, Reaches
        <5> QED BY <2>2, <2>3, <4>1, <5>1 DEF Reaches
      <4>2. CASE u.realCmd = Idle
        <5>1. x.executed = EndOf(es, c)
          BY <1>2, <1>3, <4>2 DEF Reaches
        <5>2. CASE x.realCmd # Idle
          <6>1. v.cursor = c /\ v.executed = x.executed
            BY <2>2, <2>3, <3>7, <5>2 DEF PumpedTo, Reaches
          <6> QED BY <1>3, <4>2, <5>1, <6>1
        <5>3. CASE x.realCmd = Idle
          BY <1>3, <2>2, <2>3, <4>2, <5>3 DEF Reaches
        <5> QED BY <5>2, <5>3
      <4> QED BY <4>1, <4>2
    <3>9. DrainedTo(x, y)
      BY <1>6, <2>1 DEF DrainedTo
    <3>10. u.cursor <= x.cursor /\ x.cursor <= v.cursor /\ v.cursor <= Len(u.entries)
      BY <1>3, <3>1, <3>2
    <3> QED BY <1>2, <1>4, <2>2, <3>7, <3>8, <3>9, <3>10 DEF Serves
  <2> QED BY <1>1, <1>3, <1>4, <2>2, <2>3, <2>4, <2>5
<1> QED BY <1>5, <1>6

-----------------------------------------------------------------------------
(* What is seen of the worker *)

\* What is seen of a value is the value, and what is seen of it when it changes.
LEMMA FieldIs ==
  /\ \A x : OnField(x)[OnTheField] = x
  /\ \A x, y : OnField(y) = [OnField(x) EXCEPT ![OnTheField] = y]
BY DEF OnField

\* An entry as the field sees it.
LEMMA SeenEntries ==
  ASSUME NEW list \in Seq(PlanEntries)
  PROVE  /\ Len(Abstract(list)) = Len(list)
         /\ \A n \in 1 .. Len(list) : Abstract(list)[n].kind = list[n].kind
         /\ \A n \in 0 .. Len(list) : Field!TapeEnd(Abstract(list), OnTheField, n) = EndOf(list, n)
<1>1. PICK m \in Nat : m = Len(list) /\ DOMAIN list = 1 .. m
  OBVIOUS
<1>2. PICK a : a = Abstract(list)
  OBVIOUS
<1>3. a = [i \in 1 .. m |-> [kind |-> list[i].kind, end |-> [s \in {OnTheField} |-> list[i].end]]]
  BY <1>1, <1>2 DEF Abstract, OnField
<1>4. \A n \in 1 .. m : a[n].kind = list[n].kind /\ a[n].end[OnTheField] = list[n].end
  BY <1>3
<1>5. Len(a) = m
  <2>1. \E V : a \in [1 .. m -> V]
    <3>1. a \in [1 .. m -> {a[i] : i \in 1 .. m}]
      BY <1>3
    <3> QED BY <3>1
  <2>2. PICK V : a \in [1 .. m -> V]
    BY <2>1
  <2>3. a \in Seq(V)
    BY ONLY <1>1, <2>2
  <2>4. DOMAIN a = 1 .. m
    BY <1>3
  <2> QED BY ONLY <1>1, <2>3, <2>4
<1>6. ASSUME NEW n \in 0 .. m PROVE Field!TapeEnd(a, OnTheField, n) = EndOf(list, n)
  <2>1. CASE n = 0
    BY <2>1 DEF Field!TapeEnd, EndOf
  <2>2. CASE n # 0
    BY <1>4, <2>2 DEF Field!TapeEnd, EndOf
  <2> QED BY <2>1, <2>2
<1> QED BY <1>1, <1>2, <1>4, <1>5, <1>6

\* pump() may go on, as the field sees it.
LEMMA SeenMay ==
  ASSUME NEW u \in Workers, u.runner = w'.runner, NEW j \in Nat
  PROVE  Field!MayExecute(OnTheField, Abstract(u.entries), u.limits, u.playback, j) <=> May(u, j)
<1>1. PICK es \in Seq(PlanEntries) : es = u.entries
  BY WorkerFields
<1>2. PICK a : a = Abstract(es)
  OBVIOUS
<1>3. Len(a) = Len(es) /\ (j <= Len(es) => Field!TapeEnd(a, OnTheField, j) = EndOf(es, j))
  BY <1>2, SeenEntries
<1>4. u.runner \in BOOLEAN /\ Len(es) \in Nat
  BY WorkerFields
<1>5. Field!MayExecute(OnTheField, a, u.limits, u.playback, j)
        <=> /\ w'.runner
            /\ j < u.limits.entryLimit
            /\ j < Len(a)
            /\ Field!TapeEnd(a, OnTheField, j) - u.playback < TAPE_CAP_FRAMES * u.limits.scale
  BY DEF Field!MayExecute, OnField
<1>6. CASE j < Len(es)
  BY <1>1, <1>2, <1>3, <1>4, <1>5, <1>6 DEF May
<1>7. CASE ~(j < Len(es))
  BY <1>1, <1>2, <1>3, <1>4, <1>5, <1>7 DEF May
<1> QED BY <1>6, <1>7

\* pump(), as the field sees it.
LEMMA SeenPump ==
  ASSUME NEW u \in Workers, u.runner = w'.runner, NEW v \in Workers, PumpedTo(u, v),
         v.cursor <= Len(u.entries)
  PROVE  Field!Pump(OnTheField, Abstract(u.entries), u.limits, u.playback, u.realCmd # Idle,
                    u.cursor, v.cursor, v.realCmd # Idle)
<1>1. u.cursor \in Nat /\ v.cursor \in Nat
  BY WorkerFields
<1>2. PICK es \in Seq(PlanEntries) : es = u.entries
  BY WorkerFields
<1>3. PICK a : a = Abstract(es)
  OBVIOUS
<1>4. CASE u.realCmd # Idle
  BY <1>4 DEF PumpedTo, Field!Pump
<1>5. CASE u.realCmd = Idle
  <2>1. /\ u.cursor <= v.cursor
        /\ \A j \in u.cursor .. v.cursor - 1 : May(u, j) /\ es[j + 1].kind = "churn"
        /\ May(u, v.cursor) => es[v.cursor + 1].kind = "command"
        /\ v.realCmd # Idle <=> May(u, v.cursor)
    BY <1>2, <1>5 DEF PumpedTo
  <2>2. \A j \in Nat :
          Field!MayExecute(OnTheField, a, u.limits, u.playback, j) <=> May(u, j)
    BY <1>2, <1>3, SeenMay
  <2>3. \A j \in Nat : j < Len(es) => a[j + 1].kind = es[j + 1].kind
    <3> SUFFICES ASSUME NEW j \in Nat, j < Len(es) PROVE a[j + 1].kind = es[j + 1].kind
      OBVIOUS
    <3>1. j + 1 \in 1 .. Len(es)
      OBVIOUS
    <3> QED BY <1>3, <3>1, SeenEntries
  <2>4. ASSUME NEW j \in u.cursor .. v.cursor - 1
        PROVE  /\ Field!MayExecute(OnTheField, a, u.limits, u.playback, j)
               /\ a[j + 1].kind = "churn"
    <3>1. j \in Nat /\ May(u, j) /\ es[j + 1].kind = "churn"
      BY <1>1, <2>1
    <3>2. j < Len(es)
      BY <1>2, <3>1 DEF May
    <3> QED BY <2>2, <2>3, <3>1, <3>2
  <2>5. Field!MayExecute(OnTheField, a, u.limits, u.playback, v.cursor)
          => a[v.cursor + 1].kind = "command"
    <3>1. May(u, v.cursor) => v.cursor < Len(es)
      BY <1>2 DEF May
    <3> QED BY <1>1, <2>1, <2>2, <2>3, <3>1
  <2>6. (v.realCmd # Idle) = Field!MayExecute(OnTheField, a, u.limits, u.playback, v.cursor)
    <3>1. (v.realCmd # Idle) <=> Field!MayExecute(OnTheField, a, u.limits, u.playback, v.cursor)
      BY <1>1, <2>1, <2>2
    <3> QED BY <3>1 DEF Field!MayExecute
  <2>7. Field!Pump(OnTheField, a, u.limits, u.playback, u.realCmd # Idle,
                   u.cursor, v.cursor, v.realCmd # Idle)
    BY <1>5, <2>1, <2>4, <2>5, <2>6 DEF Field!Pump
  <2> QED BY <1>2, <1>3, <2>7
<1> QED BY <1>4, <1>5

\* An ack, as the field sees it.
LEMMA SeenAppended ==
  ASSUME NEW box \in Seq(Acks), NEW a \in Acks
  PROVE  SeenAcks(Append(box, a)) = Append(SeenAcks(box), SeenAck(a))
<1>1. PICK m \in Nat : m = Len(box) /\ DOMAIN box = 1 .. m
  OBVIOUS
<1>2. PICK b : b = Append(box, a)
  OBVIOUS
<1>3. DOMAIN b = 1 .. m + 1 /\ b[m + 1] = a /\ \A n \in 1 .. m : b[n] = box[n]
  BY <1>1, <1>2
<1>4. SeenAcks(b) = [n \in 1 .. m + 1 |-> SeenAck(b[n])]
  BY <1>3 DEF SeenAcks
<1>5. SeenAcks(box) = [n \in 1 .. m |-> SeenAck(box[n])]
  BY <1>1 DEF SeenAcks
<1>6. PICK x : x = SeenAck(a)
  OBVIOUS
<1>7. PICK s : s = SeenAcks(box)
  OBVIOUS
<1>8. PICK t : t = SeenAcks(b)
  OBVIOUS
<1>9. /\ t = [n \in 1 .. m + 1 |-> t[n]] /\ t[m + 1] = x
      /\ s = [n \in 1 .. m |-> s[n]] /\ \A n \in 1 .. m : t[n] = s[n]
  <2>1. t[m + 1] = x
    BY <1>3, <1>4, <1>6, <1>8
  <2>2. \A n \in 1 .. m : t[n] = s[n]
    BY <1>3, <1>4, <1>5, <1>7, <1>8
  <2> QED BY <1>4, <1>5, <1>7, <1>8, <2>1, <2>2
<1>10. t = Append(s, x)
  <2>1. PICK V : V = {t[n] : n \in 1 .. m + 1}
    OBVIOUS
  <2>2. x \in V /\ \A n \in 1 .. m : s[n] \in V
    <3>1. m + 1 \in 1 .. m + 1 /\ \A n \in 1 .. m : n \in 1 .. m + 1
      OBVIOUS
    <3>2. \A n \in 1 .. m + 1 : t[n] \in V
      BY <2>1
    <3>3. \A n \in 1 .. m : t[n] = s[n]
      BY <1>9
    <3>4. t[m + 1] = x
      BY <1>9
    <3> QED BY <3>1, <3>2, <3>3, <3>4
  <2>3. s \in [1 .. m -> V] /\ t \in [1 .. m + 1 -> V]
    BY <1>9, <2>1, <2>2
  <2>4. s \in Seq(V) /\ t \in Seq(V)
    <3>1. m + 1 \in Nat
      OBVIOUS
    <3>2. s \in Seq(V)
      BY ONLY <1>1, <2>3
    <3>3. t \in Seq(V)
      BY ONLY <2>3, <3>1
    <3> QED BY <3>2, <3>3
  <2>5. Len(s) = m /\ Len(t) = m + 1
    BY <1>9, <2>4
  <2>6. Append(s, x) \in Seq(V) /\ Len(Append(s, x)) = m + 1
        /\ Append(s, x)[m + 1] = x /\ \A n \in 1 .. m : Append(s, x)[n] = s[n]
    BY <2>2, <2>4, <2>5
  <2>7. PICK z \in Seq(V) : z = Append(s, x)
    BY <2>6
  <2>8. \A n \in 1 .. Len(t) : t[n] = z[n]
    <3> SUFFICES ASSUME NEW n \in 1 .. m + 1 PROVE t[n] = z[n]
      BY <2>5
    <3>1. n \in 1 .. m \/ n = m + 1
      OBVIOUS
    <3>2. t[m + 1] = x /\ \A i \in 1 .. m : t[i] = s[i]
      BY <1>9
    <3> QED BY <2>6, <2>7, <3>1, <3>2
  <2> QED BY <2>4, <2>5, <2>6, <2>7, <2>8, SeqEqual
<1> QED BY <1>2, <1>6, <1>7, <1>8, <1>10

\* The message that is received, as the field sees it.
LEMMA SeenReceived ==
  ASSUME inbox \in Seq(Mail), NEW type, Receives(type)
  PROVE  /\ Field!Receives(OnTheField, type)
         /\ Head(SeenMail(inbox)) = Seen(Head(inbox))
         /\ Head(inbox) \in Mail /\ Head(inbox).type = type
<1>1. PICK box \in Seq(Mail) : box = inbox
  OBVIOUS
<1>2. box # <<>> /\ Head(box).type = type /\ inbox' = Tail(box)
      /\ UNCHANGED <<plan, epoch, sent, acked>>
  BY <1>1 DEF Receives
<1>3. PICK m \in Nat : Len(box) = m + 1 /\ DOMAIN box = 1 .. m + 1 /\ Head(box) = box[1]
  <2>1. Len(box) \in Nat \ {0} /\ DOMAIN box = 1 .. Len(box) /\ Head(box) = box[1]
    BY <1>2
  <2>2. Len(box) - 1 \in Nat /\ Len(box) = (Len(box) - 1) + 1
    BY <2>1
  <2> QED BY <2>1, <2>2
<1>4. PICK rest \in Seq(Mail) : /\ rest = Tail(box) /\ DOMAIN rest = 1 .. m
                                /\ \A n \in 1 .. m : rest[n] = box[n + 1]
  <2>1. Tail(box) \in Seq(Mail) /\ Len(Tail(box)) = Len(box) - 1
        /\ \A n \in 1 .. Len(Tail(box)) : Tail(box)[n] = box[n + 1]
    BY <1>2, HeadTailProperties
  <2>2. Len(Tail(box)) = m
    BY <1>3, <2>1
  <2>3. DOMAIN Tail(box) = 1 .. m
    BY <2>1, <2>2
  <2> QED BY <2>1, <2>2, <2>3
<1>5. PICK s : s = SeenMail(box)
  OBVIOUS
<1>6. PICK t : t = SeenMail(rest)
  OBVIOUS
<1>7. /\ s = [n \in 1 .. m + 1 |-> s[n]] /\ s[1] = Seen(box[1])
      /\ t = [n \in 1 .. m |-> t[n]] /\ \A n \in 1 .. m : t[n] = s[n + 1]
  <2>1. s = [n \in 1 .. m + 1 |-> Seen(box[n])]
    BY <1>3, <1>5 DEF SeenMail
  <2>2. t = [n \in 1 .. m |-> Seen(rest[n])]
    BY <1>4, <1>6 DEF SeenMail
  <2>3. 1 \in 1 .. m + 1 /\ \A n \in 1 .. m : n + 1 \in 1 .. m + 1
    OBVIOUS
  <2>4. s[1] = Seen(box[1])
    BY <2>1, <2>3
  <2>5. \A n \in 1 .. m : t[n] = s[n + 1]
    BY <1>4, <2>1, <2>2, <2>3
  <2> QED BY <2>1, <2>2, <2>4, <2>5
<1>8. s # <<>> /\ Head(s) = s[1] /\ t = Tail(s)
  <2>1. PICK V : V = {s[n] : n \in 1 .. m + 1}
    OBVIOUS
  <2>2. /\ 1 \in 1 .. m + 1 /\ m + 1 \in Nat
        /\ \A n \in 1 .. m : n + 1 \in 1 .. m + 1
    OBVIOUS
  <2>3. \A n \in 1 .. m + 1 : s[n] \in V
    BY <2>1
  <2>4. \A n \in 1 .. m : t[n] \in V
    <3>1. \A n \in 1 .. m : t[n] = s[n + 1]
      BY <1>7
    <3> QED BY <2>2, <2>3, <3>1
  <2>5. s \in [1 .. m + 1 -> V]
    <3>1. s = [n \in 1 .. m + 1 |-> s[n]]
      BY <1>7
    <3> QED BY <2>3, <3>1
  <2>6. t \in [1 .. m -> V]
    <3>1. t = [n \in 1 .. m |-> t[n]]
      BY <1>7
    <3> QED BY <2>4, <3>1
  <2>7. s \in Seq(V)
    BY ONLY <2>2, <2>5
  <2>8. t \in Seq(V)
    BY ONLY <1>3, <2>6
  <2>9. Len(s) = m + 1 /\ Len(t) = m
    BY <1>7, <2>2, <2>7, <2>8
  <2>10. s # <<>>
    BY <2>7, <2>9
  <2>11. Head(s) = s[1] /\ Tail(s) \in Seq(V) /\ Len(Tail(s)) = Len(s) - 1
         /\ \A n \in 1 .. Len(Tail(s)) : Tail(s)[n] = s[n + 1]
    BY <2>7, <2>10, HeadTailProperties
  <2>12. PICK z \in Seq(V) : z = Tail(s)
    BY <2>11
  <2>13. Len(z) = Len(t) /\ \A n \in 1 .. Len(t) : t[n] = z[n]
    <3>1. Len(z) = m
      BY <2>9, <2>11, <2>12
    <3>2. \A n \in 1 .. m : t[n] = s[n + 1]
      BY <1>7
    <3> QED BY <2>9, <2>11, <2>12, <3>1, <3>2
  <2>14. t = z
    BY ONLY <2>8, <2>12, <2>13, SeqEqual
  <2> QED BY <2>10, <2>11, <2>12, <2>14
<1>9. Head(SeenMail(inbox)) = Seen(Head(inbox))
  BY <1>1, <1>3, <1>5, <1>7, <1>8
<1>10. Head(inbox) \in Mail
  <2>1. 1 \in 1 .. m + 1
    OBVIOUS
  <2>2. box[1] \in Mail
    BY <1>3, <2>1
  <2> QED BY <1>1, <1>3, <2>2
<1>11. Seen(Head(inbox)).type = type
  <2>1. CASE Head(inbox).type = "ENTRIES"
    BY <1>1, <1>2, <2>1 DEF Seen
  <2>2. CASE Head(inbox).type # "ENTRIES"
    BY <1>1, <1>2, <2>2 DEF Seen
  <2> QED BY <2>1, <2>2
<1>12. SeenMail(inbox) # <<>> /\ SeenMail(inbox)' = Tail(SeenMail(inbox))
       /\ Head(SeenMail(inbox)).type = type
  <2>1. SeenMail(inbox)' = SeenMail(rest)
    BY <1>2, <1>4
  <2> QED BY <1>1, <1>5, <1>6, <1>8, <1>9, <1>11, <2>1
<1>13. Field!Receives(OnTheField, type)
  BY <1>12 DEF Field!Receives, Field!coordinator, OnField
<1> QED BY <1>1, <1>2, <1>9, <1>10, <1>13

\* drain(), as the field sees it.
LEMMA SeenDrain ==
  ASSUME NEW x \in Workers, NEW y \in Workers, DrainedTo(x, y), x.cursor <= Len(x.entries),
         x.entries = w.entries, x.playback = w.playback, x.drained = w.drained,
         -1 <= x.drained
  PROVE  /\ Field!Drain(OnTheField, x.limits, x.cursor, x.executed, y.playback, y.drained)
         /\ y.playback \in x.playback .. x.executed /\ y.drained \in x.drained .. x.cursor - 1
<1>1. PICK es \in Seq(PlanEntries) : es = x.entries
  BY WorkerFields
<1>2. PICK a : a = Abstract(es)
  OBVIOUS
<1>3. PICK c \in Nat, d \in Int, d2 \in Int, p \in Nat, p2 \in Nat :
        c = x.cursor /\ d = x.drained /\ d2 = y.drained /\ p = x.playback /\ p2 = y.playback
  BY WorkerFields
<1>4. x.executed \in Nat
  BY WorkerFields
<1>5. Drainable(x) <=> /\ x.executed > p \/ d < c - 1
                       /\ x.limits.playLimit = Infinity \/ x.limits.playLimit > p
  <2>1. x.limits \in Grants
    BY WorkerFields
  <2>2. x.limits.playLimit \in Nat \cup {Infinity}
    BY <2>1 DEF Grants
  <2> QED BY <1>3, <1>4, <2>2 DEF Drainable
<1>6. CASE ~Drainable(x)
  <2>1. y = x /\ p <= x.executed /\ d < c
    BY <1>3, <1>6 DEF DrainedTo
  <2>2. Field!Drain(OnTheField, x.limits, c, x.executed, p2, d2)
    BY <1>3, <1>5, <1>6, <2>1 DEF Field!Drain, OnField
  <2> QED BY <1>3, <1>4, <2>1, <2>2
<1>7. CASE Drainable(x)
  <2>1. /\ p <= p2 /\ p2 <= x.executed /\ d <= d2 /\ d2 < c
        /\ x.limits.playLimit # Infinity => p2 <= x.limits.playLimit
        /\ p2 = p => d < d2
        /\ \A e \in d + 1 .. d2 : EndOf(es, e + 1) <= p2
        /\ \A e \in d2 + 1 .. c - 1 : p2 <= EndOf(es, e + 1)
    BY <1>1, <1>3, <1>7 DEF DrainedTo, Played
  <2>2. \A n \in 0 .. Len(es) : Field!TapeEnd(a, OnTheField, n) = EndOf(es, n)
    BY <1>2, SeenEntries
  <2>3. -1 <= d
    BY <1>3
  <2>4. \A k \in d + 1 .. d2 : Field!PlayedOut(OnTheField, k, p2)
    <3> SUFFICES ASSUME NEW k \in d + 1 .. d2 PROVE Field!TapeEnd(a, OnTheField, k + 1) <= p2
      BY <1>1, <1>2 DEF Field!PlayedOut, OnField
    <3>1. c <= Len(es) /\ Len(es) \in Nat
      BY <1>1, <1>3
    <3>2. k + 1 \in 0 .. Len(es)
      BY <1>3, <2>1, <2>3, <3>1
    <3> QED BY <2>1, <2>2, <3>2
  <2>5. \A k \in d2 + 1 .. c - 1 : p2 <= Field!TapeEnd(a, OnTheField, k + 1)
    <3> SUFFICES ASSUME NEW k \in d2 + 1 .. c - 1 PROVE p2 <= Field!TapeEnd(a, OnTheField, k + 1)
      OBVIOUS
    <3>1. c <= Len(es) /\ Len(es) \in Nat
      BY <1>1, <1>3
    <3>2. k + 1 \in 0 .. Len(es)
      BY <1>3, <2>1, <2>3, <3>1
    <3> QED BY <2>1, <2>2, <3>2
  <2>6. Field!Within(p2, x.limits.playLimit)
    BY <2>1 DEF Field!Within
  <2>7. Field!Drain(OnTheField, x.limits, c, x.executed, p2, d2)
    BY <1>1, <1>2, <1>3, <1>5, <1>7, <2>1, <2>4, <2>5, <2>6 DEF Field!Drain, OnField
  <2> QED BY <1>3, <1>4, <2>1, <2>7
<1> QED BY <1>6, <1>7

\* What Serve asks of the worker it leaves.
ServedBy(g, a, b, n, m, f, started, after, p, d, r) ==
  /\ r = IF f THEN w.executed ELSE Field!TapeEnd(a, OnTheField, n)
  /\ Field!Pump(OnTheField, a, g, w.playback, f, b, n, started)
  /\ Field!Pump(OnTheField, a, g, p, started, n, m, after)
  /\ Field!Drain(OnTheField, g, n, r, p, d) /\ p \in w.playback .. r /\ d \in w.drained .. n - 1
  /\ n \in b .. Len(a) /\ m \in b .. Len(a) /\ Abstract(w.entries) = a
  /\ w'.playback = p /\ w'.drained = d /\ w'.cursor = m /\ (w'.realCmd # Idle) = after
  /\ w'.executed = IF f THEN w.executed ELSE Field!TapeEnd(a, OnTheField, m)
  /\ SeenAcks(outbox)' = Append(SeenAcks(outbox), Field!AckMsg(w.epoch,
       [round |-> g.round, playback |-> p, cursor |-> m, drained |-> d]))

\* A worker that is left so has served the grant, as the field sees it.
LEMMA ServeFrom ==
  ASSUME NEW g, NEW a, NEW b \in Nat, NEW n \in Nat, NEW m \in Nat, NEW f \in BOOLEAN,
         NEW started \in BOOLEAN, NEW after \in BOOLEAN, NEW p \in Nat, NEW d \in Int, NEW r,
         ServedBy(g, a, b, n, m, f, started, after, p, d, r)
  PROVE  Field!Serve(OnTheField, g, f, b)
<1> USE DEF ServedBy
<1> DEFINE s == OnTheField
           es == OnField(Abstract(w.entries))[s]
           played == OnField(w.playback)
           acks == OnField(SeenAcks(outbox))
           Plays(n2, m2, st, af, x, p2, d2) ==
             /\ Field!Drain(s, g, n2, x, p2, d2)
             /\ Field!Pump(s, es, g, p2, st, n2, m2, af)
             /\ played' = [played EXCEPT ![s] = p2]
             /\ OnField(w.drained)' = [OnField(w.drained) EXCEPT ![s] = d2]
             /\ acks' = [acks EXCEPT ![s] = Append(@, Field!AckMsg(OnField(w.epoch)[s],
                           [round |-> g.round, playback |-> p2, cursor |-> m2, drained |-> d2]))]
           Goal(n2, m2, st, af) ==
             /\ Field!Pump(s, es, g, played[s], f, b, n2, st)
             /\ LET x == IF f THEN OnField(w.executed)[s] ELSE Field!TapeEnd(es, s, n2)
                IN  \E p2 \in played[s] .. x, d2 \in OnField(w.drained)[s] .. n2 - 1 :
                      Plays(n2, m2, st, af, x, p2, d2)
             /\ OnField(w.cursor)' = [OnField(w.cursor) EXCEPT ![s] = m2]
             /\ OnField(w.realCmd # Idle)' = [OnField(w.realCmd # Idle) EXCEPT ![s] = af]
             /\ OnField(w.executed)' = [OnField(w.executed) EXCEPT
                                          ![s] = IF f THEN @ ELSE Field!TapeEnd(es, s, m2)]
<1>1. (\E n2, m2 \in b .. Len(es), st, af \in BOOLEAN : Goal(n2, m2, st, af))
        => Field!Serve(OnTheField, g, f, b)
  BY DEF Field!Serve
<1>2. /\ es = a /\ played[s] = w.playback /\ OnField(w.drained)[s] = w.drained
      /\ OnField(w.executed)[s] = w.executed /\ OnField(w.epoch)[s] = w.epoch
      /\ acks[s] = SeenAcks(outbox)
  BY FieldIs
<1>3. Plays(n, m, started, after, r, p, d)
  <2>1. played' = [played EXCEPT ![s] = p] /\ OnField(w.drained)' = [OnField(w.drained) EXCEPT ![s] = d]
    BY FieldIs
  <2>2. acks' = [acks EXCEPT ![s] = Append(@, Field!AckMsg(OnField(w.epoch)[s],
                           [round |-> g.round, playback |-> p, cursor |-> m, drained |-> d]))]
    BY <1>2, FieldIs
  <2> QED BY <1>2, <2>1, <2>2
<1> HIDE DEF Plays
<1>4. OnField(w.cursor)' = [OnField(w.cursor) EXCEPT ![s] = m]
      /\ OnField(w.realCmd # Idle)' = [OnField(w.realCmd # Idle) EXCEPT ![s] = after]
  BY FieldIs
<1>5. OnField(w.executed)' = [OnField(w.executed) EXCEPT
                                ![s] = IF f THEN @ ELSE Field!TapeEnd(es, s, m)]
  BY <1>2, FieldIs
<1>6. Goal(n, m, started, after)
  BY <1>2, <1>3, <1>4, <1>5
<1> HIDE DEF Goal
<1> QED BY <1>1, <1>2, <1>6
\* pump(), drain() and the ack, as the field sees them.
LEMMA SeenServe ==
  ASSUME NEW u \in Workers, NEW x \in Workers, NEW y \in Workers, NEW v \in Workers,
         Serves(u, x, y, v), y.cursor = x.cursor, y.realCmd = x.realCmd, Same(x, y), Same(u, v),
         w \in Workers, u.entries = w.entries, u.playback = w.playback, u.drained = w.drained,
         u.epoch = w.epoch, u.realCmd # Idle => u.executed = w.executed,
         w' = v, outbox \in Seq(Acks), outbox' = Append(outbox, AckOf(v))
  PROVE  Field!Serve(OnTheField, u.limits, u.realCmd # Idle, u.cursor)
<1>1. /\ PumpedTo(u, x) /\ StillThere(u, x) /\ Reaches(u, x) /\ DrainedTo(x, y)
      /\ PumpedTo(y, v) /\ StillThere(y, v)
      /\ v.executed = IF u.realCmd # Idle THEN u.executed ELSE EndOf(u.entries, v.cursor)
      /\ u.cursor <= x.cursor /\ x.cursor <= v.cursor /\ v.cursor <= Len(u.entries)
      /\ -1 <= u.drained
  BY DEF Serves
<1>2. PICK es \in Seq(PlanEntries) : es = u.entries
  BY WorkerFields
<1>3. PICK a : a = Abstract(es)
  OBVIOUS
<1>4. PICK b \in Nat, n \in Nat, m \in Nat : b = u.cursor /\ n = x.cursor /\ m = v.cursor
                                             /\ b <= n /\ n <= m /\ m <= Len(es)
  BY <1>1, <1>2, WorkerFields
<1>5. PICK f \in BOOLEAN, started \in BOOLEAN, after \in BOOLEAN :
        f = (u.realCmd # Idle) /\ started = (x.realCmd # Idle) /\ after = (v.realCmd # Idle)
  OBVIOUS
<1>6. PICK p \in Nat, d \in Int : p = y.playback /\ d = y.drained
  BY WorkerFields
<1>7. Len(a) = Len(es) /\ \A i \in 0 .. Len(es) : Field!TapeEnd(a, OnTheField, i) = EndOf(es, i)
  BY <1>3, SeenEntries
<1>8. /\ x.entries = es /\ x.limits = u.limits /\ x.runner = u.runner
      /\ y.entries = es /\ y.limits = u.limits /\ y.runner = u.runner
      /\ v.entries = es /\ v.limits = u.limits /\ v.runner = u.runner
      /\ v.epoch = w.epoch /\ v.playback = p /\ v.drained = d
      /\ x.playback = w.playback /\ x.drained = w.drained
  BY <1>1, <1>2, <1>6 DEF StillThere, Same
<1>9. Field!Pump(OnTheField, a, u.limits, w.playback, f, b, n, started)
  BY <1>1, <1>2, <1>3, <1>4, <1>5, <1>8, SeenPump
<1>10. Field!Pump(OnTheField, a, u.limits, p, started, n, m, after)
  <2>1. (y.realCmd # Idle) = started
    BY <1>5
  <2> QED BY <1>1, <1>2, <1>3, <1>4, <1>5, <1>6, <1>8, <2>1, SeenPump
<1>11. PICK r : r = x.executed
  OBVIOUS
<1>12. r = IF f THEN w.executed ELSE Field!TapeEnd(a, OnTheField, n)
  <2>1. n \in 0 .. Len(es)
    BY <1>4
  <2>2. Field!TapeEnd(a, OnTheField, n) = EndOf(es, n)
    BY <1>7, <2>1
  <2>3. CASE f
    BY <1>1, <1>5, <1>11, <2>3 DEF Reaches
  <2>4. CASE ~f
    BY <1>1, <1>2, <1>4, <1>5, <1>11, <2>2, <2>4 DEF Reaches
  <2> QED BY <2>3, <2>4
<1>13. Field!Drain(OnTheField, u.limits, n, r, p, d) /\ p \in w.playback .. r /\ d \in w.drained .. n - 1
  <2>1. x.cursor <= Len(x.entries) /\ x.entries = w.entries /\ -1 <= x.drained /\ DrainedTo(x, y)
    <3>1. n <= Len(es)
      BY <1>4
    <3> QED BY <1>1, <1>2, <1>4, <1>8, <3>1
  <2>2. /\ Field!Drain(OnTheField, x.limits, x.cursor, x.executed, y.playback, y.drained)
        /\ y.playback \in x.playback .. x.executed /\ y.drained \in x.drained .. x.cursor - 1
    BY <1>8, <2>1, SeenDrain
  <2> QED BY <1>4, <1>6, <1>8, <1>11, <2>2
<1>14. v.executed = IF f THEN w.executed ELSE Field!TapeEnd(a, OnTheField, m)
  <2>1. m \in 0 .. Len(es)
    BY <1>4
  <2>2. Field!TapeEnd(a, OnTheField, m) = EndOf(es, m)
    BY <1>7, <2>1
  <2>3. CASE f
    BY <1>1, <1>5, <2>3
  <2>4. CASE ~f
    BY <1>1, <1>2, <1>4, <1>5, <2>2, <2>4
  <2> QED BY <2>3, <2>4
<1>15. SeenAcks(outbox') = Append(SeenAcks(outbox),
         Field!AckMsg(w.epoch, [round |-> u.limits.round, playback |-> p, cursor |-> m, drained |-> d]))
  <2>1. AckOf(v) \in Acks
    BY AckType
  <2>2. SeenAck(AckOf(v)) =
          Field!AckMsg(w.epoch, [round |-> u.limits.round, playback |-> p, cursor |-> m, drained |-> d])
    BY <1>4, <1>8 DEF SeenAck, AckOf, Field!AckMsg
  <2> QED BY <2>1, <2>2, SeenAppended
<1>16. n \in b .. Len(a) /\ m \in b .. Len(a)
  BY <1>4, <1>7
<1>17. /\ w'.playback = p /\ w'.drained = d /\ w'.cursor = m /\ w'.executed = v.executed
       /\ (w'.realCmd # Idle) = after
  BY <1>4, <1>5, <1>8
<1>18. w.entries = es /\ Abstract(w.entries) = a
  BY <1>2, <1>3
<1>19. SeenAcks(outbox)' = Append(SeenAcks(outbox),
         Field!AckMsg(w.epoch, [round |-> u.limits.round, playback |-> p, cursor |-> m, drained |-> d]))
  <2>1. SeenAcks(outbox)' = SeenAcks(outbox')
    BY DEF SeenAcks
  <2> QED BY ONLY <1>15, <2>1
<1>20. w'.executed = IF f THEN w.executed ELSE Field!TapeEnd(a, OnTheField, m)
  BY ONLY <1>14, <1>17
<1>21. PICK g : g = u.limits
  OBVIOUS
<1>22. Field!Serve(OnTheField, g, f, b)
  <2>1. /\ Field!Pump(OnTheField, a, g, w.playback, f, b, n, started)
        /\ Field!Pump(OnTheField, a, g, p, started, n, m, after)
        /\ Field!Drain(OnTheField, g, n, r, p, d)
    BY ONLY <1>9, <1>10, <1>13, <1>21
  <2>2. SeenAcks(outbox)' = Append(SeenAcks(outbox), Field!AckMsg(w.epoch,
           [round |-> g.round, playback |-> p, cursor |-> m, drained |-> d]))
    BY ONLY <1>19, <1>21
  <2>3. /\ p \in w.playback .. r /\ d \in w.drained .. n - 1
        /\ n \in b .. Len(a) /\ m \in b .. Len(a) /\ Abstract(w.entries) = a
        /\ w'.playback = p /\ w'.drained = d /\ w'.cursor = m /\ (w'.realCmd # Idle) = after
    BY ONLY <1>13, <1>16, <1>17, <1>18
  <2>4. ServedBy(g, a, b, n, m, f, started, after, p, d, r)
    BY ONLY <1>12, <1>20, <2>1, <2>2, <2>3 DEF ServedBy
  <2> QED BY ONLY <2>4, ServeFrom
<1> QED BY <1>4, <1>5, <1>21, <1>22

-----------------------------------------------------------------------------
(* The bodies of its commands *)

\* What is left of the body of the command in flight takes the tape to the end of its entry.
BodyOf(u, f) ==
  TimedScript(f.script) /\ u.executed + Duration(f.script) = EndOf(u.entries, u.cursor + 1)

Bodies(u, fs) == \A f \in fs : f.epoch = u.epoch => BodyOf(u, f)

\* The strengthened invariant, for the workloads that Lockstep has.
FInv == MInv /\ (Compiles => Stands(w) /\ Bodies(w, fibers))

\* What is executed when pump() and drain() are done, however full the queue is.
Leads(u, v) ==
  /\ Same(u, v) /\ Stands(v) /\ Reaches(u, v)
  /\ u.realCmd # Idle => v.cursor = u.cursor /\ v.realCmd = u.realCmd

\* pump() leads to where the entries end.
LEMMA PumpLeads ==
  ASSUME FieldPlan, NEW u, Stands(u)
  PROVE  Leads(u, Pump(u))
<1>1. PICK v : v = Pump(u) /\ Stands(v) /\ StillThere(u, v) /\ Reaches(u, v)
  BY PumpIs
<1>2. u.realCmd # Idle => v = u
  BY <1>1, PumpWaits DEF Stands
<1> QED BY <1>1, <1>2 DEF Leads, StillThere

\* So does drain() after it.
LEMMA DrainLeads ==
  ASSUME FieldPlan, NEW u, Stands(u)
  PROVE  Leads(u, Drain(Pump(u)))
<1>1. PICK x : x = Pump(u)
  OBVIOUS
<1>2. Leads(u, x) /\ Stands(x)
  BY <1>1, PumpLeads DEF Leads
<1>3. CASE ~Drainable(x)
  BY <1>1, <1>2, <1>3, DrainIs
<1>4. CASE Drainable(x)
  <2>1. PICK y : Played(x, y) /\ Stands(y) /\ Drain(x) = Pump(y)
    BY <1>2, <1>4, DrainIs
  <2>2. PICK v : v = Pump(y)
    OBVIOUS
  <2>3. Leads(y, v)
    BY <2>1, <2>2, PumpLeads
  <2>4. Same(x, y) /\ y.cursor = x.cursor /\ y.realCmd = x.realCmd /\ y.executed = x.executed
    BY <2>1 DEF Played
  <2>5. Same(u, v) /\ Stands(v)
    BY <1>2, <2>3, <2>4 DEF Leads, Same
  <2>6. CASE u.realCmd # Idle
    <3>1. x.cursor = u.cursor /\ x.realCmd = u.realCmd /\ x.executed = u.executed
      BY <1>2, <2>6 DEF Leads, Reaches
    <3>2. v.cursor = u.cursor /\ v.realCmd = u.realCmd /\ v.executed = u.executed
      BY <2>3, <2>4, <2>6, <3>1 DEF Leads, Reaches
    <3> QED BY <1>1, <2>1, <2>2, <2>5, <2>6, <3>2 DEF Leads, Reaches
  <2>7. CASE u.realCmd = Idle
    <3>1. v.executed = EndOf(u.entries, v.cursor)
      <4>1. CASE y.realCmd # Idle
        <5>1. v.executed = x.executed /\ v.cursor = x.cursor
          BY <2>3, <2>4, <4>1 DEF Leads, Reaches
        <5> QED BY <1>2, <2>7, <5>1 DEF Leads, Reaches
      <4>2. CASE y.realCmd = Idle
        <5>1. y.entries = u.entries
          BY <1>2, <2>4 DEF Leads, Same
        <5> QED BY <2>3, <4>2, <5>1 DEF Leads, Reaches
      <4> QED BY <4>1, <4>2
    <3> QED BY <1>1, <2>1, <2>2, <2>5, <2>7, <3>1 DEF Leads, Reaches
  <2> QED BY <2>6, <2>7
<1> QED BY <1>3, <1>4

\* The body of the entry at the cursor, when nothing of it is executed yet.
LEMMA NewBody ==
  ASSUME FieldPlan, NEW v, Stands(v), v.realCmd # Idle, v.executed = EndOf(v.entries, v.cursor),
         NEW f, f.script = v.entries[v.realCmd + 1].script
  PROVE  BodyOf(v, f)
<1>1. v \in Workers /\ Held(v) /\ v.realCmd = v.cursor /\ v.cursor < Len(v.entries)
  BY DEF Stands, Sound
<1>2. PICK c \in Nat : c = v.cursor
  BY <1>1, WorkerFields
<1>3. Len(v.entries) \in Nat
  BY <1>1, WorkerFields
<1>4. c + 1 \in 1 .. Len(v.entries) /\ (c + 1) - 1 = c
  BY <1>1, <1>2, <1>3
<1>5. /\ TimedEntry(v.entries[c + 1])
      /\ EndOf(v.entries, c + 1) = EndOf(v.entries, (c + 1) - 1) + Duration(v.entries[c + 1].script)
  BY <1>1, <1>4, HeldTimed DEF FieldPlan
<1>6. TimedScript(f.script)
  BY <1>1, <1>2, <1>5 DEF TimedEntry
<1> QED BY <1>1, <1>2, <1>4, <1>5, <1>6 DEF BodyOf

\* A command that pump() starts has its body; that of the one in flight is as before.
LEMMA BecomingBodies ==
  ASSUME FieldPlan, Types, OneBody, Sound(w), Held(w), Bodies(w, fibers),
         NEW u \in Workers, Held(u), u.epoch = w.epoch, u.cursor = w.cursor, u.realCmd = w.realCmd,
         u.executed = w.executed, Len(w.entries) <= Len(u.entries),
         NEW v, Leads(u, v), Become(v)
  PROVE  Bodies(w', fibers')
<1>1. w' = v /\ v.epoch = w.epoch /\ v.entries = u.entries /\ w \in Workers
  BY DEF Become, Leads, Same, Types
<1> SUFFICES ASSUME NEW f \in fibers', f.epoch = v.epoch PROVE BodyOf(v, f)
  BY <1>1 DEF Bodies
<1>2. CASE f \in fibers
  <2>1. BodyOf(w, f) /\ w.realCmd # Idle /\ w.realCmd = w.cursor /\ w.cursor < Len(w.entries)
    BY <1>1, <1>2, InFlight DEF Bodies
  <2>2. v.cursor = w.cursor /\ v.executed = w.executed
    BY <2>1 DEF Leads, Reaches
  <2>3. PICK c \in Nat : c = w.cursor
    BY <1>1, WorkerFields
  <2>4. Len(w.entries) \in Nat /\ Len(u.entries) \in Nat
    BY <1>1, WorkerFields
  <2>5. c + 1 \in 1 .. Len(w.entries) /\ c + 1 \in 1 .. Len(u.entries)
    BY <2>1, <2>3, <2>4
  <2>6. u.entries[c + 1] = w.entries[c + 1]
    BY <2>5 DEF Held
  <2>7. EndOf(v.entries, c + 1) = EndOf(w.entries, c + 1)
    BY <1>1, <2>3, <2>6 DEF EndOf
  <2> QED BY <2>1, <2>2, <2>3, <2>7 DEF BodyOf
<1>3. CASE f \notin fibers
  <2>1. /\ v.realCmd # Idle /\ v.realCmd # w.realCmd
        /\ f = [epoch  |-> v.epoch, index |-> v.realCmd,
                script |-> v.entries[v.realCmd + 1].script]
    BY <1>3 DEF Become
  <2>2. u.realCmd = Idle
    BY <2>1 DEF Leads
  <2>3. v.executed = EndOf(v.entries, v.cursor) /\ Stands(v)
    BY <1>1, <2>2 DEF Leads, Reaches
  <2> QED BY <2>1, <2>3, NewBody
<1> QED BY <1>2, <1>3

-----------------------------------------------------------------------------
(* Its handlers *)

\* A step that changes nothing of what the field sees of the worker.
Unseen == UNCHANGED <<Field!worker, outbox>>

\* A worker that changes in nothing that is seen.
LEMMA UnseenIs ==
  ASSUME w'.epoch = w.epoch, w'.runner = w.runner, w'.entries = w.entries,
         w'.cursor = w.cursor, w'.realCmd = w.realCmd, w'.executed = w.executed,
         w'.playback = w.playback, w'.drained = w.drained, w'.limits = w.limits,
         outbox' = outbox
  PROVE  Unseen
BY DEF Unseen, Field!worker

\* The fields that say nothing of the place of the tape do not matter to Stands.
LEMMA StandsAlike ==
  ASSUME NEW u, NEW v, Stands(u), v \in Workers, Alike(u, v), v.entries = u.entries,
         v.parked = u.parked
  PROVE  Stands(v)
<1>1. Held(v) /\ Sound(v) /\ Tape(v) /\ Capped(v)
  BY DEF Stands, Held, Sound, Tape, Capped, Alike
<1>2. Placed(v) /\ Settles(v) /\ ~v.parked
  BY DEF Stands, Placed, Settles, Alike
<1> QED BY <1>1, <1>2 DEF Stands

\* A body depends on the epoch, the entries, the cursor and what is executed alone.
LEMMA BodiesAlike ==
  ASSUME NEW v, Bodies(w, fibers), v.epoch = w.epoch, v.executed = w.executed,
         v.cursor = w.cursor, v.entries = w.entries
  PROVE  Bodies(v, fibers)
BY DEF Bodies, BodyOf

\* A grant.
LEMMA GrantImplements ==
  ASSUME FieldPlan, MInv, Stands(w), Bodies(w, fibers), HandleGrant
  PROVE  /\ Stands(w') /\ Bodies(w', fibers')
         /\ RoomInBacklog => Field!HandleGrant(OnTheField) \/ Unseen
<1>1. /\ Types /\ OneBody /\ Sound(w) /\ Held(w) /\ w \in Workers
      /\ outbox \in Seq(Acks) /\ inbox \in Seq(Mail)
  BY DEF MInv, WInv, Shipped, Types
<1>2. Receives("GRANT")
  BY DEF HandleGrant
<1>3. /\ Field!Receives(OnTheField, "GRANT") /\ Head(SeenMail(inbox)) = Seen(Head(inbox))
      /\ Head(inbox) \in Mail /\ Head(inbox).type = "GRANT"
  BY <1>1, <1>2, SeenReceived
<1>4. PICK m \in Mail : m = Head(inbox) /\ m.type = "GRANT"
  BY <1>3
<1>5. m.grant \in Grants
  BY <1>4 DEF Mail
<1>6. CASE m.epoch # w.epoch
  <2>1. w' = w /\ fibers' = fibers /\ outbox' = outbox
    BY <1>4, <1>6 DEF HandleGrant
  <2> QED BY <2>1, UnseenIs
<1>7. CASE m.epoch = w.epoch
  <2>1. PICK u : u = [w EXCEPT !.limits = m.grant]
    OBVIOUS
  <2>2. u \in Workers /\ Sound(u) /\ Alike(w, u) /\ u.entries = w.entries /\ u.runner = w.runner
    BY <1>1, <1>5, <2>1, WithLimits
  <2>3. u.parked = w.parked /\ u.limits = m.grant
    BY <1>1, <2>1 DEF Workers
  <2>4. Stands(u)
    BY <2>2, <2>3, StandsAlike
  <2>5. PICK v : v = Drain(Pump(u))
    OBVIOUS
  <2>6. Become(v) /\ w' = v /\ outbox' = Append(outbox, AckOf(v))
    BY <1>4, <1>7, <2>1, <2>5 DEF HandleGrant, Become
  <2>7. Leads(u, v) /\ Stands(v) /\ v \in Workers
    BY <2>4, <2>5, DrainLeads DEF Leads, Stands
  <2>8. Bodies(w', fibers')
    <3>1. Held(u) /\ Len(w.entries) <= Len(u.entries)
      BY <1>1, <2>2, <2>4, WorkerFields DEF Stands
    <3> QED BY <1>1, <2>2, <2>6, <2>7, <3>1, BecomingBodies DEF Alike
  <2>9. ASSUME RoomInBacklog PROVE Field!HandleGrant(OnTheField)
    <3>1. Len(u.queue) + Counted(u.entries, u.cursor, v.cursor) < BACKLOG_CAP
      <4>1. v.entries = u.entries /\ u.cursor = w.cursor /\ u.queue = w.queue
        BY <2>2, <2>7 DEF Leads, Same, Alike
      <4> QED BY <2>6, <2>9, <4>1 DEF RoomInBacklog, Counted, Counting
    <3>2. PICK x \in Workers, y \in Workers :
            y.cursor = x.cursor /\ y.realCmd = x.realCmd /\ Same(x, y) /\ Serves(u, x, y, v)
      BY <2>4, <2>5, <3>1, ServesIs
    <3>3. Same(u, v)
      BY <2>7 DEF Leads
    <3>4. Field!Serve(OnTheField, u.limits, u.realCmd # Idle, u.cursor)
      BY <1>1, <2>2, <2>6, <2>7, <3>2, <3>3, SeenServe DEF Alike
    <3>5. Field!Serve(OnTheField, w'.limits, w.realCmd # Idle, w.cursor)
      <4>1. w'.limits = u.limits /\ u.realCmd = w.realCmd /\ u.cursor = w.cursor
        BY <2>2, <2>6, <3>3 DEF Same, Alike
      <4> QED BY ONLY <3>4, <4>1
    <3>6. w'.epoch = w.epoch /\ w'.runner = w.runner /\ w'.entries = w.entries /\ w'.limits = m.grant
      BY <2>2, <2>3, <2>6, <3>3 DEF Same, Alike
    <3>7. Seen(Head(inbox)) = m
      BY <1>4 DEF Seen
    <3>8. OnField(w.limits)'[OnTheField] = w'.limits /\ OnField(w.realCmd # Idle)[OnTheField] = (w.realCmd # Idle)
          /\ OnField(w.cursor)[OnTheField] = w.cursor /\ OnField(w.epoch)[OnTheField] = w.epoch
          /\ OnField(SeenMail(inbox))[OnTheField] = SeenMail(inbox)
      BY FieldIs
    <3>9. Field!Serve(OnTheField, OnField(w.limits)'[OnTheField],
                      OnField(w.realCmd # Idle)[OnTheField], OnField(w.cursor)[OnTheField])
      BY ONLY <3>5, <3>8
    <3>10. OnField(w.limits)' = [OnField(w.limits) EXCEPT ![OnTheField] = m.grant]
      BY ONLY <3>6, FieldIs
    <3>11. UNCHANGED <<OnField(w.epoch), OnField(w.runner), OnField(Abstract(w.entries))>>
      BY ONLY <3>6
    <3>12. Head(OnField(SeenMail(inbox))[OnTheField]).epoch = OnField(w.epoch)[OnTheField]
           /\ Head(OnField(SeenMail(inbox))[OnTheField]).grant = m.grant
      BY <1>3, <1>7, <3>7, <3>8
    <3> QED BY <1>3, <3>9, <3>10, <3>11, <3>12 DEF Field!HandleGrant
  <2> QED BY <2>6, <2>7, <2>8, <2>9
<1> QED BY <1>6, <1>7

\* What PumpOnly asks of the worker it leaves.
PumpedBy(a, b, n, f, after) ==
  /\ Field!Pump(OnTheField, a, w.limits, w.playback, f, b, n, after)
  /\ n \in b .. Len(a) /\ b = w.cursor /\ (w.realCmd # Idle) = f
  /\ w'.cursor = n /\ (w'.realCmd # Idle) = after
  /\ w'.executed = IF f THEN w.executed ELSE Field!TapeEnd(a, OnTheField, n)
  /\ w'.epoch = w.epoch /\ w'.playback = w.playback /\ w'.drained = w.drained
  /\ w'.limits = w.limits /\ outbox' = outbox

\* A worker that is left so has only pumped, as the field sees it.
LEMMA PumpOnlyFrom ==
  ASSUME NEW a, NEW b \in Nat, NEW n \in Nat, NEW f \in BOOLEAN, NEW after \in BOOLEAN,
         PumpedBy(a, b, n, f, after)
  PROVE  Field!PumpOnly(OnTheField, a)
<1> USE DEF PumpedBy
<1> DEFINE s == OnTheField
           Goal(n2, af) ==
             /\ Field!Pump(s, a, OnField(w.limits)[s], OnField(w.playback)[s],
                           OnField(w.realCmd # Idle)[s], OnField(w.cursor)[s], n2, af)
             /\ OnField(w.cursor)' = [OnField(w.cursor) EXCEPT ![s] = n2]
             /\ OnField(w.realCmd # Idle)' = [OnField(w.realCmd # Idle) EXCEPT ![s] = af]
             /\ OnField(w.executed)' = [OnField(w.executed) EXCEPT
                  ![s] = IF OnField(w.realCmd # Idle)[s] THEN @ ELSE Field!TapeEnd(a, s, n2)]
             /\ UNCHANGED <<OnField(w.epoch), OnField(w.playback), OnField(w.drained),
                            OnField(w.limits), OnField(SeenAcks(outbox))>>
<1>1. (\E n2 \in OnField(w.cursor)[s] .. Len(a), af \in BOOLEAN : Goal(n2, af))
        => Field!PumpOnly(OnTheField, a)
  BY DEF Field!PumpOnly
<1>2. /\ OnField(w.limits)[s] = w.limits /\ OnField(w.playback)[s] = w.playback
      /\ OnField(w.realCmd # Idle)[s] = f /\ OnField(w.cursor)[s] = b
      /\ OnField(w.executed)[s] = w.executed
  BY FieldIs
<1>3. OnField(w.cursor)' = [OnField(w.cursor) EXCEPT ![s] = n]
      /\ OnField(w.realCmd # Idle)' = [OnField(w.realCmd # Idle) EXCEPT ![s] = after]
  BY FieldIs
<1>4. OnField(w.executed)' = [OnField(w.executed) EXCEPT
        ![s] = IF OnField(w.realCmd # Idle)[s] THEN @ ELSE Field!TapeEnd(a, s, n)]
  BY <1>2, FieldIs
<1>5. UNCHANGED <<OnField(w.epoch), OnField(w.playback), OnField(w.drained),
                  OnField(w.limits), OnField(SeenAcks(outbox))>>
  BY DEF SeenAcks
<1>6. Goal(n, after)
  BY <1>2, <1>3, <1>4, <1>5
<1> HIDE DEF Goal
<1> QED BY <1>1, <1>2, <1>6

\* pump() alone, as the field sees it.
LEMMA SeenPumpOnly ==
  ASSUME NEW u \in Workers, NEW v \in Workers, PumpedTo(u, v), StillThere(u, v), Reaches(u, v),
         u.cursor <= v.cursor, v.cursor <= Len(u.entries), Alike(w, u), u.limits = w.limits,
         w' = v, outbox' = outbox
  PROVE  Field!PumpOnly(OnTheField, Abstract(u.entries))
<1>1. PICK es \in Seq(PlanEntries) : es = u.entries
  BY WorkerFields
<1>2. PICK a : a = Abstract(es)
  OBVIOUS
<1>3. PICK b \in Nat, n \in Nat : b = u.cursor /\ n = v.cursor /\ b <= n /\ n <= Len(es)
  BY <1>1, WorkerFields
<1>4. PICK f \in BOOLEAN, after \in BOOLEAN :
        f = (u.realCmd # Idle) /\ after = (v.realCmd # Idle)
  OBVIOUS
<1>5. Len(a) = Len(es) /\ Field!TapeEnd(a, OnTheField, n) = EndOf(es, n)
  <2>1. n \in 0 .. Len(es)
    BY <1>3
  <2> QED BY <1>2, <2>1, SeenEntries
<1>6. Same(u, v) /\ v.playback = u.playback /\ v.drained = u.drained
  BY DEF StillThere
<1>7. Field!Pump(OnTheField, a, u.limits, u.playback, f, b, n, after)
  <2>1. u.runner = w'.runner
    BY <1>6 DEF Same
  <2> QED BY <1>1, <1>2, <1>3, <1>4, <2>1, SeenPump
<1>8. u.limits = w.limits /\ u.playback = w.playback /\ u.cursor = w.cursor /\ u.realCmd = w.realCmd
      /\ u.executed = w.executed /\ u.drained = w.drained /\ u.epoch = w.epoch
  BY DEF Alike
<1>9. Field!Pump(OnTheField, a, w.limits, w.playback, f, b, n, after)
  BY ONLY <1>7, <1>8
<1>10. w'.executed = IF f THEN w.executed ELSE Field!TapeEnd(a, OnTheField, n)
  <2>1. CASE f
    BY <1>4, <1>8, <2>1 DEF Reaches
  <2>2. CASE ~f
    BY <1>1, <1>3, <1>4, <1>5, <2>2 DEF Reaches
  <2> QED BY <2>1, <2>2
<1>11. /\ n \in b .. Len(a) /\ b = w.cursor /\ (w.realCmd # Idle) = f
       /\ w'.cursor = n /\ (w'.realCmd # Idle) = after
       /\ w'.epoch = w.epoch /\ w'.playback = w.playback /\ w'.drained = w.drained
       /\ w'.limits = w.limits /\ outbox' = outbox
  BY <1>3, <1>4, <1>5, <1>6, <1>8 DEF Same
<1>12. PumpedBy(a, b, n, f, after)
  BY ONLY <1>9, <1>10, <1>11 DEF PumpedBy
<1>13. Field!PumpOnly(OnTheField, a)
  BY ONLY <1>12, PumpOnlyFrom
<1> QED BY <1>1, <1>2, <1>13

\* The landing of the runner.
LEMMA LandingImplements ==
  ASSUME FieldPlan, MInv, Stands(w), Bodies(w, fibers), RunnerLands
  PROVE  /\ Stands(w') /\ Bodies(w', fibers')
         /\ RoomInBacklog => Field!RunnerReady(OnTheField) \/ Unseen
<1>1. /\ Types /\ OneBody /\ Sound(w) /\ Held(w) /\ w \in Workers
  BY DEF MInv, WInv, Shipped, Types
<1>2. PICK u : u = [w EXCEPT !.runner = TRUE]
  OBVIOUS
<1>3. u \in Workers /\ Sound(u) /\ Alike(w, u) /\ u.entries = w.entries
  BY <1>1, <1>2, WithRunner
<1>4. u.parked = w.parked /\ u.limits = w.limits /\ u.runner
  BY <1>1, <1>2 DEF Workers
<1>5. Stands(u)
  BY <1>3, <1>4, StandsAlike
<1>6. PICK v : v = Pump(u)
  OBVIOUS
<1>7. Become(v) /\ w' = v /\ ~w.runner /\ UNCHANGED <<plan, epoch, sent, acked, inbox, outbox>>
  BY <1>2, <1>6 DEF RunnerLands, Become
<1>8. Leads(u, v) /\ Stands(v) /\ v \in Workers
  BY <1>5, <1>6, PumpLeads DEF Leads, Stands
<1>9. Bodies(w', fibers')
  <2>1. Held(u) /\ Len(w.entries) <= Len(u.entries)
    BY <1>1, <1>3, <1>5, WorkerFields DEF Stands
  <2> QED BY <1>1, <1>3, <1>7, <1>8, <2>1, BecomingBodies DEF Alike
<1>10. ASSUME RoomInBacklog PROVE Field!RunnerReady(OnTheField)
  <2>1. Len(u.queue) + Counted(u.entries, u.cursor, v.cursor) < BACKLOG_CAP
    <3>1. v.entries = u.entries /\ u.cursor = w.cursor /\ u.queue = w.queue
      BY <1>3, <1>8 DEF Leads, Same, Alike
    <3> QED BY <1>7, <1>10, <3>1 DEF RoomInBacklog, Counted, Counting
  <2>2. /\ StillThere(u, v) /\ Reaches(u, v) /\ u.cursor <= v.cursor /\ v.cursor <= Len(u.entries)
        /\ PumpedTo(u, v)
    <3>1. PICK x : /\ x = Pump(u) /\ StillThere(u, x) /\ Reaches(u, x)
                   /\ u.cursor <= x.cursor /\ x.cursor <= Len(u.entries)
                   /\ Len(x.queue) = Len(u.queue) + Counted(u.entries, u.cursor, x.cursor)
                   /\ Len(x.queue) < BACKLOG_CAP => PumpedTo(u, x)
      BY <1>5, PumpIs
    <3> QED BY <1>6, <2>1, <3>1
  <2>3. Field!PumpOnly(OnTheField, Abstract(u.entries))
    BY <1>3, <1>4, <1>7, <1>8, <2>2, SeenPumpOnly
  <2>4. Field!PumpOnly(OnTheField, OnField(Abstract(w.entries))[OnTheField])
    <3>1. OnField(Abstract(w.entries))[OnTheField] = Abstract(u.entries)
      BY <1>3, FieldIs
    <3> QED BY ONLY <2>3, <3>1
  <2>5. w'.runner /\ w'.entries = w.entries
    BY <1>3, <1>4, <1>7, <1>8 DEF Leads, Same
  <2>6. w'.runner = TRUE
    BY <1>7, <1>8, <2>5, WorkerFields
  <2>7. OnField(w.runner)' = [OnField(w.runner) EXCEPT ![OnTheField] = TRUE]
        /\ ~OnField(w.runner)[OnTheField]
    BY <1>7, <2>6, FieldIs
  <2>8. UNCHANGED <<OnField(SeenMail(inbox)), OnField(Abstract(w.entries))>>
    BY <1>7, <2>5 DEF SeenMail
  <2>9. UNCHANGED Field!coordinator
    BY DEF Field!coordinator
  <2> QED BY <2>4, <2>7, <2>8, <2>9 DEF Field!RunnerReady
<1> QED BY <1>7, <1>8, <1>9, <1>10

\* An entry, as the field sees it.
SeenEntry(e) == [kind |-> e.kind, end |-> OnField(e.end)]
SeenOnes == {SeenEntry(e) : e \in PlanEntries}

\* The entries held and one more, as the field sees them.
LEMMA SeenJoined ==
  ASSUME NEW list \in Seq(PlanEntries), NEW e \in PlanEntries
  PROVE  /\ Abstract(list) \in Seq(SeenOnes)
         /\ Abstract(<<e>>) = <<SeenEntry(e)>>
         /\ Abstract(list \o <<e>>) = Abstract(list) \o <<SeenEntry(e)>>
<1>1. PICK m \in Nat : m = Len(list) /\ DOMAIN list = 1 .. m /\ \A n \in 1 .. m : list[n] \in PlanEntries
  OBVIOUS
<1>2. PICK r : r = list \o <<e>>
  OBVIOUS
<1>3. DOMAIN r = 1 .. m + 1 /\ r[m + 1] = e /\ \A n \in 1 .. m : r[n] = list[n]
  BY <1>1, <1>2
<1>4. PICK s, t, x, V : s = Abstract(list) /\ t = Abstract(r) /\ x = SeenEntry(e) /\ V = SeenOnes
  OBVIOUS
<1>5. t = [n \in 1 .. m + 1 |-> SeenEntry(r[n])]
  BY <1>3, <1>4 DEF Abstract, SeenEntry
<1>6. s = [n \in 1 .. m |-> SeenEntry(list[n])]
  BY <1>1, <1>4 DEF Abstract, SeenEntry
<1>7. \A y \in PlanEntries : SeenEntry(y) \in V
  BY <1>4 DEF SeenOnes
<1>8. x \in V /\ t[m + 1] = x /\ \A n \in 1 .. m : t[n] = s[n] /\ s[n] \in V
  <2>1. x \in V
    BY <1>4, <1>7
  <2>2. t[m + 1] = x
    <3>1. m + 1 \in 1 .. m + 1
      OBVIOUS
    <3> QED BY <1>3, <1>4, <1>5, <3>1
  <2>3. ASSUME NEW n \in 1 .. m PROVE t[n] = s[n] /\ s[n] \in V
    <3>1. n \in 1 .. m + 1
      OBVIOUS
    <3>2. t[n] = SeenEntry(r[n]) /\ s[n] = SeenEntry(list[n])
      BY <1>5, <1>6, <3>1
    <3> QED BY <1>1, <1>3, <1>7, <3>2
  <2> QED BY <2>1, <2>2, <2>3
<1>9. s \in [1 .. m -> V] /\ t \in [1 .. m + 1 -> V]
  <2>1. DOMAIN s = 1 .. m /\ s = [n \in 1 .. m |-> s[n]]
    BY <1>6
  <2>2. DOMAIN t = 1 .. m + 1 /\ t = [n \in 1 .. m + 1 |-> t[n]]
    BY <1>5
  <2>3. \A n \in 1 .. m + 1 : t[n] \in V
    BY <1>8
  <2>4. \A n \in 1 .. m : s[n] \in V
    BY <1>8
  <2> QED BY ONLY <2>1, <2>2, <2>3, <2>4
<1>10. s \in Seq(V)
  BY ONLY <1>1, <1>9
<1>11. t \in Seq(V)
  <2>1. m + 1 \in Nat
    OBVIOUS
  <2> QED BY ONLY <1>9, <2>1
<1>12. t = s \o <<x>>
  <2>1. Len(s) = m /\ Len(t) = m + 1
    BY ONLY <1>1, <1>9, <1>10, <1>11
  <2> QED BY ONLY <1>1, <1>8, <1>10, <1>11, <2>1
<1>13. Abstract(<<e>>) = <<x>>
  <2>1. DOMAIN <<e>> = 1 .. 1 /\ <<e>>[1] = e
    OBVIOUS
  <2>2. Abstract(<<e>>) = [i \in 1 .. 1 |-> SeenEntry(<<e>>[i])]
    BY <2>1 DEF Abstract, SeenEntry
  <2>3. Abstract(<<e>>) = [i \in 1 .. 1 |-> x]
    BY <1>4, <2>1, <2>2
  <2> QED BY <2>3
<1> QED BY <1>2, <1>4, <1>10, <1>12, <1>13

\* One more entry held leaves the worker where it stands.
LEMMA StandsLonger ==
  ASSUME plan \in Plans, NEW u, Stands(u), Len(u.entries) < Len(plan)
  PROVE  LET v == [u EXCEPT !.entries = @ \o <<plan[Len(u.entries) + 1]>>]
         IN  Stands(v) /\ Alike(u, v) /\ v.runner = u.runner /\ v.limits = u.limits
             /\ Len(u.entries) <= Len(v.entries)
<1>1. u \in Workers /\ Held(u) /\ Sound(u) /\ Tape(u) /\ Capped(u)
      /\ Placed(u) /\ ~u.parked /\ Settles(u)
  BY DEF Stands
<1>2. PICK v : v = [u EXCEPT !.entries = @ \o <<plan[Len(u.entries) + 1]>>]
  OBVIOUS
<1>3. v \in Workers /\ Sound(v) /\ Held(v) /\ Alike(u, v) /\ v.runner = u.runner
  BY <1>1, <1>2, WithEntry
<1>4. v.parked = u.parked /\ v.limits = u.limits
      /\ v.entries = u.entries \o <<plan[Len(u.entries) + 1]>>
  BY <1>1, <1>2 DEF Workers
<1>5. PICK m \in Nat : m = Len(u.entries)
  BY <1>1, WorkerFields
<1>6. \A n \in 1 .. m : v.entries[n] = u.entries[n]
  BY <1>1, <1>4, <1>5, WorkerFields
<1>7. m <= Len(v.entries)
  BY <1>1, <1>4, <1>5, WorkerFields
<1>8. Tape(v) /\ Capped(v)
  BY <1>1, <1>3 DEF Tape, Capped, Alike
<1>9. Timed(v.queue)
  BY <1>1, <1>3 DEF Placed, Alike
<1>10. Marked(u.playback, v.entries, u.queue)
  <2>1. u.queue \in Seq(Steps) /\ Marked(u.playback, u.entries, u.queue)
    BY <1>1, WorkerFields DEF Placed
  <2>2. \A k \in 1 .. Len(u.queue) : u.queue[k].entry < m
    BY <1>1, <1>5 DEF Sound
  <2>3. \A p, es, fs : /\ Marked(p, es, u.queue) /\ \A k \in 1 .. m : fs[k] = es[k]
                       => Marked(p, fs, u.queue)
    BY <2>1, <2>2, MarkedLonger
  <2> QED BY <1>6, <2>1, <2>3
<1>11. Placed(v)
  BY <1>3, <1>9, <1>10 DEF Placed, Alike
<1>12. Settles(v)
  <2>1. PICK c \in Nat : c = u.cursor /\ c <= m
    BY <1>1, <1>5, WorkerFields DEF Sound
  <2>2. EndOf(v.entries, c) = EndOf(u.entries, c)
    <3>1. c # 0 => c \in 1 .. m
      BY <2>1
    <3> QED BY <1>6, <3>1 DEF EndOf
  <2> QED BY <1>1, <1>3, <2>1, <2>2 DEF Settles, Alike
<1> QED BY <1>1, <1>2, <1>3, <1>4, <1>5, <1>7, <1>8, <1>11, <1>12 DEF Stands

\* An entry that is shipped.
LEMMA EntriesImplement ==
  ASSUME FieldPlan, MInv, Stands(w), Bodies(w, fibers), HandleEntries
  PROVE  /\ Stands(w') /\ Bodies(w', fibers')
         /\ RoomInBacklog => Field!HandleEntries(OnTheField) \/ Unseen
<1>1. /\ Types /\ OneBody /\ Sound(w) /\ Held(w) /\ w \in Workers /\ plan \in Plans
      /\ outbox \in Seq(Acks) /\ inbox \in Seq(Mail) /\ OfPlan(inbox) /\ Rising(inbox, w.epoch)
  BY DEF MInv, WInv, Shipped, Types, EpochsRise
<1>2. Receives("ENTRIES") /\ outbox' = outbox
  BY DEF HandleEntries
<1>3. /\ Field!Receives(OnTheField, "ENTRIES") /\ Head(SeenMail(inbox)) = Seen(Head(inbox))
      /\ Head(inbox) \in Mail /\ Head(inbox).type = "ENTRIES"
  BY <1>1, <1>2, SeenReceived
<1>4. PICK m \in Mail : m = Head(inbox) /\ m.type = "ENTRIES"
  BY <1>3
<1>5. m.from < Len(plan) /\ m.list = <<plan[m.from + 1]>> /\ m.from \in Nat
  <2>1. m.from < Len(plan) /\ m.list = <<plan[m.from + 1]>>
    BY <1>1, <1>2, <1>4, Received
  <2>2. m.from \in Nat
    BY <1>4 DEF Mail
  <2> QED BY <2>1, <2>2
<1>6. CASE ~(m.epoch = w.epoch /\ m.from = Len(w.entries))
  <2>1. w' = w /\ fibers' = fibers
    BY <1>4, <1>6 DEF HandleEntries
  <2> QED BY <1>2, <2>1, UnseenIs
<1>7. CASE m.epoch = w.epoch /\ m.from = Len(w.entries)
  <2>1. PICK u : u = [w EXCEPT !.entries = @ \o <<plan[Len(w.entries) + 1]>>]
    OBVIOUS
  <2>2. Stands(u) /\ Alike(w, u) /\ u.runner = w.runner /\ u.limits = w.limits
        /\ Len(w.entries) <= Len(u.entries)
    <3>1. Len(w.entries) < Len(plan)
      BY <1>5, <1>7
    <3> QED BY <1>1, <2>1, <3>1, StandsLonger
  <2>3. u \in Workers /\ Held(u) /\ Sound(u)
    BY <2>2 DEF Stands
  <2>4. PICK v : v = Pump(u)
    OBVIOUS
  <2>5. Become(v) /\ w' = v
    <3>1. u = [w EXCEPT !.entries = @ \o m.list]
      BY <1>5, <1>7, <2>1
    <3> QED BY <1>4, <1>7, <2>4, <3>1 DEF HandleEntries, Become
  <2>6. Leads(u, v) /\ Stands(v) /\ v \in Workers
    BY <2>2, <2>4, PumpLeads DEF Leads, Stands
  <2>7. Bodies(w', fibers')
    BY <1>1, <2>2, <2>3, <2>5, <2>6, BecomingBodies DEF Alike
  <2>8. ASSUME RoomInBacklog PROVE Field!HandleEntries(OnTheField)
    <3>1. Len(u.queue) + Counted(u.entries, u.cursor, v.cursor) < BACKLOG_CAP
      <4>1. v.entries = u.entries /\ u.cursor = w.cursor /\ u.queue = w.queue
        BY <2>2, <2>6 DEF Leads, Same, Alike
      <4> QED BY <2>5, <2>8, <4>1 DEF RoomInBacklog, Counted, Counting
    <3>2. /\ StillThere(u, v) /\ Reaches(u, v) /\ u.cursor <= v.cursor /\ v.cursor <= Len(u.entries)
          /\ PumpedTo(u, v)
      <4>1. PICK x : /\ x = Pump(u) /\ StillThere(u, x) /\ Reaches(u, x)
                     /\ u.cursor <= x.cursor /\ x.cursor <= Len(u.entries)
                     /\ Len(x.queue) = Len(u.queue) + Counted(u.entries, u.cursor, x.cursor)
                     /\ Len(x.queue) < BACKLOG_CAP => PumpedTo(u, x)
        BY <2>2, PumpIs
      <4> QED BY <2>4, <3>1, <4>1
    <3>3. Field!PumpOnly(OnTheField, Abstract(u.entries))
      BY <1>2, <2>2, <2>3, <2>5, <2>6, <3>2, SeenPumpOnly
    <3>4. PICK es \in Seq(PlanEntries) : es = w.entries
      BY <1>1, WorkerFields
    <3>5. PICK e \in PlanEntries : e = plan[m.from + 1]
      <4>1. plan \in Seq(PlanEntries)
        BY <1>1, PlanTypes
      <4> QED BY <1>5, <4>1
    <3>6. PICK a, b, c : a = Abstract(es) /\ b = Abstract(<<e>>) /\ c = Abstract(u.entries)
      OBVIOUS
    <3>7. a \in Seq(SeenOnes) /\ b = <<SeenEntry(e)>> /\ c = a \o b /\ Len(a) = Len(es)
      <4>1. u.entries = es \o <<e>>
        BY <1>1, <1>7, <2>1, <3>4, <3>5 DEF Workers
      <4> QED BY <3>4, <3>6, <4>1, SeenJoined, SeenEntries
    <3>8. Seen(m) = [type |-> "ENTRIES", epoch |-> m.epoch, from |-> m.from, list |-> b]
      BY <1>4, <1>5, <3>5, <3>6 DEF Seen
    <3>9. PICK k \in Nat : k = m.from /\ k = Len(a)
      BY <1>5, <1>7, <3>4, <3>7
    <3>10. SubSeq(b, k - k + 1, Len(b)) = b
      <4>1. k - k + 1 = 1
        OBVIOUS
      <4>2. PICK x : b = <<x>>
        BY <3>7
      <4>3. Len(b) = 1 /\ b \in Seq({x})
        BY ONLY <4>2
      <4>4. SubSeq(b, 1, Len(b)) = b
        BY ONLY <4>3, SubSeqFull
      <4> QED BY ONLY <4>1, <4>4
    <3>11. PICK mm : mm = Seen(m)
      OBVIOUS
    <3>12. mm.from = k /\ mm.list = b /\ mm.epoch = w.epoch
      <4>1. mm = [type |-> "ENTRIES", epoch |-> m.epoch, from |-> m.from, list |-> b]
        BY ONLY <3>8, <3>11
      <4>2. mm.from = m.from /\ mm.list = b /\ mm.epoch = m.epoch
        BY ONLY <4>1
      <4> QED BY ONLY <1>7, <3>9, <4>2
    <3>13. /\ OnField(SeenMail(inbox))[OnTheField] = SeenMail(inbox)
           /\ OnField(w.epoch)[OnTheField] = w.epoch
           /\ OnField(Abstract(w.entries))[OnTheField] = a
           /\ OnField(Abstract(w.entries))' = [OnField(Abstract(w.entries)) EXCEPT ![OnTheField] = c]
      <4>1. w'.entries = u.entries
        BY <2>5, <2>6 DEF Leads, Same
      <4>2. OnField(Abstract(w.entries))' = OnField(Abstract(w'.entries))
        BY DEF OnField, Abstract
      <4>3. OnField(Abstract(w.entries))' = OnField(c)
        BY ONLY <3>6, <4>1, <4>2
      <4>4. OnField(c) = [OnField(Abstract(w.entries)) EXCEPT ![OnTheField] = c]
        BY ONLY FieldIs
      <4> QED BY <3>4, <3>6, <4>3, <4>4, FieldIs
    <3>14. UNCHANGED OnField(w.runner)
      <4>1. w'.runner = w.runner
        BY <2>2, <2>5, <2>6 DEF Leads, Same
      <4> QED BY ONLY <4>1
    <3>15. Head(SeenMail(inbox)) = mm
      BY <1>3, <1>4, <3>11
    <3>16. Field!PumpOnly(OnTheField, c)
      BY ONLY <3>3, <3>6
    <3> DEFINE s == OnTheField
               mail == OnField(SeenMail(inbox))
               list == OnField(Abstract(w.entries))
               Goal(new) == /\ list' = [list EXCEPT ![s] = @ \o new]
                            /\ UNCHANGED OnField(w.runner)
                            /\ Field!PumpOnly(s, list[s] \o new)
    <3>17. /\ Field!Receives(s, "ENTRIES")
           /\ Head(mail[s]).epoch = OnField(w.epoch)[s]
           /\ Goal(IF Head(mail[s]).from <= Len(list[s])
                   THEN SubSeq(Head(mail[s]).list, Len(list[s]) - Head(mail[s]).from + 1,
                               Len(Head(mail[s]).list))
                   ELSE <<>>)
           => Field!HandleEntries(OnTheField)
      BY DEF Field!HandleEntries
    <3>18. (IF Head(mail[s]).from <= Len(list[s])
            THEN SubSeq(Head(mail[s]).list, Len(list[s]) - Head(mail[s]).from + 1,
                        Len(Head(mail[s]).list))
            ELSE <<>>) = b
      <4>1. Head(mail[s]) = mm /\ list[s] = a
        BY <3>13, <3>15
      <4>2. (IF mm.from <= Len(a) THEN SubSeq(mm.list, Len(a) - mm.from + 1, Len(mm.list)) ELSE <<>>) = b
        BY ONLY <3>9, <3>10, <3>12
      <4> QED BY ONLY <4>1, <4>2
    <3>19. Goal(b)
      <4>1. list' = [list EXCEPT ![s] = @ \o b]
        BY <3>7, <3>13
      <4>2. Field!PumpOnly(s, list[s] \o b)
        BY <3>7, <3>13, <3>16
      <4> QED BY <3>14, <4>1, <4>2
    <3>20. Head(mail[s]).epoch = OnField(w.epoch)[s]
      BY <3>12, <3>13, <3>15
    <3> HIDE DEF Goal, mail, list
    <3>21. Goal(IF Head(mail[s]).from <= Len(list[s])
                THEN SubSeq(Head(mail[s]).list, Len(list[s]) - Head(mail[s]).from + 1,
                            Len(Head(mail[s]).list))
                ELSE <<>>)
      BY ONLY <3>18, <3>19
    <3> QED BY ONLY <1>3, <3>17, <3>20, <3>21
  <2> QED BY <2>5, <2>6, <2>7, <2>8
<1> QED BY <1>6, <1>7

\* A worker that starts over stands at the beginning.
LEMMA FreshStands ==
  ASSUME plan \in Plans, NEW e \in Nat, NEW runner \in BOOLEAN
  PROVE  Stands(Fresh(e, runner))
<1>1. PICK u : u = Fresh(e, runner)
  OBVIOUS
<1>2. u \in Workers /\ Held(u) /\ Sound(u) /\ Tape(u) /\ Capped(u)
  BY <1>1, FreshIs, FreshSound, FreshOrdered
<1>3. /\ u.queue = <<>> /\ ~u.parked /\ u.executed = 0 /\ u.cursor = 0
  BY <1>1 DEF Fresh
<1>4. Placed(u)
  <2>1. Len(u.queue) = 0
    BY <1>3
  <2> QED BY <2>1 DEF Placed, Timed, Marked
<1>5. Settles(u)
  BY <1>3 DEF Settles, EndOf
<1> QED BY <1>1, <1>2, <1>3, <1>4, <1>5 DEF Stands

\* A reset.
LEMMA ResetImplements ==
  ASSUME MInv, HandleReset
  PROVE  /\ Stands(w') /\ Bodies(w', fibers')
         /\ Field!HandleReset(OnTheField)
<1>1. /\ Types /\ OneBody /\ w \in Workers /\ plan \in Plans /\ fibers \in SUBSET Fibers
      /\ inbox \in Seq(Mail) /\ OfPlan(inbox) /\ Rising(inbox, w.epoch)
  BY DEF MInv, WInv, Shipped, Types, EpochsRise
<1>2. Receives("RESET") /\ outbox' = outbox /\ fibers' = fibers
  BY DEF HandleReset
<1>3. /\ Field!Receives(OnTheField, "RESET") /\ Head(SeenMail(inbox)) = Seen(Head(inbox))
      /\ Head(inbox) \in Mail /\ Head(inbox).type = "RESET"
  BY <1>1, <1>2, SeenReceived
<1>4. PICK m \in Mail : m = Head(inbox) /\ m.type = "RESET"
  BY <1>3
<1>5. w.epoch < m.epoch /\ m.epoch \in Nat /\ w.epoch \in Nat /\ w.runner \in BOOLEAN
  BY <1>1, <1>2, <1>4, Received, WorkerFields DEF Mail
<1>6. w' = Fresh(m.epoch, w.runner)
  BY <1>4 DEF HandleReset
<1>7. Stands(w')
  BY <1>1, <1>5, <1>6, FreshStands
<1>8. /\ w'.epoch = m.epoch /\ w'.entries = <<>> /\ w'.cursor = 0 /\ w'.runner = w.runner
      /\ w'.realCmd = Idle /\ w'.playback = 0 /\ w'.executed = 0 /\ w'.drained = -1
      /\ w'.limits = NoGrant
  BY <1>6 DEF Fresh
<1>9. Bodies(w', fibers')
  <2> SUFFICES ASSUME NEW f \in fibers, f.epoch = m.epoch PROVE FALSE
    BY <1>2, <1>8 DEF Bodies
  <2>1. f.epoch <= w.epoch
    BY <1>1 DEF OneBody
  <2> QED BY <1>5, <2>1
<1>10. Field!HandleReset(OnTheField)
  <2>1. Abstract(<<>>) = <<>>
    BY DEF Abstract
  <2>2. NoGrant = Field!NoGrant
    BY DEF NoGrant, Field!NoGrant
  <2>3. Seen(Head(inbox)).epoch = m.epoch
    BY <1>4 DEF Seen
  <2>4. OnField(w.epoch)' = [OnField(w.epoch) EXCEPT
                               ![OnTheField] = Head(OnField(SeenMail(inbox))[OnTheField]).epoch]
    <3>1. Head(OnField(SeenMail(inbox))[OnTheField]).epoch = m.epoch
      BY <1>3, <2>3, FieldIs
    <3> QED BY ONLY <1>8, <3>1, FieldIs
  <2>5. OnField(Abstract(w.entries))' = [OnField(Abstract(w.entries)) EXCEPT ![OnTheField] = <<>>]
    <3>1. OnField(Abstract(w.entries))' = OnField(Abstract(w'.entries))
      BY DEF OnField, Abstract
    <3>2. OnField(Abstract(w.entries))' = OnField(<<>>)
      BY ONLY <1>8, <2>1, <3>1
    <3> QED BY ONLY <3>2, FieldIs
  <2>6. OnField(w.realCmd # Idle)' = [OnField(w.realCmd # Idle) EXCEPT ![OnTheField] = FALSE]
    <3>1. (w'.realCmd # Idle) = FALSE
      BY <1>8
    <3> QED BY ONLY <3>1, FieldIs
  <2>7. /\ OnField(w.cursor)' = [OnField(w.cursor) EXCEPT ![OnTheField] = 0]
        /\ OnField(w.executed)' = [OnField(w.executed) EXCEPT ![OnTheField] = 0]
        /\ OnField(w.playback)' = [OnField(w.playback) EXCEPT ![OnTheField] = 0]
        /\ OnField(w.drained)' = [OnField(w.drained) EXCEPT ![OnTheField] = -1]
        /\ OnField(w.limits)' = [OnField(w.limits) EXCEPT ![OnTheField] = Field!NoGrant]
    BY ONLY <1>8, <2>2, FieldIs
  <2>8. UNCHANGED <<OnField(w.runner), OnField(SeenAcks(outbox))>>
    BY <1>2, <1>8 DEF SeenAcks
  <2> QED BY <1>3, <2>4, <2>5, <2>6, <2>7, <2>8 DEF Field!HandleReset, Field!NoEntries
<1> QED BY <1>7, <1>9, <1>10

\* What a fiber of an earlier epoch still does.
LEMMA StaleUnseen ==
  ASSUME FieldPlan, MInv, Stands(w), Bodies(w, fibers), StaleOp
  PROVE  Stands(w') /\ Bodies(w', fibers') /\ Unseen
<1>1. Types /\ OneBody /\ Sound(w) /\ w \in Workers /\ MeteredPlans
  BY DEF MInv, WInv, Types, FieldPlan
<1>2. outbox' = outbox
  BY DEF StaleOp
<1>3. PICK f \in fibers : /\ f.epoch # w.epoch
        /\ IF f.script = <<>> THEN UNCHANGED w /\ fibers' = fibers \ {f}
           ELSE IF Head(f.script).does \in {"prepOn", "prepOff"}
                THEN /\ w' = SetPrep(w, Head(f.script).does = "prepOn")
                     /\ fibers' = Resumed(f, Tail(f.script))
                ELSE w' = Refused(w, f, Head(f.script)) /\ fibers' = fibers \ {f}
  BY DEF StaleOp
<1>4. f.script \in Seq(PlanOps)
  <2>1. f \in Fibers
    BY <1>1 DEF Types
  <2> QED BY <2>1 DEF Fibers
<1>5. CASE f.script = <<>>
  <2>1. w' = w /\ fibers' = fibers \ {f}
    BY <1>3, <1>5
  <2>2. Bodies(w', fibers')
    BY <2>1 DEF Bodies
  <2> QED BY <1>2, <2>1, <2>2, UnseenIs
<1>6. CASE f.script # <<>>
  <2>1. Head(f.script).does \in {"io", "raw", "throw"}
    <3>1. Head(f.script) \in PlanOps
      BY <1>4, <1>6, ScriptParts
    <3> QED BY <1>1, <3>1 DEF MeteredPlans
  <2>2. w' = CountFileOp(w, Head(f.script)) /\ fibers' = fibers \ {f}
    <3>1. Head(f.script).does \notin {"prepOn", "prepOff"}
      BY <2>1
    <3> QED BY <1>3, <1>6, <3>1 DEF Refused
  <2>3. PICK v \in Workers : /\ v = CountFileOp(w, Head(f.script)) /\ Same(w, v)
             /\ v.cursor = w.cursor /\ v.realCmd = w.realCmd /\ v.prep = w.prep
             /\ v.queue = w.queue /\ v.executed = w.executed /\ v.playback = w.playback
             /\ v.drained = w.drained /\ v.parked = w.parked
    BY <1>1, CountIs
  <2>4. Stands(v)
    <3>1. Held(v) /\ Sound(v) /\ Tape(v) /\ Capped(v)
      BY <2>3 DEF Stands, Held, Sound, Tape, Capped, Same
    <3>2. Placed(v) /\ Settles(v) /\ ~v.parked
      BY <2>3 DEF Stands, Placed, Settles, Same
    <3> QED BY <3>1, <3>2 DEF Stands
  <2>5. Bodies(w', fibers')
    <3>1. Bodies(v, fibers)
      BY <2>3, BodiesAlike DEF Same
    <3> QED BY <2>2, <2>3, <3>1 DEF Bodies
  <2>6. Unseen
    BY <1>2, <2>2, <2>3, UnseenIs DEF Same
  <2> QED BY <2>2, <2>3, <2>4, <2>5, <2>6
<1> QED BY <1>5, <1>6

\* An operation of the command in flight leaves the worker where it stands.
LEMMA IssueStands ==
  ASSUME NEW u, Stands(u), u.realCmd # Idle, NEW v, NEW tape \in Seq(Nat),
         Issues(u, v, u.realCmd, tape), v.parked = u.parked, Timed(v.queue)
  PROVE  Stands(v)
<1>1. u \in Workers /\ Held(u) /\ Sound(u) /\ Tape(u) /\ Capped(u) /\ Placed(u) /\ ~u.parked
  BY DEF Stands
<1>2. v \in Workers /\ Same(u, v) /\ v.realCmd = u.realCmd /\ v.playback = u.playback
      /\ Queued(u.queue, v.queue, u.realCmd, tape, FALSE, 0)
  BY <1>1 DEF Issues, Tape
<1>3. Sound(v) /\ Tape(v) /\ Capped(v)
  BY <1>1, <1>2, IssueSound, IssueOrdered DEF Resumes, Ordered
<1>4. Held(v)
  BY <1>1, <1>2 DEF Held, Same
<1>5. Marked(v.playback, v.entries, v.queue)
  <2>1. Extends(u.queue, v.queue, u.realCmd, FALSE)
    BY <1>2 DEF Queued
  <2>2. PICK p \in Nat, q \in Seq(Steps), r \in Seq(Steps) :
          p = u.playback /\ q = u.queue /\ r = v.queue
    BY <1>1, <1>2, WorkerFields
  <2>3. PICK i, es : i = u.realCmd /\ es = u.entries
    OBVIOUS
  <2>4. Extends(q, r, i, FALSE) /\ Marked(p, es, q)
    BY <1>1, <2>1, <2>2, <2>3 DEF Placed
  <2>5. Marked(p, es, r)
    BY ONLY <2>4, MarkedExtends, p \in Nat, q \in Seq(Steps), r \in Seq(Steps)
  <2>6. p = v.playback /\ es = v.entries /\ r = v.queue
    BY <1>2, <2>2, <2>3 DEF Same
  <2> QED BY ONLY <2>5, <2>6
<1>6. Settles(v)
  BY <1>2 DEF Settles
<1> QED BY <1>1, <1>2, <1>3, <1>4, <1>5, <1>6 DEF Stands, Placed

\* What CommandOp asks of the worker it leaves.
LEMMA CommandOpFrom ==
  ASSUME NEW a, NEW x, w.realCmd # Idle, Abstract(w.entries) = a,
         x \in w.executed + 1 .. Field!TapeEnd(a, OnTheField, w.cursor + 1), w'.executed = x,
         w'.epoch = w.epoch, w'.runner = w.runner, w'.entries = w.entries,
         w'.cursor = w.cursor, w'.realCmd = w.realCmd, w'.playback = w.playback,
         w'.drained = w.drained, w'.limits = w.limits, inbox' = inbox, outbox' = outbox
  PROVE  Field!CommandOp(OnTheField)
<1> DEFINE s == OnTheField
           es == OnField(Abstract(w.entries))
           Goal(x2) == OnField(w.executed)' = [OnField(w.executed) EXCEPT ![s] = x2]
           Rest == UNCHANGED <<Field!coordinator, OnField(SeenMail(inbox)), OnField(SeenAcks(outbox)),
                     OnField(w.epoch), OnField(w.runner), es, OnField(w.cursor),
                     OnField(w.realCmd # Idle), OnField(w.playback), OnField(w.drained),
                     OnField(w.limits)>>
<1>1. /\ OnField(w.realCmd # Idle)[s]
      /\ \E x2 \in OnField(w.executed)[s] + 1 .. Field!TapeEnd(es[s], s, OnField(w.cursor)[s] + 1) :
           Goal(x2)
      /\ Rest
      => Field!CommandOp(OnTheField)
  BY DEF Field!CommandOp
<1>2. /\ OnField(w.executed)[s] = w.executed /\ es[s] = a /\ OnField(w.cursor)[s] = w.cursor
      /\ OnField(w.realCmd # Idle)[s]
  BY FieldIs
<1>3. Rest
  BY DEF Field!coordinator, SeenMail, SeenAcks
<1>4. Goal(x)
  BY FieldIs
<1> HIDE DEF Goal, Rest, es
<1>5. x \in OnField(w.executed)[s] + 1 .. Field!TapeEnd(es[s], s, OnField(w.cursor)[s] + 1)
  BY <1>2
<1> QED BY ONLY <1>1, <1>2, <1>3, <1>4, <1>5

\* An operation of the command in flight.
LEMMA OpImplements ==
  ASSUME FieldPlan, MInv, Stands(w), Bodies(w, fibers), CommandOp
  PROVE  /\ Stands(w') /\ Bodies(w', fibers')
         /\ Field!CommandOp(OnTheField) \/ Unseen
<1>1. Types /\ OneBody /\ Sound(w) /\ Held(w) /\ w \in Workers /\ MeteredPlans /\ ~w.prep
      /\ TimedPlans /\ plan \in Plans
  BY DEF MInv, WInv, Types, FieldPlan, Stands, Tape
<1>2. UNCHANGED <<inbox, outbox>>
  BY DEF CommandOp
<1>3. PICK f \in fibers : f.epoch = w.epoch /\ f.script # <<>>
        /\ w' = (CASE Head(f.script).does \in {"io", "raw"} ->
                        EnqueueBatch(CountFileOp(w, Head(f.script)), f.index,
                                     Head(f.script).tape, FALSE, 0)
                   [] Head(f.script).does = "throw" -> BumpFileOp(w)
                   [] Head(f.script).does = "format" ->
                        EnqueueBatch(DeviceReset(BumpFileOp(w)), f.index,
                                     Head(f.script).tape, FALSE, 0)
                   [] Head(f.script).does = "prepOn" -> SetPrep(w, TRUE)
                   [] Head(f.script).does = "prepOff" -> SetPrep(w, FALSE))
        /\ fibers' = Resumed(f, IF Head(f.script).does = "throw" THEN <<>> ELSE Tail(f.script))
  BY DEF CommandOp
<1>4. /\ f \in Fibers /\ f.index = w.realCmd /\ w.realCmd # Idle /\ w.realCmd \in Nat
      /\ f.script \in Seq(PlanOps) /\ w.realCmd = w.cursor /\ w.cursor < Len(w.entries)
  BY <1>1, <1>3, InFlight
<1>5. PICK op \in PlanOps : op = Head(f.script) /\ op.tape \in Seq(Nat)
  BY <1>3, <1>4, ScriptParts
<1>6. op.does \in {"io", "raw", "throw"}
  BY <1>1 DEF MeteredPlans
<1>7. TimedScript(f.script) /\ w.executed + Duration(f.script) = EndOf(w.entries, w.cursor + 1)
  BY <1>3 DEF Bodies, BodyOf
<1>8. /\ TimedOp(op) /\ TimedScript(Tail(f.script))
      /\ op.does = "throw" => op.tape = <<>> /\ Tail(f.script) = <<>>
  BY <1>3, <1>4, <1>5, <1>7, TimedParts
<1>9. fibers' = Resumed(f, Tail(f.script))
  BY <1>3, <1>5, <1>8
<1>10. PICK n \in Nat, t \in Nat, r \in Nat :
         /\ n = Duration(f.script) /\ t = Total(op.tape) /\ r = Duration(Tail(f.script))
         /\ n = t + r
  <2>1. f.script \in Seq(Operations) /\ op = f.script[1]
    BY <1>3, <1>4, <1>5, PlanTypes
  <2>2. /\ Duration(f.script) \in Nat /\ Tail(f.script) \in Seq(Operations)
        /\ Duration(f.script) = Total(op.tape) + Duration(Tail(f.script))
    BY <1>3, <2>1, DurationParts
  <2>3. Duration(Tail(f.script)) \in Nat /\ Total(op.tape) \in Nat
    BY <1>5, <2>2, DurationParts, TotalType
  <2> QED BY <2>2, <2>3
<1>11. PICK v : v = w'
  OBVIOUS
<1>12. Issues(w, v, w.realCmd, op.tape) /\ v.parked = w.parked /\ Timed(v.queue)
  <2>1. w.queue \in Seq(Steps) /\ Timed(w.queue)
    BY <1>1, WorkerFields DEF Stands, Placed
  <2>2. PICK x \in Workers : /\ x = CountFileOp(w, op) /\ x.queue = w.queue /\ x.prep = w.prep
                              /\ x.parked = w.parked
    BY <1>1, CountIs
  <2>3. PICK y \in Workers : y = BumpFileOp(w) /\ y.queue = w.queue
    BY <1>1, BumpIs
  <2>4. CASE op.does \in {"io", "raw"}
    <3>1. v = EnqueueBatch(x, w.realCmd, op.tape, FALSE, 0)
      BY <1>3, <1>4, <1>5, <1>11, <2>2, <2>4
    <3>2. Issues(w, v, w.realCmd, op.tape)
      BY <1>1, <1>4, <1>5, <2>2, <3>1, IoIs
    <3>3. PICK i \in Nat, tape \in Seq(Nat), no \in BOOLEAN, z \in Nat :
            i = w.realCmd /\ tape = op.tape /\ no = FALSE /\ z = 0
      BY <1>4, <1>5
    <3>4. v = EnqueueBatch(x, i, tape, no, z)
      BY <3>1, <3>3
    <3>5. v.parked = x.parked
      <4>1. Enqueued(x, v, i, tape, no, z)
        BY ONLY <3>4, EnqueueIs, x \in Workers, i \in Nat, tape \in Seq(Nat), no \in BOOLEAN, z \in Nat
      <4> QED BY <4>1 DEF Enqueued
    <3>6. v.queue = w.queue \o Batch(i, tape, no, z)
      <4>1. EnqueueBatch(x, i, tape, no, z).queue = x.queue \o Batch(i, tape, no, z)
        <5>1. ~x.prep
          BY <1>1, <2>2
        <5> QED BY ONLY <5>1, EnqueueQueue, x \in Workers, i \in Nat, tape \in Seq(Nat),
                        no \in BOOLEAN, z \in Nat
      <4> QED BY ONLY <2>2, <3>4, <4>1
    <3>7. Timed(v.queue)
      <4>1. \A k \in 1 .. Len(tape) : 0 < tape[k]
        BY <1>8, <3>3 DEF TimedOp
      <4> QED BY <2>1, <3>6, <4>1, BatchTimed
    <3> QED BY <2>2, <3>2, <3>5, <3>7
  <2>5. CASE op.does = "throw"
    <3>1. v = y
      BY <1>3, <1>5, <1>11, <2>3, <2>5
    <3>2. Issues(w, v, w.realCmd, op.tape)
      BY <1>1, <1>4, <1>8, <2>3, <2>5, <3>1, ThrowIs
    <3>3. y.parked = w.parked
      BY <1>1, <2>3 DEF BumpFileOp, Workers
    <3> QED BY <2>1, <2>3, <3>1, <3>2, <3>3
  <2> QED BY <1>6, <2>4, <2>5
<1>13. Stands(v)
  BY <1>4, <1>5, <1>12, IssueStands
<1>14. /\ Same(w, v) /\ v.cursor = w.cursor /\ v.realCmd = w.realCmd
       /\ v.executed = w.executed + t /\ v.playback = w.playback /\ v.drained = w.drained
  BY <1>1, <1>10, <1>12 DEF Issues
<1>15. w.executed \in Nat
  BY <1>1, WorkerFields
<1>16. Bodies(v, fibers')
  <2> SUFFICES ASSUME NEW g \in fibers', g.epoch = w.epoch PROVE BodyOf(v, g)
    BY <1>14 DEF Bodies, Same
  <2>1. g \notin fibers \ {f}
    BY <1>1, <1>3 DEF OneBody
  <2>2. g = [f EXCEPT !.script = Tail(f.script)]
    BY <1>9, <2>1 DEF Resumed
  <2>3. g.script = Tail(f.script)
    BY <1>4, <2>2 DEF Fibers
  <2>4. v.executed + r = w.executed + n
    BY <1>10, <1>14, <1>15
  <2>5. EndOf(v.entries, v.cursor + 1) = EndOf(w.entries, w.cursor + 1)
    BY <1>14 DEF Same
  <2> QED BY <1>7, <1>8, <1>10, <2>3, <2>4, <2>5 DEF BodyOf
<1>17. Field!CommandOp(OnTheField) \/ Unseen
  <2>1. CASE t = 0
    <3>1. v.executed = w.executed
      BY <1>14, <1>15, <2>1
    <3> QED BY <1>2, <1>11, <1>14, <3>1, UnseenIs DEF Same
  <2>2. CASE t # 0
    <3>1. PICK es \in Seq(PlanEntries) : es = w.entries
      BY <1>1, WorkerFields
    <3>2. PICK a : a = Abstract(es)
      OBVIOUS
    <3>3. PICK c \in Nat : c = w.cursor
      BY <1>1, WorkerFields
    <3>4. c + 1 \in 0 .. Len(es)
      BY <1>4, <3>1, <3>3
    <3>5. Field!TapeEnd(a, OnTheField, c + 1) = w.executed + n
      BY <1>7, <1>10, <3>1, <3>2, <3>3, <3>4, SeenEntries
    <3>6. w.executed + t \in w.executed + 1 .. Field!TapeEnd(a, OnTheField, c + 1)
      <4>1. PICK e \in Nat : e = w.executed
        BY <1>15
      <4>2. PICK m : m = Field!TapeEnd(a, OnTheField, c + 1)
        OBVIOUS
      <4>3. m = e + (t + r) /\ t # 0
        BY <1>10, <2>2, <3>5, <4>1, <4>2
      <4>4. e + t \in e + 1 .. m
        BY <4>3
      <4> QED BY <4>1, <4>2, <4>4
    <3>7. Abstract(w.entries) = a /\ w.realCmd # Idle /\ w'.executed = w.executed + t
          /\ w.executed + t \in w.executed + 1 .. Field!TapeEnd(a, OnTheField, w.cursor + 1)
      BY <1>4, <1>11, <1>14, <3>1, <3>2, <3>3, <3>6
    <3>8. /\ w'.epoch = w.epoch /\ w'.runner = w.runner /\ w'.entries = w.entries
          /\ w'.cursor = w.cursor /\ w'.realCmd = w.realCmd /\ w'.playback = w.playback
          /\ w'.drained = w.drained /\ w'.limits = w.limits /\ inbox' = inbox /\ outbox' = outbox
      BY <1>2, <1>11, <1>14 DEF Same
    <3> QED BY ONLY <3>7, <3>8, CommandOpFrom
  <2> QED BY <2>1, <2>2
<1> QED BY <1>11, <1>13, <1>16, <1>17

\* Closing the command in flight leaves its marker where the entry ends.
LEMMA SettledStands ==
  ASSUME NEW x, Stands(x), x.realCmd # Idle, x.executed = EndOf(x.entries, x.cursor + 1),
         NEW u, u = [EnqueueBatch(x, x.realCmd, <<>>, TRUE, x.entryFileOps)
                       EXCEPT !.realCmd = Idle, !.cursor = x.realCmd + 1]
  PROVE  /\ Stands(u) /\ Same(x, u) /\ u.playback = x.playback /\ u.drained = x.drained
         /\ u.realCmd = Idle /\ u.cursor = x.cursor + 1 /\ Len(u.queue) = Len(x.queue) + 1
<1>1. x \in Workers /\ Held(x) /\ Sound(x) /\ Tape(x) /\ Capped(x) /\ Placed(x) /\ ~x.parked
      /\ ~x.prep /\ x.realCmd = x.cursor /\ x.cursor < Len(x.entries)
  BY DEF Stands, Sound, Tape
<1>2. PICK i \in Nat, tape \in Seq(Nat), yes \in BOOLEAN, ops \in Nat :
        i = x.realCmd /\ tape = <<>> /\ yes = TRUE /\ ops = x.entryFileOps
  <2>1. <<>> \in Seq(Nat)
    BY EmptySeq
  <2> QED BY <1>1, <2>1, WorkerFields
<1>3. PICK y : y = EnqueueBatch(x, i, tape, yes, ops)
  OBVIOUS
<1>4. Enqueued(x, y, i, tape, yes, ops)
  BY ONLY <1>1, <1>2, <1>3, EnqueueIs
<1>5. y.queue = x.queue \o Batch(i, tape, yes, ops)
  BY ONLY <1>1, <1>2, <1>3, EnqueueQueue
<1>6. u = [y EXCEPT !.realCmd = Idle, !.cursor = i + 1]
  BY ONLY <1>2, <1>3, u = [EnqueueBatch(x, x.realCmd, <<>>, TRUE, x.entryFileOps)
                             EXCEPT !.realCmd = Idle, !.cursor = x.realCmd + 1]
<1>7. y \in Workers /\ y.parked = x.parked
  BY <1>4 DEF Enqueued
<1>8. u.queue = y.queue /\ u.parked = y.parked /\ u.realCmd = Idle /\ u.cursor = i + 1
  BY <1>6, <1>7 DEF Workers
<1>9. Closes(x, u, tape, ops)
  <2>1. Closes(x, [EnqueueBatch(x, x.realCmd, <<>>, TRUE, x.entryFileOps)
                     EXCEPT !.realCmd = Idle, !.cursor = x.realCmd + 1], <<>>, x.entryFileOps)
    BY <1>1, QuiescedIs
  <2> QED BY <1>2, <2>1
<1>10. Closing(x, u)
  BY <1>2, <1>9 DEF Closing
<1>11. u \in Workers /\ Sound(u) /\ Same(x, u)
  BY <1>1, <1>10, ClosingSound
<1>12. Tape(u) /\ Capped(u)
  <2>1. Fits(x)
    BY <1>1 DEF Fits, Capped
  <2> QED BY <1>1, <1>10, <2>1, ClosingOrdered DEF Ordered
<1>13. Held(u)
  BY <1>1, <1>11 DEF Held, Same
<1>14. PICK q \in Seq(Steps), r \in Seq(Steps) : q = x.queue /\ r = u.queue
  BY <1>1, <1>11, WorkerFields
<1>15. Timed(r) /\ Len(r) = Len(q) + 1
  <2>1. Timed(q) /\ Len(tape) = 0
    BY <1>1, <1>2, <1>14 DEF Placed
  <2>2. \A t \in 1 .. Len(tape) : 0 < tape[t]
    BY <2>1
  <2>3. r = q \o Batch(i, tape, yes, ops)
    BY <1>5, <1>8, <1>14
  <2>4. /\ Timed(q \o Batch(i, tape, yes, ops))
        /\ Len(q \o Batch(i, tape, yes, ops)) = Len(q) + Len(tape) + (IF yes THEN 1 ELSE 0)
    BY ONLY <2>1, <2>2, BatchTimed, q \in Seq(Steps), i \in Nat, tape \in Seq(Nat), yes \in BOOLEAN,
            ops \in Nat
  <2>5. PICK k \in Nat : k = Len(q)
    OBVIOUS
  <2>6. (IF yes THEN 1 ELSE 0) = 1
    BY <1>2
  <2>7. Len(r) = k + 0 + 1
    BY ONLY <2>1, <2>3, <2>4, <2>5, <2>6
  <2>8. Timed(r)
    BY ONLY <2>3, <2>4
  <2> QED BY <2>5, <2>7, <2>8
<1>16. u.executed = x.executed /\ u.playback = x.playback /\ u.drained = x.drained
       /\ Extends(q, r, i, yes)
  <2>1. /\ Queued(x.queue, u.queue, x.cursor, tape, TRUE, ops)
        /\ u.executed = x.executed + Total(tape)
        /\ u.playback = x.playback /\ u.drained = x.drained
    BY <1>1, <1>9 DEF Closes
  <2>2. Total(tape) = 0
    <3>1. DOMAIN tape = {}
      BY <1>2
    <3> QED BY <3>1, SumOfNothing DEF Total
  <2>3. x.executed \in Nat
    BY <1>1, WorkerFields
  <2>4. u.executed = x.executed
    <3>1. PICK e \in Nat : e = x.executed
      BY <2>3
    <3>2. u.executed = e + 0
      BY ONLY <2>1, <2>2, <3>1
    <3> QED BY ONLY <3>1, <3>2, e \in Nat
  <2>5. Extends(x.queue, u.queue, x.cursor, TRUE)
    BY <2>1 DEF Queued
  <2> QED BY <1>1, <1>2, <1>14, <2>1, <2>4, <2>5
<1>17. Marked(u.playback, u.entries, u.queue)
  <2>1. PICK p \in Nat : p = x.playback
    BY <1>1, WorkerFields
  <2>2. PICK es : es = x.entries
    OBVIOUS
  <2>3. Marked(p, es, q)
    BY <1>1, <1>14, <2>1, <2>2 DEF Placed
  <2>4. p + Unplayed(r) = EndOf(es, i + 1)
    BY <1>1, <1>2, <1>12, <1>14, <1>16, <2>1, <2>2 DEF Tape
  <2>5. Marked(p, es, r)
    BY ONLY <1>16, <2>3, <2>4, MarkedExtends, p \in Nat, q \in Seq(Steps), r \in Seq(Steps)
  <2>6. p = u.playback /\ es = u.entries /\ r = u.queue
    BY <1>11, <1>14, <1>16, <2>1, <2>2 DEF Same
  <2> QED BY ONLY <2>5, <2>6
<1>18. Placed(u) /\ ~u.parked
  BY <1>1, <1>7, <1>8, <1>14, <1>15, <1>17 DEF Placed
<1>19. Settles(u)
  BY <1>1, <1>2, <1>8, <1>11, <1>16 DEF Settles, Same
<1>20. u.cursor = x.cursor + 1 /\ Len(u.queue) = Len(x.queue) + 1
  BY <1>1, <1>2, <1>8, <1>14, <1>15
<1> QED BY <1>8, <1>11, <1>12, <1>13, <1>16, <1>18, <1>19, <1>20 DEF Stands

\* A command that has settled.
LEMMA QuiescedImplements ==
  ASSUME FieldPlan, MInv, Stands(w), Bodies(w, fibers), CommandQuiesced
  PROVE  /\ Stands(w') /\ Bodies(w', fibers')
         /\ RoomInBacklog => Field!CommandQuiesced(OnTheField)
<1>1. /\ Types /\ OneBody /\ Sound(w) /\ Held(w) /\ w \in Workers /\ outbox \in Seq(Acks)
  BY DEF MInv, WInv, Shipped, Types
<1>2. UNCHANGED inbox
  BY DEF CommandQuiesced
<1>3. PICK f \in fibers :
        /\ f.epoch = w.epoch
        /\ f.script = <<>>
        /\ LET x == EnqueueBatch(w, f.index, <<>>, TRUE, w.entryFileOps)
               y == Drain(Pump([x EXCEPT !.realCmd = Idle, !.cursor = f.index + 1]))
           IN  /\ w' = y
               /\ fibers' = (fibers \ {f}) \cup
                    IF y.realCmd = Idle THEN {}
                    ELSE {[epoch  |-> y.epoch, index |-> y.realCmd,
                           script |-> y.entries[y.realCmd + 1].script]}
               /\ outbox' = Append(outbox, AckOf(y))
  BY DEF CommandQuiesced
<1>4. f.index = w.realCmd /\ w.realCmd # Idle /\ w.realCmd = w.cursor /\ w.cursor < Len(w.entries)
      /\ f.script \in Seq(PlanOps)
  BY <1>1, <1>3, InFlight
<1>5. w.executed = EndOf(w.entries, w.cursor + 1)
  <2>1. w.executed + Duration(f.script) = EndOf(w.entries, w.cursor + 1)
    BY <1>3 DEF Bodies, BodyOf
  <2>2. Duration(f.script) = 0
    <3>1. f.script \in Seq(Operations)
      BY <1>4, PlanTypes
    <3> QED BY <1>3, <3>1, DurationParts
  <2>3. w.executed \in Nat
    BY <1>1, WorkerFields
  <2> QED BY <2>1, <2>2, <2>3
<1>6. PICK u : u = [EnqueueBatch(w, w.realCmd, <<>>, TRUE, w.entryFileOps)
                      EXCEPT !.realCmd = Idle, !.cursor = w.realCmd + 1]
  OBVIOUS
<1>7. /\ Stands(u) /\ Same(w, u) /\ u.playback = w.playback /\ u.drained = w.drained
      /\ u.realCmd = Idle /\ u.cursor = w.cursor + 1 /\ Len(u.queue) = Len(w.queue) + 1
  BY <1>4, <1>5, <1>6, SettledStands
<1>8. PICK v : v = Drain(Pump(u))
  OBVIOUS
<1>9. /\ w' = v
      /\ fibers' = (fibers \ {f}) \cup
           IF v.realCmd = Idle THEN {}
           ELSE {[epoch  |-> v.epoch, index |-> v.realCmd,
                  script |-> v.entries[v.realCmd + 1].script]}
      /\ outbox' = Append(outbox, AckOf(v))
  BY <1>3, <1>4, <1>6, <1>8
<1>10. Leads(u, v) /\ Stands(v) /\ v \in Workers /\ Same(u, v) /\ u \in Workers
  BY <1>7, <1>8, DrainLeads DEF Leads, Stands
<1>11. Bodies(w', fibers')
  <2> SUFFICES ASSUME NEW g \in fibers', g.epoch = w.epoch PROVE BodyOf(v, g)
    BY <1>7, <1>9, <1>10 DEF Bodies, Same
  <2>1. g \notin fibers \ {f}
    BY <1>1, <1>3 DEF OneBody
  <2>2. v.realCmd # Idle /\ g.script = v.entries[v.realCmd + 1].script
    BY <1>9, <2>1
  <2>3. v.executed = EndOf(v.entries, v.cursor)
    BY <1>7, <1>10 DEF Leads, Reaches, Same
  <2> QED BY <1>10, <2>2, <2>3, NewBody
<1>12. ASSUME RoomInBacklog PROVE Field!CommandQuiesced(OnTheField)
  <2>1. PICK es \in Seq(PlanEntries) : es = w.entries /\ es = u.entries /\ es = v.entries
    BY <1>1, <1>7, <1>10, WorkerFields DEF Same
  <2>2. PICK c \in Nat, n \in Nat : c = w.cursor /\ n = v.cursor
    BY <1>1, <1>10, WorkerFields
  <2>3. u.cursor = c + 1 /\ c < Len(es)
    BY <1>4, <1>7, <2>1, <2>2
  <2>4. Len(w.queue) + Counted(es, c, n) < BACKLOG_CAP
    BY <1>9, <1>12, <2>1, <2>2 DEF RoomInBacklog, Counted, Counting
  <2>5. c + 1 <= n /\ n <= Len(es)
    <3>1. PICK x : /\ x = Pump(u) /\ Stands(x) /\ u.cursor <= x.cursor /\ x.cursor <= Len(u.entries)
                   /\ StillThere(u, x)
      BY <1>7, PumpIs
    <3>2. x.cursor <= v.cursor /\ v.cursor <= Len(u.entries)
      <4>1. CASE ~Drainable(x)
        <5>1. v = x
          BY <1>8, <3>1, <4>1, DrainIs
        <5>2. x.cursor \in Nat
          BY <3>1, WorkerFields DEF Stands
        <5> QED BY <3>1, <5>1, <5>2
      <4>2. CASE Drainable(x)
        <5>1. PICK y : Played(x, y) /\ Stands(y) /\ Drain(x) = Pump(y)
          BY <3>1, <4>2, DrainIs
        <5>2. y.cursor = x.cursor /\ y.entries = u.entries
          BY <3>1, <5>1 DEF Played, StillThere, Same
        <5>3. PICK z : z = Pump(y) /\ y.cursor <= z.cursor /\ z.cursor <= Len(y.entries)
          BY <5>1, PumpIs
        <5> QED BY <1>8, <3>1, <5>1, <5>2, <5>3
      <4> QED BY <4>1, <4>2
    <3>3. x.cursor \in Nat
      BY <3>1, WorkerFields DEF Stands
    <3> QED BY <2>1, <2>2, <2>3, <3>1, <3>2, <3>3
  <2>6. Len(u.queue) + Counted(u.entries, u.cursor, v.cursor) < BACKLOG_CAP
    <3>1. Counted(es, c, n) = Counted(es, c, c + 1) + Counted(es, c + 1, n)
      BY <2>3, <2>5, CountedParts
    <3>2. Counted(es, c, c + 1) = Counted(es, c, c) + ClosingSteps(es[c + 1]) /\ Counted(es, c, c) = 0
      BY <2>3, CountedNext, CountedNone
    <3>3. ClosingSteps(es[c + 1]) \in Nat /\ 1 <= ClosingSteps(es[c + 1])
      <4>1. es[c + 1] \in PlanEntries /\ c + 1 \in 1 .. Len(es)
        BY <2>3
      <4>2. ClosingSteps(es[c + 1]) \in Nat
        BY <4>1, ClosingStepsType
      <4>3. 1 <= ClosingSteps(es[c + 1])
        <5>1. CASE es[c + 1].kind = "churn" /\ es[c + 1].script # <<>>
          <6>1. es[c + 1].script \in Seq(Operations)
            BY <4>1, PlanTypes DEF Entries
          <6>2. es[c + 1].script[1] \in Operations
            BY <5>1, <6>1
          <6>3. es[c + 1].script[1].tape \in Seq(Nat)
            BY <6>2 DEF Operations
          <6>4. PICK m \in Nat : m = Len(es[c + 1].script[1].tape)
            BY <6>3
          <6>5. ClosingSteps(es[c + 1]) = m + 1
            BY <5>1, <6>4 DEF ClosingSteps
          <6> QED BY <6>5
        <5>2. CASE ~(es[c + 1].kind = "churn" /\ es[c + 1].script # <<>>)
          BY <5>2 DEF ClosingSteps
        <5> QED BY <5>1, <5>2
      <4> QED BY <4>2, <4>3
    <3>4. PICK l \in Nat, k \in Nat : l = Len(w.queue) /\ k = Counted(es, c + 1, n)
      <4>1. PICK d \in Nat : d = c + 1
        OBVIOUS
      <4>2. Counted(es, d, n) \in Nat
        BY ONLY <2>5, CountingIs, es \in Seq(PlanEntries), d \in Nat, n \in Nat
      <4>3. Len(w.queue) \in Nat
        BY <1>1, WorkerFields
      <4> QED BY <4>1, <4>2, <4>3
    <3>5. BACKLOG_CAP \in Nat
      BY Caps
    <3>6. (l + 1) + k < BACKLOG_CAP
      BY <2>4, <3>1, <3>2, <3>3, <3>4, <3>5
    <3> QED BY <1>7, <2>1, <2>2, <2>3, <3>4, <3>6
  <2>7. PICK x \in Workers, y \in Workers :
          y.cursor = x.cursor /\ y.realCmd = x.realCmd /\ Same(x, y) /\ Serves(u, x, y, v)
    BY <1>7, <1>8, <2>6, ServesIs
  <2>8. Field!Serve(OnTheField, u.limits, u.realCmd # Idle, u.cursor)
    <3>1. u.entries = w.entries /\ u.epoch = w.epoch /\ w' = v /\ outbox' = Append(outbox, AckOf(v))
      BY <1>7, <1>9 DEF Same
    <3> QED BY <1>1, <1>7, <1>10, <2>7, <3>1, SeenServe
  <2>9. Field!Serve(OnTheField, OnField(w.limits)[OnTheField], FALSE, OnField(w.cursor)[OnTheField] + 1)
    <3>1. OnField(w.limits)[OnTheField] = u.limits /\ OnField(w.cursor)[OnTheField] + 1 = u.cursor
          /\ (u.realCmd # Idle) = FALSE
      BY <1>7, FieldIs DEF Same
    <3> QED BY ONLY <2>8, <3>1
  <2>10. OnField(w.executed)[OnTheField]
           = Field!TapeEnd(OnField(Abstract(w.entries))[OnTheField], OnTheField,
                           OnField(w.cursor)[OnTheField] + 1)
    <3>1. c + 1 \in 0 .. Len(es)
      BY <2>3
    <3>2. Field!TapeEnd(Abstract(es), OnTheField, c + 1) = EndOf(es, c + 1)
      BY <3>1, SeenEntries
    <3> QED BY <1>5, <2>1, <2>2, <3>2, FieldIs
  <2>11. OnField(w.realCmd # Idle)[OnTheField]
    BY <1>4, FieldIs
  <2>12. UNCHANGED <<Field!coordinator, OnField(SeenMail(inbox)), OnField(w.epoch), OnField(w.runner),
                     OnField(Abstract(w.entries)), OnField(w.limits)>>
    <3>1. w'.epoch = w.epoch /\ w'.runner = w.runner /\ w'.entries = w.entries /\ w'.limits = w.limits
      BY <1>7, <1>9, <1>10 DEF Same
    <3> QED BY <1>2, <3>1 DEF Field!coordinator, SeenMail
  <2> QED BY <2>9, <2>10, <2>11, <2>12 DEF Field!CommandQuiesced
<1> QED BY <1>9, <1>10, <1>11, <1>12

\* A worker's state after a step of its own, or one that leaves it alone.
LEMMA FieldStep ==
  ASSUME FieldPlan, MInv, Stands(w), Bodies(w, fibers), Next \/ UNCHANGED vars
  PROVE  /\ Stands(w') /\ Bodies(w', fibers')
         /\ RoomInBacklog => Field!Worker(OnTheField) \/ Coordinator \/ Unseen
<1>1. CASE HandleGrant
  BY <1>1, GrantImplements DEF Field!Worker
<1>2. CASE HandleEntries
  BY <1>2, EntriesImplement DEF Field!Worker
<1>3. CASE HandleReset
  BY <1>3, ResetImplements DEF Field!Worker
<1>4. CASE RunnerLands
  BY <1>4, LandingImplements DEF Field!Worker
<1>5. CASE CommandOp
  BY <1>5, OpImplements DEF Field!Worker
<1>6. CASE CommandQuiesced
  BY <1>6, QuiescedImplements DEF Field!Worker
<1>7. CASE StaleOp
  BY <1>7, StaleUnseen
<1>8. CASE Coordinator
  <2>1. w' = w /\ fibers' = fibers
    BY <1>8 DEF Coordinator, SendEntries, SendGrant, SendReset, ReceiveAck, Post
  <2> QED BY <1>8, <2>1
<1>9. CASE UNCHANGED vars
  <2>1. w' = w /\ fibers' = fibers /\ outbox' = outbox
    BY <1>9 DEF vars
  <2> QED BY <2>1, UnseenIs
<1> QED BY <1>1, <1>2, <1>3, <1>4, <1>5, <1>6, <1>7, <1>8, <1>9 DEF Next, Worker

\* Every step keeps the invariant, and is one of the field's worker or is not seen.
LEMMA FStep ==
  ASSUME MeteredPlans, TimedPlans, FInv, [Next]_vars
  PROVE  /\ FInv'
         /\ Compiles /\ RoomInBacklog => Field!Worker(OnTheField) \/ Coordinator \/ Unseen
<1>1. MInv /\ plan \in Plans
  BY DEF FInv, MInv, WInv, Types
<1>2. MInv'
  BY <1>1, MStep
<1>3. plan' = plan
  BY DEF Next, Worker, Coordinator, HandleGrant, HandleEntries, HandleReset, RunnerLands,
         CommandOp, CommandQuiesced, StaleOp, SendEntries, SendGrant, SendReset, ReceiveAck,
         Post, Receives, vars
<1>4. Compiles' <=> Compiles
  BY <1>3 DEF Compiles
<1>5. ASSUME Compiles
      PROVE  /\ Stands(w') /\ Bodies(w', fibers')
             /\ RoomInBacklog => Field!Worker(OnTheField) \/ Coordinator \/ Unseen
  <2>1. FieldPlan /\ Stands(w) /\ Bodies(w, fibers)
    BY <1>1, <1>5 DEF FieldPlan, FInv
  <2> QED BY <1>1, <2>1, FieldStep
<1>6. ASSUME Compiles PROVE Stands(w)' /\ Bodies(w, fibers)'
  <2>1. Stands(w') /\ Bodies(w', fibers')
    BY <1>5, <1>6
  <2>2. /\ w' \in Workers /\ Sound(w') /\ Tape(w') /\ Capped(w')
        /\ Placed(w') /\ ~w'.parked /\ Settles(w')
    BY <2>1 DEF Stands
  <2>3. /\ Sound(w)' /\ Tape(w)' /\ Capped(w)' /\ Held(w)'
    BY <1>2 DEF MInv, WInv, Shipped
  <2>4. Placed(w)' /\ Settles(w)'
    BY <2>2 DEF Placed, Settles
  <2>5. Bodies(w, fibers)'
    BY <2>1 DEF Bodies, BodyOf
  <2> QED BY <2>2, <2>3, <2>4, <2>5 DEF Stands
<1>7. FInv'
  BY <1>2, <1>4, <1>6 DEF FInv
<1> QED BY <1>5, <1>7

\* The initial states stand at the beginning.
LEMMA FInit == Init => FInv
<1> SUFFICES ASSUME Init PROVE FInv
  OBVIOUS
<1>1. MInv /\ plan \in Plans /\ fibers = {}
  BY MInit DEF Init
<1>2. PICK runner \in BOOLEAN : w = Fresh(0, runner)
  BY DEF Init
<1>3. Stands(w)
  BY <1>1, <1>2, FreshStands
<1> QED BY <1>1, <1>3 DEF FInv, Bodies

\* The worker implements Lockstep's: whatever it does with its queue and its fibers, and
\* however pump() and drain() call each other, a step of it is one of the worker of the
\* field or is not seen, as long as the queue keeps room.
THEOREM FieldWorkerImplemented ==
  ASSUME MeteredPlans, TimedPlans
  PROVE  Spec => ImplementsFieldWorker
<1>1. FInv /\ [Next]_vars => FInv'
  BY FStep
<1>2. FInv /\ [Next]_vars
        => [(\A i \in DOMAIN plan : plan[i].kind # "garbled") /\ RoomInBacklog
              => Field!Worker(OnTheField) \/ Coordinator]_<<Field!worker, outbox>>
  <2> SUFFICES ASSUME FInv, [Next]_vars, \A i \in DOMAIN plan : plan[i].kind # "garbled",
                      RoomInBacklog
               PROVE  Field!Worker(OnTheField) \/ Coordinator \/ UNCHANGED <<Field!worker, outbox>>
    OBVIOUS
  <2>1. Compiles
    BY DEF Compiles
  <2>2. Field!Worker(OnTheField) \/ Coordinator \/ Unseen
    BY <2>1, FStep
  <2> QED BY <2>2 DEF Unseen
<1> QED BY FInit, <1>1, <1>2, PTL DEF Spec, ImplementsFieldWorker

=============================================================================
