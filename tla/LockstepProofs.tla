--------------------------- MODULE LockstepProofs ---------------------------
(***************************************************************************)
(* Proofs about Lockstep, for every field, every cost and every bound.     *)
(*                                                                         *)
(* One inductive invariant carries all of them.  Its parts say, in order:  *)
(* how epochs and rounds are ordered on the ports, what the acks say of    *)
(* the workers, what the coordinator's own bookkeeping says of the acks,   *)
(* and what the grants in force say of the workers.                        *)
(***************************************************************************)
EXTENDS Lockstep, SequenceTheorems, TLAPS

\* A RESET still on its way to s opens an epoch that is new to s, and RESETs
\* arrive in order; nothing on the port is from the future.
ResetsInOrder(s) ==
  /\ wEpoch[s] <= epoch
  /\ \A i \in 1 .. Len(toWorker[s]) :
       /\ toWorker[s][i].epoch <= epoch
       /\ toWorker[s][i].type = "RESET" =>
            /\ wEpoch[s] < toWorker[s][i].epoch
            /\ \A j \in 1 .. i - 1 :
                 toWorker[s][j].type = "RESET" =>
                   toWorker[s][j].epoch < toWorker[s][i].epoch

\* Within an epoch the grants of s arrive in the order of their rounds.
RoundsInOrder(s) ==
  /\ Current(s) => limits[s].round <= round
  /\ \A i \in 1 .. Len(toWorker[s]) : toWorker[s][i].type = "GRANT" =>
       /\ toWorker[s][i].grant.round >= -1
       /\ toWorker[s][i].epoch = epoch => toWorker[s][i].grant.round <= round
       /\ toWorker[s][i].epoch = wEpoch[s] =>
            limits[s].round <= toWorker[s][i].grant.round
       /\ \A j \in 1 .. i - 1 :
            /\ toWorker[s][j].type = "GRANT"
            /\ toWorker[s][j].epoch = toWorker[s][i].epoch
            => toWorker[s][j].grant.round <= toWorker[s][i].grant.round

PortsInv == \A s \in Session : ResetsInOrder(s) /\ RoundsInOrder(s)

\* An ack on its way from s, if it is of the epoch s is in, is not ahead of s.
AcksArePast ==
  \A s \in Session : \A i \in 1 .. Len(toMain[s]) :
    /\ toMain[s][i].epoch <= wEpoch[s]
    /\ toMain[s][i].epoch = wEpoch[s] =>
         /\ toMain[s][i].ack.round <= limits[s].round
         /\ toMain[s][i].ack.playback <= playback[s]
         /\ toMain[s][i].ack.cursor <= cursor[s]
         /\ toMain[s][i].ack.drained <= drained[s]

WorkerInv == \A s \in Session : drained[s] < cursor[s] /\ -1 <= drained[s]

RoundInv ==
  /\ \A s \in Session : round - 1 <= acked[s].round
  /\ lastComputedRound = round => \A s \in Session : cached[s].round = round

\* Pace: the shared index is a step the whole field has reached.
SharedIndexReached == mode = "pace" => \A s \in Session : sharedIndex <= CursorOf(s)

\* Race: one baseline, which the whole field has played past.
CommonOrigin ==
  mode = "race" => \A s, t \in Session : /\ baseline[s] = baseline[t]
                                         /\ baseline[s] <= acked[t].playback

IInv ==
  /\ TypeOK
  /\ PortsInv
  /\ AcksArePast
  /\ AckedIsPast
  /\ WorkerInv
  /\ RoundInv
  /\ SharedIndexReached
  /\ CommonOrigin
  /\ PaceJoin
  /\ RaceWatermark

-----------------------------------------------------------------------------
(* The operators *)

LEMMA ProductLaws ==
  ASSUME NEW n \in Nat \ {0}, NEW c \in Nat
  PROVE  n * c \in Nat /\ c <= n * c
<1>1. n * c \in Nat
  OBVIOUS
<1>2. (n - 1) * c >= 0
  OBVIOUS
<1>3. n * c = (n - 1) * c + c
  OBVIOUS
<1> QED
  BY <1>1, <1>2, <1>3

LEMMA EntryTypes ==
  ASSUME NEW es \in Seq(Entry), NEW s \in Session
  PROVE  /\ \A n \in 0 .. Len(es) : TapeEnd(es, s, n) \in Nat
         /\ \A kind \in {"churn", "command"}, cost \in Costs :
              NewEntry(es, kind, cost) \in Entry
<1>1. ASSUME NEW t \in Session, NEW n \in 0 .. Len(es)
      PROVE  TapeEnd(es, t, n) \in Nat
  <2>1. CASE n = 0
    BY <2>1 DEF TapeEnd
  <2>2. CASE n # 0
    <3>1. es[n] \in Entry
      BY <2>2
    <3>2. es[n].end \in [Session -> Nat]
      BY <3>1 DEF Entry
    <3> QED
      BY <2>2, <3>2 DEF TapeEnd
  <2> QED
    BY <2>1, <2>2
<1>2. ASSUME NEW kind \in {"churn", "command"}, NEW cost \in Costs
      PROVE  NewEntry(es, kind, cost) \in Entry
  <2>1. cost \in [Session -> Nat]
    BY ConstantsAssumption
  <2>2. Len(es) \in 0 .. Len(es)
    OBVIOUS
  <2>3. ASSUME NEW t \in Session
        PROVE  TapeEnd(es, t, Len(es)) + cost[t] \in Nat
    <3>1. TapeEnd(es, t, Len(es)) \in Nat
      BY <1>1, <2>2
    <3>2. cost[t] \in Nat
      BY <2>1
    <3> QED
      BY <3>1, <3>2
  <2> QED
    BY <2>3 DEF NewEntry, Entry
<1> QED
  BY <1>1, <1>2

LEMMA EnsuredTypes ==
  ASSUME NEW es \in Seq(Entry), NEW n \in Int, NEW x \in Ensured(es, n)
  PROVE  x \in Seq(Entry) /\ Len(es) <= Len(x)
<1>1. CASE x = es
  BY <1>1
<1>2. CASE \E cost \in Costs : x = Append(es, NewEntry(es, "churn", cost))
  <2>1. PICK cost \in Costs : x = Append(es, NewEntry(es, "churn", cost))
    BY <1>2
  <2>2. PICK s \in Session : TRUE
    BY ConstantsAssumption
  <2>3. NewEntry(es, "churn", cost) \in Entry
    BY EntryTypes, <2>2
  <2> QED
    BY <2>1, <2>3
<1> QED
  BY <1>1, <1>2 DEF Ensured

\* Whatever rule derives a grant, its limits are within their kinds.
LEMMA DerivedGrantTypes ==
  ASSUME TypeOK, NEW s \in Session, NEW r \in Int, NEW hi \in Int, NEW lo \in Int,
         NEW stepLimit \in Nat \cup {-1},
         sequence' \in Seq(Entry), sharedIndex' \in Nat, baseline'[s] \in Nat
  PROVE  LET g == DerivedGrant(s, r, hi, lo, stepLimit)
         IN  /\ g \in Grant
             /\ g.round = r
             /\ g.rule = IF stepLimit >= 0 THEN "step" ELSE mode
             /\ g.scale = scale
             /\ g.rule = "pace" => g.entryLimit = SharedStep(s)
             /\ g.rule = "race" =>
                  g.playLimit = Larger(baseline'[s] + BoundedMax(hi, lo),
                                       acked[s].playback)
<1> DEFINE g == DerivedGrant(s, r, hi, lo, stepLimit)
<1>1. /\ mode \in {"pace", "race"} /\ scale \in Nat
      /\ acked[s].playback \in Nat /\ acked[s].cursor \in Nat
  BY DEF TypeOK, CoordinatorTypeOK, Ack
<1>2. RACE_LEAD_BOUND_FRAMES * chunkNs \in Nat
  BY <1>1, ProductLaws, ConstantsAssumption DEF chunkNs
<1>3. BoundedMax(hi, lo) \in Int
  BY <1>1, <1>2 DEF BoundedMax, Larger, Smaller, chunkNs
<1>4. SharedStep(s) \in Nat
  <2>1. PICK k \in Nat : k = sharedIndex'
    OBVIOUS
  <2>2. SharedStep(s) = Larger(k + 1, acked[s].cursor)
    BY <2>1 DEF SharedStep
  <2> QED
    BY <2>2, <1>1 DEF Larger
<1>5. CASE stepLimit >= 0
  BY <1>5, <1>1 DEF DerivedGrant, Grant
<1>6. CASE stepLimit < 0
  <2>1. Larger(baseline'[s] + IF mode = "race" THEN BoundedMax(hi, lo)
                                               ELSE hi + chunkNs,
               acked[s].playback) \in Nat
    BY <1>1, <1>3, SMTT(30) DEF Larger, chunkNs
  <2>2. Len(sequence') \in Nat
    OBVIOUS
  <2> QED
    BY <1>6, <1>1, <1>4, <2>1, <2>2 DEF DerivedGrant, Grant
<1> QED
  BY <1>5, <1>6

LEMMA ComputeGrantsTypes ==
  ASSUME TypeOK, NEW es \in Seq(Entry), Len(sequence) <= Len(es),
         NEW r \in Int, NEW force \in BOOLEAN, NEW stepLimit \in Nat \cup {-1},
         computeGrants(r, es, force, stepLimit)
  PROVE  /\ sequence' \in Seq(Entry) /\ Len(es) <= Len(sequence')
         /\ sharedIndex' \in Nat
         /\ baseline' \in [Session -> Nat]
         /\ cached' \in [Session -> Grant]
         /\ \A s \in Session :
              /\ cached'[s].round = r
              /\ cached'[s].rule = IF stepLimit >= 0 THEN "step" ELSE mode
<1>1. /\ sharedIndex \in Nat /\ mode \in {"pace", "race"}
      /\ baseline \in [Session -> Nat] /\ acked \in [Session -> Ack]
      /\ Len(sequence) \in Nat /\ Len(es) \in Nat
  BY DEF TypeOK, CoordinatorTypeOK
<1>2. \A s \in Session : acked[s].playback \in Nat
  BY <1>1 DEF Ack
<1>3. /\ sequence' \in Seq(Entry) /\ Len(es) <= Len(sequence')
      /\ sharedIndex' \in Nat /\ baseline' \in [Session -> Nat]
  <2>1. CASE PaceAdvance(es, force)
    <3>1. PICK k \in sharedIndex .. Len(es) :
            /\ sharedIndex' = k
            /\ baseline' = IF k > sharedIndex
                           THEN [s \in Session |-> acked[s].playback]
                           ELSE baseline
            /\ sequence' \in Ensured(es, IF running \/ force THEN k + 1 ELSE 0)
      BY <2>1 DEF PaceAdvance
    <3>2. sequence' \in Seq(Entry) /\ Len(es) <= Len(sequence')
      BY <3>1, <1>1, EnsuredTypes
    <3> QED
      BY <3>1, <3>2, <1>1, <1>2
  <2>2. CASE RaceAdvance(es)
    <3>1. PICK b \in 0 .. Len(es) :
            sequence' \in Ensured(es, IF running THEN b + RACE_LOOKAHEAD ELSE 0)
      BY <2>2 DEF RaceAdvance
    <3>2. sequence' \in Seq(Entry) /\ Len(es) <= Len(sequence')
      BY <3>1, <1>1, EnsuredTypes DEF RACE_LOOKAHEAD
    <3> QED
      BY <3>2, <2>2, <1>1 DEF RaceAdvance
  <2> QED
    BY <2>1, <2>2 DEF computeGrants
<1>4. PICK hi, lo \in {Rel(s) : s \in Session} :
        cached' = [s \in Session |-> DerivedGrant(s, r, hi, lo, stepLimit)]
  BY DEF computeGrants
<1>5. hi \in Int /\ lo \in Int
  BY <1>2, <1>3, <1>4 DEF Rel
<1>6. sharedIndex' \in Nat
  BY <1>3
<1>7. ASSUME NEW s \in Session
      PROVE  /\ cached'[s] \in Grant
             /\ cached'[s].round = r
             /\ cached'[s].rule = IF stepLimit >= 0 THEN "step" ELSE mode
  <2>1. cached'[s] = DerivedGrant(s, r, hi, lo, stepLimit)
    BY <1>4
  <2>2. baseline'[s] \in Nat
    BY <1>3
  <2> QED
    BY <2>1, <2>2, <1>3, <1>5, <1>6, DerivedGrantTypes
<1>8. cached' \in [Session -> Grant]
  BY <1>4, <1>7
<1>9. Len(sequence') \in Nat
  BY <1>3
<1> QED
  BY <1>1, <1>3, <1>7, <1>8, <1>9

-----------------------------------------------------------------------------
(* The ports *)

LEMMA ShipmentTypes ==
  ASSUME TypeOK, NEW es \in Seq(Entry), NEW from \in Nat
  PROVE  /\ Shipment(es, from) \in Seq(ToWorkerMsg)
         /\ \A i \in 1 .. Len(Shipment(es, from)) :
              /\ Shipment(es, from)[i].type = "ENTRIES"
              /\ Shipment(es, from)[i].epoch = epoch
<1> DEFINE list == SubSeq(es, from + 1, Len(es))
           m == EntriesMsg(epoch, from, list)
<1>1. epoch \in Nat
  BY DEF TypeOK, CoordinatorTypeOK
<1>2. CASE from < Len(es)
  <2>1. \A i \in from + 1 .. Len(es) : es[i] \in Entry
    BY ElementOfSeq
  <2>2. list \in Seq(Entry)
    BY <2>1, SubSeqProperties, LenProperties
  <2>3. m \in ToWorkerMsg /\ m.type = "ENTRIES" /\ m.epoch = epoch
    BY <1>1, <2>2 DEF EntriesMsg, ToWorkerMsg
  <2>4. Shipment(es, from) = <<m>>
    BY <1>2 DEF Shipment
  <2> HIDE DEF m
  <2> QED
    BY <2>3, <2>4
<1>3. CASE ~(from < Len(es))
  BY <1>3 DEF Shipment
<1> QED
  BY <1>2, <1>3

\* What the coordinator sends: prefetched entries, or the grant it keeps.
IsMail(s, m) ==
  /\ m.epoch = epoch
  /\ m.type = "ENTRIES" \/ m = GrantMsg(epoch, cached'[s])

\* q is the port of s with some mail behind what was already on it.
Extended(s, q) ==
  /\ q \in Seq(ToWorkerMsg)
  /\ Len(toWorker[s]) <= Len(q)
  /\ \A i \in 1 .. Len(toWorker[s]) : q[i] = toWorker[s][i]
  /\ \A i \in Len(toWorker[s]) + 1 .. Len(q) : IsMail(s, q[i])

LEMMA MailExtends ==
  ASSUME TypeOK, NEW s \in Session, NEW q, Extended(s, q),
         NEW x \in Seq(ToWorkerMsg), \A i \in 1 .. Len(x) : IsMail(s, x[i])
  PROVE  Extended(s, q \o x)
<1> DEFINE n == Len(toWorker[s])
<1>1. q \in Seq(ToWorkerMsg) /\ n \in Nat /\ Len(q) \in Nat /\ Len(x) \in Nat
      /\ n <= Len(q)
  BY DEF Extended, TypeOK, PortsTypeOK
<1>2. /\ q \o x \in Seq(ToWorkerMsg)
      /\ Len(q \o x) = Len(q) + Len(x)
      /\ \A i \in 1 .. Len(q) + Len(x) :
           (q \o x)[i] = IF i <= Len(q) THEN q[i] ELSE x[i - Len(q)]
  BY <1>1, ConcatProperties
<1>3. \A i \in 1 .. n : (q \o x)[i] = toWorker[s][i]
  BY <1>1, <1>2 DEF Extended
<1>4. ASSUME NEW i \in n + 1 .. Len(q \o x)
      PROVE  IsMail(s, (q \o x)[i])
  <2>1. CASE i <= Len(q)
    BY <2>1, <1>1, <1>2 DEF Extended
  <2>2. CASE i > Len(q)
    <3>1. i - Len(q) \in 1 .. Len(x) /\ (q \o x)[i] = x[i - Len(q)]
      BY <2>2, <1>1, <1>2
    <3> QED
      BY <3>1
  <2> QED
    BY <2>1, <2>2, <1>1
<1>5. n <= Len(q \o x)
  BY <1>1, <1>2
<1> QED
  BY <1>2, <1>3, <1>4, <1>5 DEF Extended

LEMMA PortExtendsItself ==
  ASSUME TypeOK, NEW s \in Session
  PROVE  Extended(s, toWorker[s])
<1>1. toWorker[s] \in Seq(ToWorkerMsg) /\ Len(toWorker[s]) \in Nat
  BY DEF TypeOK, PortsTypeOK
<1> QED
  BY <1>1 DEF Extended

LEMMA ShipmentExtends ==
  ASSUME TypeOK, NEW s \in Session, NEW q, Extended(s, q),
         NEW es \in Seq(Entry), NEW from \in Nat
  PROVE  Extended(s, q \o Shipment(es, from))
<1>1. /\ Shipment(es, from) \in Seq(ToWorkerMsg)
      /\ \A i \in 1 .. Len(Shipment(es, from)) : IsMail(s, Shipment(es, from)[i])
  BY ShipmentTypes DEF IsMail
<1> QED
  BY <1>1, MailExtends

LEMMA FrameExtends ==
  ASSUME TypeOK, NEW es \in Seq(Entry), sequence' \in Seq(Entry),
         cached' \in [Session -> Grant], NEW s \in Session,
         toWorker' = [t \in Session |->
                        toWorker[t] \o Shipment(es, shipped[t])
                                    \o Shipment(sequence', Len(es))
                                    \o <<GrantMsg(epoch, cached'[t])>>]
  PROVE  Extended(s, toWorker'[s])
<1> DEFINE x == toWorker[s] \o Shipment(es, shipped[s])
           y == x \o Shipment(sequence', Len(es))
           m == GrantMsg(epoch, cached'[s])
<1>1. epoch \in Nat /\ shipped[s] \in Nat /\ Len(es) \in Nat
  BY DEF TypeOK, CoordinatorTypeOK
<1>2. Extended(s, x)
  BY <1>1, PortExtendsItself, ShipmentExtends
<1>3. Extended(s, y)
  <2> HIDE DEF x
  <2> QED
    BY <1>1, <1>2, ShipmentExtends
<1>4. m \in ToWorkerMsg /\ IsMail(s, m)
  BY <1>1 DEF GrantMsg, ToWorkerMsg, IsMail
<1>5. toWorker'[s] = y \o <<m>>
  OBVIOUS
<1>6. Extended(s, y \o <<m>>)
  <2> HIDE DEF y, m
  <2>1. <<m>> \in Seq(ToWorkerMsg) /\ \A i \in 1 .. Len(<<m>>) : IsMail(s, <<m>>[i])
    BY <1>4
  <2> QED
    BY <2>1, <1>3, MailExtends
<1> QED
  BY <1>5, <1>6

-----------------------------------------------------------------------------
(* The workers *)

\* A worker never goes back: what it executed, played and drained only grows,
\* what it drained it has executed, and its ack reports the state it is left in.
MovesOn(s, g) ==
  \E p \in Nat, d \in Int, m \in Nat, b \in BOOLEAN, x \in Nat :
    /\ playback[s] <= p /\ drained[s] <= d /\ cursor[s] <= m /\ d < m
    /\ p > playback[s] => Within(p, g.playLimit)
    /\ playback' = [playback EXCEPT ![s] = p]
    /\ drained' = [drained EXCEPT ![s] = d]
    /\ cursor' = [cursor EXCEPT ![s] = m]
    /\ busy' = [busy EXCEPT ![s] = b]
    /\ executed' = [executed EXCEPT ![s] = x]
    /\ toMain' = [toMain EXCEPT ![s] =
         Append(@, AckMsg(wEpoch[s], [round |-> g.round, playback |-> p,
                                      cursor |-> m, drained |-> d]))]

LEMMA ServeMovesOn ==
  ASSUME TypeOK, WorkerInv, NEW s \in Session, NEW g \in Grant,
         NEW inFlight \in BOOLEAN, NEW from \in Nat,
         cursor[s] <= from, Serve(s, g, inFlight, from)
  PROVE  MovesOn(s, g)
<1>1. /\ playback[s] \in Nat /\ drained[s] \in Int /\ executed[s] \in Nat
      /\ entries[s] \in Seq(Entry) /\ Len(entries[s]) \in Nat
      /\ executed \in [Session -> Nat]
  BY DEF TypeOK, WorkerTypeOK
<1>2. PICK n \in from .. Len(entries[s]), m \in from .. Len(entries[s]),
           started \in BOOLEAN, b \in BOOLEAN :
        /\ Pump(s, entries[s], g, playback[s], inFlight, from, n, started)
        /\ LET x == IF inFlight THEN executed[s] ELSE TapeEnd(entries[s], s, n)
           IN  \E p \in playback[s] .. x, d \in drained[s] .. n - 1 :
                 /\ Drain(s, g, n, x, p, d)
                 /\ Pump(s, entries[s], g, p, started, n, m, b)
                 /\ playback' = [playback EXCEPT ![s] = p]
                 /\ drained' = [drained EXCEPT ![s] = d]
                 /\ toMain' = [toMain EXCEPT ![s] =
                      Append(@, AckMsg(wEpoch[s],
                                       [round |-> g.round, playback |-> p,
                                        cursor |-> m, drained |-> d]))]
        /\ cursor' = [cursor EXCEPT ![s] = m]
        /\ busy' = [busy EXCEPT ![s] = b]
        /\ executed' = [executed EXCEPT ![s] =
                          IF inFlight THEN @ ELSE TapeEnd(entries[s], s, m)]
  BY DEF Serve
<1> DEFINE x == IF inFlight THEN executed[s] ELSE TapeEnd(entries[s], s, n)
           y == IF inFlight THEN executed[s] ELSE TapeEnd(entries[s], s, m)
<1>3. n \in Nat /\ m \in Nat /\ n \in 0 .. Len(entries[s]) /\ m \in 0 .. Len(entries[s])
  BY <1>1, <1>2
<1>4. x \in Nat /\ y \in Nat
  BY <1>1, <1>3, EntryTypes
<1>5. PICK p \in playback[s] .. x, d \in drained[s] .. n - 1 :
        /\ Drain(s, g, n, x, p, d)
        /\ Pump(s, entries[s], g, p, started, n, m, b)
        /\ playback' = [playback EXCEPT ![s] = p]
        /\ drained' = [drained EXCEPT ![s] = d]
        /\ toMain' = [toMain EXCEPT ![s] =
             Append(@, AckMsg(wEpoch[s], [round |-> g.round, playback |-> p,
                                          cursor |-> m, drained |-> d]))]
  BY <1>2
<1>6. n <= m
  BY <1>3, <1>5 DEF Pump
<1>7. p \in Nat /\ d \in Int /\ playback[s] <= p /\ drained[s] <= d /\ d < m
      /\ cursor[s] <= m
  <2>1. cursor[s] \in Nat
    BY DEF TypeOK, WorkerTypeOK
  <2> QED
    BY <1>1, <1>2, <1>3, <1>4, <1>5, <1>6, <2>1
<1>8. p > playback[s] => Within(p, g.playLimit)
  BY <1>1, <1>5, <1>7 DEF Drain
<1>9. executed' = [executed EXCEPT ![s] = y]
  BY <1>2
<1> HIDE DEF x, y
<1> QED
  BY <1>2, <1>3, <1>4, <1>5, <1>7, <1>8, <1>9 DEF MovesOn

\* What the proofs need to know of every worker step but a reset: s may take
\* one message, run under a new grant, move on, and acknowledge.
Advances(s) ==
  \E p \in Nat, d \in Int, m \in Nat, g \in Grant :
    /\ playback[s] <= p /\ drained[s] <= d /\ cursor[s] <= m /\ d < m
    /\ p > playback[s] => Within(p, g.playLimit)
    /\ playback' = [playback EXCEPT ![s] = p]
    /\ drained' = [drained EXCEPT ![s] = d]
    /\ cursor' = [cursor EXCEPT ![s] = m]
    /\ limits' = [limits EXCEPT ![s] = g]
    /\ \/ UNCHANGED toWorker /\ g = limits[s]
       \/ /\ toWorker[s] # <<>>
          /\ toWorker' = [toWorker EXCEPT ![s] = Tail(@)]
          /\ \/ g = limits[s]
             \/ /\ Head(toWorker[s]).type = "GRANT"
                /\ Head(toWorker[s]).epoch = wEpoch[s]
                /\ g = Head(toWorker[s]).grant
    /\ \/ UNCHANGED toMain
       \/ toMain' = [toMain EXCEPT ![s] =
            Append(@, AckMsg(wEpoch[s], [round |-> g.round, playback |-> p,
                                         cursor |-> m, drained |-> d]))]
    /\ UNCHANGED <<coordinator, wEpoch>>
    /\ ready' \in [Session -> BOOLEAN] /\ entries' \in [Session -> Seq(Entry)]
    /\ busy' \in [Session -> BOOLEAN] /\ executed' \in [Session -> Nat]

LEMMA HeadIsMsg ==
  ASSUME TypeOK, NEW s \in Session, toWorker[s] # <<>>
  PROVE  /\ Head(toWorker[s]) \in ToWorkerMsg
         /\ Head(toWorker[s]) = toWorker[s][1]
         /\ Len(toWorker[s]) \in Nat \ {0}
         /\ Tail(toWorker[s]) \in Seq(ToWorkerMsg)
         /\ Len(Tail(toWorker[s])) = Len(toWorker[s]) - 1
         /\ \A i \in 1 .. Len(Tail(toWorker[s])) :
              Tail(toWorker[s])[i] = toWorker[s][i + 1]
<1>1. toWorker[s] \in Seq(ToWorkerMsg)
  BY DEF TypeOK, PortsTypeOK
<1>2. Len(toWorker[s]) \in Nat \ {0}
  BY <1>1, EmptySeq
<1> QED
  BY <1>1, <1>2, HeadTailProperties

LEMMA WorkerTypes ==
  ASSUME TypeOK, NEW s \in Session
  PROVE  /\ playback[s] \in Nat /\ drained[s] \in Int /\ cursor[s] \in Nat
         /\ limits[s] \in Grant /\ busy[s] \in BOOLEAN /\ executed[s] \in Nat
         /\ entries[s] \in Seq(Entry) /\ Len(entries[s]) \in Nat
BY DEF TypeOK, WorkerTypeOK

LEMMA HandleGrantAdvances ==
  ASSUME TypeOK, WorkerInv, NEW s \in Session, HandleGrant(s)
  PROVE  Advances(s)
<1> DEFINE g == Head(toWorker[s]).grant
<1>1. /\ toWorker[s] # <<>> /\ Head(toWorker[s]).type = "GRANT"
      /\ Head(toWorker[s]).epoch = wEpoch[s]
      /\ toWorker' = [toWorker EXCEPT ![s] = Tail(@)]
      /\ UNCHANGED <<coordinator, wEpoch, ready, entries>>
      /\ limits' = [limits EXCEPT ![s] = g]
      /\ Serve(s, limits'[s], busy[s], cursor[s])
  BY DEF HandleGrant, Receives
<1>2. g \in Grant
  BY <1>1, HeadIsMsg DEF ToWorkerMsg
<1>3. limits'[s] = g
  BY <1>1 DEF TypeOK, WorkerTypeOK
<1> HIDE DEF g
<1>4. Serve(s, g, busy[s], cursor[s])
  BY <1>1, <1>3
<1>5. MovesOn(s, g)
  <2>1. cursor[s] \in Nat /\ cursor[s] <= cursor[s] /\ busy[s] \in BOOLEAN
    BY WorkerTypes
  <2> QED
    BY <1>2, <1>4, <2>1, ServeMovesOn
<1>6. /\ ready' \in [Session -> BOOLEAN] /\ entries' \in [Session -> Seq(Entry)]
      /\ busy' \in [Session -> BOOLEAN] /\ executed' \in [Session -> Nat]
  BY <1>1, <1>5 DEF TypeOK, WorkerTypeOK, MovesOn
<1> QED
  BY <1>1, <1>2, <1>5, <1>6 DEF MovesOn, Advances, g

LEMMA CommandQuiescedAdvances ==
  ASSUME TypeOK, WorkerInv, NEW s \in Session, CommandQuiesced(s)
  PROVE  Advances(s)
<1>1. /\ UNCHANGED <<coordinator, toWorker, wEpoch, ready, entries, limits>>
      /\ Serve(s, limits[s], FALSE, cursor[s] + 1)
  BY DEF CommandQuiesced
<1>2. MovesOn(s, limits[s])
  <2>1. cursor[s] + 1 \in Nat /\ cursor[s] <= cursor[s] + 1
    BY WorkerTypes
  <2> QED
    BY <1>1, <2>1, WorkerTypes, ServeMovesOn
<1>3. /\ ready' \in [Session -> BOOLEAN] /\ entries' \in [Session -> Seq(Entry)]
      /\ busy' \in [Session -> BOOLEAN] /\ executed' \in [Session -> Nat]
  BY <1>1, <1>2 DEF TypeOK, WorkerTypeOK, MovesOn
<1>4. limits[s] \in Grant /\ limits' = [limits EXCEPT ![s] = limits[s]]
  BY <1>1 DEF TypeOK, WorkerTypeOK
<1> QED
  BY <1>1, <1>2, <1>3, <1>4 DEF MovesOn, Advances

LEMMA CommandOpAdvances ==
  ASSUME TypeOK, WorkerInv, NEW s \in Session, CommandOp(s)
  PROVE  Advances(s)
<1>1. PICK x \in executed[s] + 1 .. TapeEnd(entries[s], s, cursor[s] + 1) :
        executed' = [executed EXCEPT ![s] = x]
  BY DEF CommandOp
<1>2. UNCHANGED <<coordinator, toWorker, toMain, wEpoch, ready, entries, cursor,
                  busy, playback, drained, limits>>
  BY DEF CommandOp
<1>3. x \in Nat
  BY <1>1, WorkerTypes
<1>4. /\ ready' \in [Session -> BOOLEAN] /\ entries' \in [Session -> Seq(Entry)]
      /\ busy' \in [Session -> BOOLEAN] /\ executed' \in [Session -> Nat]
  BY <1>1, <1>2, <1>3 DEF TypeOK, WorkerTypeOK
<1>5. /\ playback' = [playback EXCEPT ![s] = playback[s]]
      /\ drained' = [drained EXCEPT ![s] = drained[s]]
      /\ cursor' = [cursor EXCEPT ![s] = cursor[s]]
      /\ limits' = [limits EXCEPT ![s] = limits[s]]
  BY <1>2 DEF TypeOK, WorkerTypeOK
<1>6. /\ playback[s] <= playback[s] /\ drained[s] <= drained[s]
      /\ cursor[s] <= cursor[s] /\ drained[s] < cursor[s]
      /\ ~(playback[s] > playback[s])
  BY WorkerTypes DEF WorkerInv
<1> QED
  BY <1>2, <1>4, <1>5, <1>6, WorkerTypes DEF Advances

LEMMA PumpOnlyMovesOn ==
  ASSUME TypeOK, WorkerInv, NEW s \in Session, NEW es \in Seq(Entry), PumpOnly(s, es)
  PROVE  \E m \in Nat, b \in BOOLEAN, x \in Nat :
           /\ cursor[s] <= m /\ drained[s] < m
           /\ cursor' = [cursor EXCEPT ![s] = m]
           /\ busy' = [busy EXCEPT ![s] = b]
           /\ executed' = [executed EXCEPT ![s] = x]
<1>1. PICK n \in cursor[s] .. Len(es), b \in BOOLEAN :
        /\ cursor' = [cursor EXCEPT ![s] = n]
        /\ busy' = [busy EXCEPT ![s] = b]
        /\ executed' = [executed EXCEPT ![s] =
                          IF busy[s] THEN @ ELSE TapeEnd(es, s, n)]
  BY DEF PumpOnly
<1> DEFINE x == IF busy[s] THEN executed[s] ELSE TapeEnd(es, s, n)
<1>2. n \in Nat /\ n \in 0 .. Len(es) /\ cursor[s] <= n
  <2>1. Len(es) \in Nat
    OBVIOUS
  <2> QED
    BY <1>1, <2>1, WorkerTypes
<1>3. x \in Nat
  BY <1>2, WorkerTypes, EntryTypes
<1>4. executed' = [executed EXCEPT ![s] = x]
  BY <1>1
<1>5. drained[s] < n
  BY <1>2, WorkerTypes DEF WorkerInv
<1> HIDE DEF x
<1> QED
  BY <1>1, <1>2, <1>3, <1>4, <1>5

\* A step that only pumps, with or without a message taken off the port.
LEMMA PumpOnlyAdvances ==
  ASSUME TypeOK, WorkerInv, NEW s \in Session, NEW es \in Seq(Entry),
         PumpOnly(s, es), UNCHANGED coordinator,
         ready' \in [Session -> BOOLEAN], entries' \in [Session -> Seq(Entry)],
         \/ UNCHANGED toWorker
         \/ /\ toWorker[s] # <<>>
            /\ toWorker' = [toWorker EXCEPT ![s] = Tail(@)]
  PROVE  Advances(s)
<1>1. PICK m \in Nat, b \in BOOLEAN, x \in Nat :
           /\ cursor[s] <= m /\ drained[s] < m
           /\ cursor' = [cursor EXCEPT ![s] = m]
           /\ busy' = [busy EXCEPT ![s] = b]
           /\ executed' = [executed EXCEPT ![s] = x]
  BY PumpOnlyMovesOn
<1>2. UNCHANGED <<wEpoch, playback, drained, limits, toMain>>
  BY DEF PumpOnly
<1>3. busy' \in [Session -> BOOLEAN] /\ executed' \in [Session -> Nat]
  BY <1>1 DEF TypeOK, WorkerTypeOK
<1>4. /\ playback' = [playback EXCEPT ![s] = playback[s]]
      /\ drained' = [drained EXCEPT ![s] = drained[s]]
      /\ limits' = [limits EXCEPT ![s] = limits[s]]
  BY <1>2 DEF TypeOK, WorkerTypeOK
<1>5. /\ playback[s] <= playback[s] /\ drained[s] <= drained[s]
      /\ ~(playback[s] > playback[s])
  BY WorkerTypes
<1> QED
  BY <1>1, <1>2, <1>3, <1>4, <1>5, WorkerTypes DEF Advances

LEMMA HandleEntriesAdvances ==
  ASSUME TypeOK, WorkerInv, NEW s \in Session, HandleEntries(s)
  PROVE  Advances(s)
<1> DEFINE m    == Head(toWorker[s])
           have == Len(entries[s])
           new  == IF m.from <= have THEN SubSeq(m.list, have - m.from + 1, Len(m.list))
                                     ELSE <<>>
<1>1. /\ toWorker[s] # <<>> /\ m.type = "ENTRIES"
      /\ toWorker' = [toWorker EXCEPT ![s] = Tail(@)]
      /\ UNCHANGED <<coordinator, ready>>
      /\ entries' = [entries EXCEPT ![s] = @ \o new]
      /\ PumpOnly(s, entries[s] \o new)
  BY DEF HandleEntries, Receives
<1>2. m.from \in Nat /\ m.list \in Seq(Entry)
  BY <1>1, HeadIsMsg DEF ToWorkerMsg
<1>3. new \in Seq(Entry)
  <2>1. CASE m.from <= have
    <3> DEFINE a == have - m.from + 1
    <3>1. a \in Int /\ a >= 1 /\ Len(m.list) \in Int
      BY <1>2, <2>1, WorkerTypes
    <3>2. \A i \in a .. Len(m.list) : m.list[i] \in Entry
      BY <1>2, <3>1
    <3> HIDE DEF a
    <3>3. SubSeq(m.list, a, Len(m.list)) \in Seq(Entry)
      BY <3>1, <3>2, SubSeqProperties
    <3> QED
      BY <2>1, <3>3 DEF a
  <2>2. CASE ~(m.from <= have)
    BY <2>2
  <2> QED
    BY <2>1, <2>2
<1> HIDE DEF new, m
<1>4. entries[s] \o new \in Seq(Entry)
  BY <1>3, WorkerTypes
<1>5. ready' \in [Session -> BOOLEAN] /\ entries' \in [Session -> Seq(Entry)]
  BY <1>1, <1>4 DEF TypeOK, WorkerTypeOK
<1> QED
  BY <1>1, <1>4, <1>5, PumpOnlyAdvances

LEMMA RunnerReadyAdvances ==
  ASSUME TypeOK, WorkerInv, NEW s \in Session, RunnerReady(s)
  PROVE  Advances(s)
<1>1. ready' = [ready EXCEPT ![s] = TRUE]
  BY DEF RunnerReady
<1>2. PumpOnly(s, entries[s]) /\ UNCHANGED <<coordinator, toWorker, entries>>
  BY DEF RunnerReady
<1>3. ready' \in [Session -> BOOLEAN] /\ entries' \in [Session -> Seq(Entry)]
  BY <1>1, <1>2 DEF TypeOK, WorkerTypeOK
<1> QED
  BY <1>2, <1>3, WorkerTypes, PumpOnlyAdvances

LEMMA GrantsInForceTypes ==
  ASSUME TypeOK, NEW s \in Session, NEW g \in GrantsInForce(s)
  PROVE  g \in Grant
<1>1. cached[s] \in Grant /\ limits[s] \in Grant
  BY DEF TypeOK, CoordinatorTypeOK, WorkerTypeOK
<1>2. ASSUME NEW i \in DOMAIN toWorker[s], toWorker[s][i].type = "GRANT"
      PROVE  toWorker[s][i].grant \in Grant
  <2>1. toWorker[s][i] \in ToWorkerMsg
    BY DEF TypeOK, PortsTypeOK
  <2> QED
    BY <1>2, <2>1 DEF ToWorkerMsg
<1> QED
  BY <1>1, <1>2 DEF GrantsInForce

LEMMA ProgressTypes ==
  ASSUME TypeOK, NEW s \in Session
  PROVE  /\ PlayedOf(s) \in Nat /\ CursorOf(s) \in Nat
         /\ DrainedOf(s) \in Int /\ RoundOf(s) \in Int
<1>1. limits[s] \in Grant
  BY WorkerTypes
<1>2. limits[s].round \in Int
  BY <1>1 DEF Grant
<1> QED
  BY <1>2, WorkerTypes DEF PlayedOf, CursorOf, DrainedOf, RoundOf

\* The bound a grant of one rule puts on s with respect to t.
PaceBound(s, t, g) ==
  g.rule = "pace" => g.entryLimit <= Larger(CursorOf(s), CursorOf(t) + 1)
RaceBound(s, t, g) ==
  g.rule = "race" =>
    g.playLimit <= Larger(PlayedOf(s), PlayedOf(t) + RACE_LEAD_BOUND_FRAMES * g.scale)

\* Progress only loosens the bounds.
LEMMA BoundsStay ==
  ASSUME TypeOK, TypeOK', NEW s \in Session, NEW t \in Session, NEW g \in Grant,
         PaceBound(s, t, g), RaceBound(s, t, g),
         CursorOf(s) <= CursorOf(s)', CursorOf(t) <= CursorOf(t)',
         PlayedOf(s) <= PlayedOf(s)', PlayedOf(t) <= PlayedOf(t)'
  PROVE  PaceBound(s, t, g)' /\ RaceBound(s, t, g)'
<1>1. PICK c1 \in Nat, c2 \in Nat, p1 \in Nat, p2 \in Nat :
        /\ c1 = CursorOf(s) /\ c2 = CursorOf(t)
        /\ p1 = PlayedOf(s) /\ p2 = PlayedOf(t)
  BY ProgressTypes
<1>2. CursorOf(s)' \in Nat /\ CursorOf(t)' \in Nat
      /\ PlayedOf(s)' \in Nat /\ PlayedOf(t)' \in Nat
  <2>1. WorkerTypeOK'
    BY DEF TypeOK
  <2> QED
    BY <2>1 DEF WorkerTypeOK, PlayedOf, CursorOf, Current
<1>3. PICK d1 \in Nat, d2 \in Nat, q1 \in Nat, q2 \in Nat :
        /\ d1 = CursorOf(s)' /\ d2 = CursorOf(t)'
        /\ q1 = PlayedOf(s)' /\ q2 = PlayedOf(t)'
  BY <1>2
<1>4. c1 <= d1 /\ c2 <= d2 /\ p1 <= q1 /\ p2 <= q2
  BY <1>1, <1>3
<1>5. ASSUME g.rule = "pace"
      PROVE  g.entryLimit <= Larger(d1, d2 + 1)
  <2>1. g.entryLimit \in Nat
    BY DEF Grant
  <2>2. g.entryLimit <= Larger(c1, c2 + 1)
    BY <1>1, <1>5 DEF PaceBound
  <2> QED
    BY <1>4, <2>1, <2>2 DEF Larger
<1>6. ASSUME g.rule = "race"
      PROVE  g.playLimit <= Larger(q1, q2 + RACE_LEAD_BOUND_FRAMES * g.scale)
  <2>1. g.playLimit \in Nat /\ g.scale \in Nat
    BY <1>6 DEF Grant
  <2>2. PICK lead \in Nat : lead = RACE_LEAD_BOUND_FRAMES * g.scale
    BY <2>1, ProductLaws, ConstantsAssumption
  <2>3. g.playLimit <= Larger(p1, p2 + lead)
    BY <1>1, <1>6, <2>2 DEF RaceBound
  <2>4. g.playLimit <= Larger(q1, q2 + lead)
    BY <1>4, <2>1, <2>3 DEF Larger
  <2> QED
    BY <2>2, <2>4
<1> QED
  BY <1>3, <1>5, <1>6 DEF PaceBound, RaceBound

\* Whatever the sessions do, the grants they had stay within bounds; a step only
\* has to answer for the grants it adds.
LEMMA GrantsStayInBounds ==
  ASSUME TypeOK, TypeOK', PaceJoin, RaceWatermark,
         \A t \in Session : CursorOf(t) <= CursorOf(t)' /\ PlayedOf(t) <= PlayedOf(t)',
         \A t \in Session : \A g \in GrantsInForce(t)' :
           \/ g \in GrantsInForce(t)
           \/ g \in Grant /\ \A u \in Session : PaceBound(t, u, g) /\ RaceBound(t, u, g)
  PROVE  PaceJoin' /\ RaceWatermark'
<1>1. ASSUME NEW s \in Session, NEW t \in Session, NEW g \in GrantsInForce(s)'
      PROVE  PaceBound(s, t, g)' /\ RaceBound(s, t, g)'
  <2>1. CASE g \in GrantsInForce(s)
    <3>1. g \in Grant
      BY <2>1, GrantsInForceTypes
    <3>2. PaceBound(s, t, g) /\ RaceBound(s, t, g)
      BY <2>1 DEF PaceJoin, RaceWatermark, PaceBound, RaceBound
    <3> QED
      BY <3>1, <3>2, BoundsStay
  <2>2. CASE g \in Grant /\ PaceBound(s, t, g) /\ RaceBound(s, t, g)
    BY <2>2, BoundsStay
  <2> QED
    BY <1>1, <2>1, <2>2
<1> QED
  BY <1>1 DEF PaceJoin, RaceWatermark, PaceBound, RaceBound

LEMMA AdvancesTypes ==
  ASSUME TypeOK, NEW s \in Session, Advances(s)
  PROVE  TypeOK'
<1>1. PICK p \in Nat, d \in Int, m \in Nat, g \in Grant :
    /\ playback' = [playback EXCEPT ![s] = p]
    /\ drained' = [drained EXCEPT ![s] = d]
    /\ cursor' = [cursor EXCEPT ![s] = m]
    /\ limits' = [limits EXCEPT ![s] = g]
    /\ \/ UNCHANGED toWorker
       \/ /\ toWorker[s] # <<>>
          /\ toWorker' = [toWorker EXCEPT ![s] = Tail(@)]
    /\ \/ UNCHANGED toMain
       \/ toMain' = [toMain EXCEPT ![s] =
            Append(@, AckMsg(wEpoch[s], [round |-> g.round, playback |-> p,
                                         cursor |-> m, drained |-> d]))]
    /\ UNCHANGED <<coordinator, wEpoch>>
    /\ ready' \in [Session -> BOOLEAN] /\ entries' \in [Session -> Seq(Entry)]
    /\ busy' \in [Session -> BOOLEAN] /\ executed' \in [Session -> Nat]
  BY ZenonT(60) DEF Advances
<1>2. CoordinatorTypeOK'
  BY <1>1 DEF TypeOK, CoordinatorTypeOK, coordinator
<1>3. WorkerTypeOK'
  BY <1>1 DEF TypeOK, WorkerTypeOK
<1>4. toWorker' \in [Session -> Seq(ToWorkerMsg)]
  BY <1>1, HeadIsMsg, ZenonT(60) DEF TypeOK, PortsTypeOK
<1>5. toMain' \in [Session -> Seq(ToMainMsg)]
  <2> DEFINE a == AckMsg(wEpoch[s], [round |-> g.round, playback |-> p,
                                     cursor |-> m, drained |-> d])
  <2>1. g.round \in Int
    BY DEF Grant
  <2>2. a \in ToMainMsg
    BY <2>1 DEF AckMsg, ToMainMsg, Ack, TypeOK, WorkerTypeOK
  <2> HIDE DEF a
  <2>3. UNCHANGED toMain \/ toMain' = [toMain EXCEPT ![s] = Append(@, a)]
    BY <1>1 DEF a
  <2>4. toMain \in [Session -> Seq(ToMainMsg)]
    BY DEF TypeOK, PortsTypeOK
  <2>5. Append(toMain[s], a) \in Seq(ToMainMsg)
    BY <2>2, <2>4
  <2>6. CASE toMain' = [toMain EXCEPT ![s] = Append(@, a)]
    BY <2>4, <2>5, <2>6
  <2> QED
    BY <2>3, <2>4, <2>6
<1> QED
  BY <1>2, <1>3, <1>4, <1>5 DEF TypeOK, PortsTypeOK

LEMMA AdvancesMonotone ==
  ASSUME TypeOK, NEW s \in Session, Advances(s)
  PROVE  \A t \in Session :
           /\ PlayedOf(t) <= PlayedOf(t)' /\ CursorOf(t) <= CursorOf(t)'
           /\ DrainedOf(t) <= DrainedOf(t)'
           /\ GrantsInForce(t)' \subseteq GrantsInForce(t)
<1>1. PICK p \in Nat, d \in Int, m \in Nat, g \in Grant :
    /\ playback[s] <= p /\ drained[s] <= d /\ cursor[s] <= m
    /\ playback' = [playback EXCEPT ![s] = p]
    /\ drained' = [drained EXCEPT ![s] = d]
    /\ cursor' = [cursor EXCEPT ![s] = m]
    /\ limits' = [limits EXCEPT ![s] = g]
    /\ \/ UNCHANGED toWorker /\ g = limits[s]
       \/ /\ toWorker[s] # <<>>
          /\ toWorker' = [toWorker EXCEPT ![s] = Tail(@)]
          /\ \/ g = limits[s]
             \/ /\ Head(toWorker[s]).type = "GRANT"
                /\ Head(toWorker[s]).epoch = wEpoch[s]
                /\ g = Head(toWorker[s]).grant
    /\ UNCHANGED <<coordinator, wEpoch>>
  BY ZenonT(60) DEF Advances
<1>2. epoch' = epoch /\ cached' = cached /\ wEpoch' = wEpoch
  BY <1>1 DEF coordinator
<1>3. ASSUME NEW t \in Session
      PROVE  /\ PlayedOf(t) <= PlayedOf(t)' /\ CursorOf(t) <= CursorOf(t)'
             /\ DrainedOf(t) <= DrainedOf(t)'
  <2>1. Current(t)' <=> Current(t)
    BY <1>2 DEF Current
  <2>2. /\ playback[t] <= playback'[t] /\ cursor[t] <= cursor'[t]
        /\ drained[t] <= drained'[t]
    BY <1>1, SMTT(30) DEF TypeOK, WorkerTypeOK
  <2> QED
    BY <2>1, <2>2 DEF PlayedOf, CursorOf, DrainedOf
<1>4. ASSUME NEW t \in Session, NEW h \in GrantsInForce(t)'
      PROVE  h \in GrantsInForce(t)
  <2>1. CASE h = cached'[t]
    BY <2>1, <1>2 DEF GrantsInForce
  <2>2. CASE Current(t)' /\ h = limits'[t]
    <3>1. CASE limits'[t] = limits[t]
      BY <3>1, <2>2, <1>2 DEF GrantsInForce, Current
    <3>2. CASE limits'[t] # limits[t]
      <4>1. /\ t = s /\ toWorker[s] # <<>> /\ Head(toWorker[s]).type = "GRANT"
            /\ Head(toWorker[s]).epoch = wEpoch[s]
            /\ limits'[t] = Head(toWorker[s]).grant
        BY <1>1, <3>2 DEF TypeOK, WorkerTypeOK
      <4>2. Head(toWorker[s]) = toWorker[s][1] /\ 1 \in DOMAIN toWorker[s]
        BY <4>1, HeadIsMsg DEF TypeOK, PortsTypeOK
      <4>3. wEpoch[s] = epoch
        BY <2>2, <1>2, <4>1 DEF Current
      <4> QED
        BY <2>2, <4>1, <4>2, <4>3 DEF GrantsInForce
    <3> QED
      BY <3>1, <3>2
  <2>3. CASE \E i \in DOMAIN toWorker'[t] : /\ toWorker'[t][i].type = "GRANT"
                                           /\ toWorker'[t][i].epoch = epoch'
                                           /\ h = toWorker'[t][i].grant
    <3>1. PICK i \in DOMAIN toWorker'[t] : /\ toWorker'[t][i].type = "GRANT"
                                           /\ toWorker'[t][i].epoch = epoch'
                                           /\ h = toWorker'[t][i].grant
      BY <2>3
    <3>2. \E j \in DOMAIN toWorker[t] : toWorker[t][j] = toWorker'[t][i]
      <4>1. CASE toWorker'[t] = toWorker[t]
        BY <4>1
      <4>2. CASE toWorker[t] # <<>> /\ toWorker'[t] = Tail(toWorker[t])
        <5>1. i \in 1 .. Len(Tail(toWorker[t]))
          BY <4>2, HeadIsMsg
        <5>2. toWorker'[t][i] = toWorker[t][i + 1] /\ i + 1 \in DOMAIN toWorker[t]
          BY <4>2, <5>1, HeadIsMsg DEF TypeOK, PortsTypeOK
        <5> QED
          BY <5>2
      <4> QED
        BY <4>1, <4>2, <1>1 DEF TypeOK, PortsTypeOK
    <3> QED
      BY <3>1, <3>2, <1>2 DEF GrantsInForce
  <2> QED
    BY <2>1, <2>2, <2>3 DEF GrantsInForce
<1> QED
  BY <1>3, <1>4

\* The same step, session by session.
LEMMA AdvancesFacts ==
  ASSUME TypeOK, NEW s \in Session, Advances(s)
  PROVE  /\ UNCHANGED coordinator /\ UNCHANGED wEpoch
         /\ \A t \in Session \ {s} :
              /\ playback'[t] = playback[t] /\ drained'[t] = drained[t]
              /\ cursor'[t] = cursor[t] /\ limits'[t] = limits[t]
              /\ toWorker'[t] = toWorker[t] /\ toMain'[t] = toMain[t]
         /\ playback[s] <= playback'[s] /\ drained[s] <= drained'[s]
         /\ cursor[s] <= cursor'[s] /\ drained'[s] < cursor'[s]
         /\ playback'[s] > playback[s] => Within(playback'[s], limits'[s].playLimit)
         /\ \/ toWorker'[s] = toWorker[s] /\ limits'[s] = limits[s]
            \/ /\ toWorker[s] # <<>> /\ toWorker'[s] = Tail(toWorker[s])
               /\ \/ limits'[s] = limits[s]
                  \/ /\ Head(toWorker[s]).type = "GRANT"
                     /\ Head(toWorker[s]).epoch = wEpoch[s]
                     /\ limits'[s] = Head(toWorker[s]).grant
         /\ \/ toMain'[s] = toMain[s]
            \/ toMain'[s] =
                 Append(toMain[s],
                        AckMsg(wEpoch[s],
                               [round |-> limits'[s].round, playback |-> playback'[s],
                                cursor |-> cursor'[s], drained |-> drained'[s]]))
<1>1. PICK p \in Nat, d \in Int, m \in Nat, g \in Grant :
    /\ playback[s] <= p /\ drained[s] <= d /\ cursor[s] <= m /\ d < m
    /\ p > playback[s] => Within(p, g.playLimit)
    /\ playback' = [playback EXCEPT ![s] = p]
    /\ drained' = [drained EXCEPT ![s] = d]
    /\ cursor' = [cursor EXCEPT ![s] = m]
    /\ limits' = [limits EXCEPT ![s] = g]
    /\ \/ UNCHANGED toWorker /\ g = limits[s]
       \/ /\ toWorker[s] # <<>>
          /\ toWorker' = [toWorker EXCEPT ![s] = Tail(@)]
          /\ \/ g = limits[s]
             \/ /\ Head(toWorker[s]).type = "GRANT"
                /\ Head(toWorker[s]).epoch = wEpoch[s]
                /\ g = Head(toWorker[s]).grant
    /\ \/ UNCHANGED toMain
       \/ toMain' = [toMain EXCEPT ![s] =
            Append(@, AckMsg(wEpoch[s], [round |-> g.round, playback |-> p,
                                         cursor |-> m, drained |-> d]))]
    /\ UNCHANGED <<coordinator, wEpoch>>
    /\ ready' \in [Session -> BOOLEAN] /\ entries' \in [Session -> Seq(Entry)]
    /\ busy' \in [Session -> BOOLEAN] /\ executed' \in [Session -> Nat]
  BY ZenonT(60) DEF Advances
<1>2. playback'[s] = p /\ drained'[s] = d /\ cursor'[s] = m /\ limits'[s] = g
  BY <1>1 DEF TypeOK, WorkerTypeOK
<1>3. \A t \in Session \ {s} :
              /\ playback'[t] = playback[t] /\ drained'[t] = drained[t]
              /\ cursor'[t] = cursor[t] /\ limits'[t] = limits[t]
  BY <1>1 DEF TypeOK, WorkerTypeOK
<1>4. \A t \in Session \ {s} : toWorker'[t] = toWorker[t] /\ toMain'[t] = toMain[t]
  BY <1>1 DEF TypeOK, PortsTypeOK
<1>5. \/ UNCHANGED toWorker
      \/ toWorker[s] # <<>> /\ toWorker'[s] = Tail(toWorker[s])
  BY <1>1 DEF TypeOK, PortsTypeOK
<1>6. \/ toMain'[s] = toMain[s]
      \/ toMain'[s] =
           Append(toMain[s], AckMsg(wEpoch[s], [round |-> g.round, playback |-> p,
                                                cursor |-> m, drained |-> d]))
  BY <1>1 DEF TypeOK, PortsTypeOK
<1>7. \/ toWorker'[s] = toWorker[s] /\ limits'[s] = limits[s]
      \/ /\ toWorker[s] # <<>> /\ toWorker'[s] = Tail(toWorker[s])
         /\ \/ limits'[s] = limits[s]
            \/ /\ Head(toWorker[s]).type = "GRANT"
               /\ Head(toWorker[s]).epoch = wEpoch[s]
               /\ limits'[s] = Head(toWorker[s]).grant
  BY <1>1, <1>2, <1>5 DEF TypeOK, PortsTypeOK
<1> QED
  BY <1>1, <1>2, <1>3, <1>4, <1>6, <1>7

LEMMA AdvancesRounds ==
  ASSUME TypeOK, PortsInv, NEW s \in Session, Advances(s), NEW t \in Session
  PROVE  limits[t].round <= limits'[t].round
<1>1. limits[t] \in Grant /\ limits[t].round \in Int
  BY WorkerTypes DEF Grant
<1>2. CASE limits'[t] = limits[t]
  BY <1>1, <1>2
<1>3. CASE limits'[t] # limits[t]
  <2>1. /\ t = s /\ toWorker[s] # <<>> /\ Head(toWorker[s]).type = "GRANT"
        /\ Head(toWorker[s]).epoch = wEpoch[s]
        /\ limits'[s] = Head(toWorker[s]).grant
    BY <1>3, AdvancesFacts
  <2>2. Head(toWorker[s]) = toWorker[s][1] /\ 1 \in 1 .. Len(toWorker[s])
    BY <2>1, HeadIsMsg
  <2> QED
    BY <2>1, <2>2 DEF PortsInv, RoundsInOrder
<1> QED
  BY <1>2, <1>3

LEMMA AdvancesPorts ==
  ASSUME TypeOK, PortsInv, NEW s \in Session, Advances(s)
  PROVE  PortsInv'
<1>1. epoch' = epoch /\ round' = round /\ wEpoch' = wEpoch
  BY AdvancesFacts DEF coordinator
<1>2. ASSUME NEW t \in Session, toWorker'[t] = toWorker[t], limits'[t] = limits[t]
      PROVE  ResetsInOrder(t)' /\ RoundsInOrder(t)'
  BY <1>1, <1>2 DEF PortsInv, ResetsInOrder, RoundsInOrder, Current
<1>3. ASSUME toWorker[s] # <<>>, toWorker'[s] = Tail(toWorker[s]),
             \/ limits'[s] = limits[s]
             \/ /\ Head(toWorker[s]).type = "GRANT"
                /\ Head(toWorker[s]).epoch = wEpoch[s]
                /\ limits'[s] = Head(toWorker[s]).grant
      PROVE  ResetsInOrder(s)' /\ RoundsInOrder(s)'
  <2>1. /\ Head(toWorker[s]) = toWorker[s][1] /\ Len(toWorker[s]) \in Nat \ {0}
        /\ Len(toWorker'[s]) = Len(toWorker[s]) - 1
        /\ \A i \in 1 .. Len(toWorker'[s]) : toWorker'[s][i] = toWorker[s][i + 1]
    BY <1>3, HeadIsMsg
  <2>2. /\ Len(toWorker'[s]) \in Nat /\ 1 \in 1 .. Len(toWorker[s])
        /\ \A i \in 1 .. Len(toWorker'[s]) : i + 1 \in 1 .. Len(toWorker[s])
    BY <2>1
  <2>3. ResetsInOrder(s)'
    <3>1. \A i \in 1 .. Len(toWorker'[s]) : \A j \in 1 .. i - 1 :
            /\ j \in 1 .. Len(toWorker'[s])
            /\ j + 1 \in 1 .. (i + 1) - 1
      BY <2>2
    <3> QED
      BY <1>1, <2>1, <2>2, <3>1, ZenonT(60) DEF PortsInv, ResetsInOrder
  <2>4. Current(s)' => limits'[s].round <= round'
    BY <1>1, <1>3, <2>1, <2>2 DEF PortsInv, RoundsInOrder, Current
  <2>5. ASSUME NEW i \in 1 .. Len(toWorker'[s]), toWorker'[s][i].type = "GRANT"
        PROVE  /\ toWorker'[s][i].grant.round >= -1
               /\ toWorker'[s][i].epoch = epoch' => toWorker'[s][i].grant.round <= round'
               /\ toWorker'[s][i].epoch = wEpoch'[s] =>
                    limits'[s].round <= toWorker'[s][i].grant.round
               /\ \A j \in 1 .. i - 1 :
                    /\ toWorker'[s][j].type = "GRANT"
                    /\ toWorker'[s][j].epoch = toWorker'[s][i].epoch
                    => toWorker'[s][j].grant.round <= toWorker'[s][i].grant.round
    <3>1. toWorker'[s][i] = toWorker[s][i + 1] /\ i + 1 \in 1 .. Len(toWorker[s])
      BY <2>1, <2>2
    <3>2. 1 \in 1 .. (i + 1) - 1
      OBVIOUS
    <3>3. \A j \in 1 .. i - 1 : /\ toWorker'[s][j] = toWorker[s][j + 1]
                                /\ j + 1 \in 1 .. (i + 1) - 1
      BY <2>1, <2>2
    <3>4. RoundsInOrder(s) /\ toWorker[s][i + 1].type = "GRANT"
      BY <2>5, <3>1 DEF PortsInv
    <3>5. /\ toWorker[s][i + 1].grant.round >= -1
          /\ toWorker[s][i + 1].epoch = epoch => toWorker[s][i + 1].grant.round <= round
          /\ toWorker[s][i + 1].epoch = wEpoch[s] =>
               limits[s].round <= toWorker[s][i + 1].grant.round
          /\ \A j \in 1 .. (i + 1) - 1 :
               /\ toWorker[s][j].type = "GRANT"
               /\ toWorker[s][j].epoch = toWorker[s][i + 1].epoch
               => toWorker[s][j].grant.round <= toWorker[s][i + 1].grant.round
      BY <3>1, <3>4 DEF RoundsInOrder
    <3>6. ASSUME NEW j \in 1 .. i - 1, toWorker'[s][j].type = "GRANT",
                 toWorker'[s][j].epoch = toWorker'[s][i].epoch
          PROVE  toWorker'[s][j].grant.round <= toWorker'[s][i].grant.round
      BY <3>1, <3>3, <3>5, <3>6
    <3>7. toWorker'[s][i].epoch = wEpoch'[s] =>
            limits'[s].round <= toWorker'[s][i].grant.round
      <4>1. CASE limits'[s] = limits[s]
        BY <1>1, <3>1, <3>5, <4>1
      <4>2. CASE /\ Head(toWorker[s]).type = "GRANT"
                 /\ Head(toWorker[s]).epoch = wEpoch[s]
                 /\ limits'[s] = Head(toWorker[s]).grant
        BY <1>1, <2>1, <3>1, <3>2, <3>5, <4>2
      <4> QED
        BY <1>3, <4>1, <4>2
    <3> QED
      BY <1>1, <3>1, <3>5, <3>6, <3>7
  <2> QED
    BY <2>3, <2>4, <2>5 DEF RoundsInOrder
<1> QED
  BY ZenonT(60), <1>2, <1>3, AdvancesFacts DEF PortsInv

LEMMA AdvancesAcks ==
  ASSUME TypeOK, PortsInv, AcksArePast, NEW s \in Session, Advances(s)
  PROVE  AcksArePast'
<1> SUFFICES ASSUME NEW t \in Session, NEW i \in 1 .. Len(toMain'[t])
             PROVE  /\ toMain'[t][i].epoch <= wEpoch'[t]
                    /\ toMain'[t][i].epoch = wEpoch'[t] =>
                         /\ toMain'[t][i].ack.round <= limits'[t].round
                         /\ toMain'[t][i].ack.playback <= playback'[t]
                         /\ toMain'[t][i].ack.cursor <= cursor'[t]
                         /\ toMain'[t][i].ack.drained <= drained'[t]
  BY DEF AcksArePast
<1>1. wEpoch'[t] = wEpoch[t] /\ wEpoch[t] \in Nat
  BY AdvancesFacts DEF TypeOK, WorkerTypeOK
<1>2. TypeOK'
  BY AdvancesTypes
<1>3. /\ limits'[t].round \in Int /\ playback'[t] \in Nat
      /\ cursor'[t] \in Nat /\ drained'[t] \in Int
      /\ limits[t].round \in Int /\ playback[t] \in Nat
      /\ cursor[t] \in Nat /\ drained[t] \in Int
  BY <1>2 DEF TypeOK, WorkerTypeOK, Grant
<1>4. /\ limits[t].round <= limits'[t].round /\ playback[t] <= playback'[t]
      /\ cursor[t] <= cursor'[t] /\ drained[t] <= drained'[t]
  <2>1. CASE t = s
    BY <2>1, <1>3, AdvancesFacts, AdvancesRounds
  <2>2. CASE t # s
    <3>1. /\ limits'[t] = limits[t] /\ playback'[t] = playback[t]
          /\ cursor'[t] = cursor[t] /\ drained'[t] = drained[t]
      BY <2>2, AdvancesFacts
    <3> QED
      BY <3>1, <1>3
  <2> QED
    BY <2>1, <2>2
<1>5. toMain[t] \in Seq(ToMainMsg) /\ Len(toMain[t]) \in Nat
  BY DEF TypeOK, PortsTypeOK
<1>6. ASSUME i \in 1 .. Len(toMain[t]), toMain'[t][i] = toMain[t][i]
      PROVE  /\ toMain'[t][i].epoch <= wEpoch'[t]
             /\ toMain'[t][i].epoch = wEpoch'[t] =>
                  /\ toMain'[t][i].ack.round <= limits'[t].round
                  /\ toMain'[t][i].ack.playback <= playback'[t]
                  /\ toMain'[t][i].ack.cursor <= cursor'[t]
                  /\ toMain'[t][i].ack.drained <= drained'[t]
  <2>1. toMain[t][i] \in ToMainMsg
    BY <1>5, <1>6
  <2>2. /\ toMain[t][i].ack.round \in Int /\ toMain[t][i].ack.playback \in Nat
        /\ toMain[t][i].ack.cursor \in Nat /\ toMain[t][i].ack.drained \in Int
    BY <2>1 DEF ToMainMsg, Ack
  <2>3. /\ toMain[t][i].epoch <= wEpoch[t]
        /\ toMain[t][i].epoch = wEpoch[t] =>
                  /\ toMain[t][i].ack.round <= limits[t].round
                  /\ toMain[t][i].ack.playback <= playback[t]
                  /\ toMain[t][i].ack.cursor <= cursor[t]
                  /\ toMain[t][i].ack.drained <= drained[t]
    BY <1>6 DEF AcksArePast
  <2>4. toMain[t][i].epoch = wEpoch[t] =>
                  /\ toMain[t][i].ack.round <= limits'[t].round
                  /\ toMain[t][i].ack.playback <= playback'[t]
                  /\ toMain[t][i].ack.cursor <= cursor'[t]
                  /\ toMain[t][i].ack.drained <= drained'[t]
    <3> SUFFICES ASSUME toMain[t][i].epoch = wEpoch[t]
                 PROVE  /\ toMain[t][i].ack.round <= limits'[t].round
                        /\ toMain[t][i].ack.playback <= playback'[t]
                        /\ toMain[t][i].ack.cursor <= cursor'[t]
                        /\ toMain[t][i].ack.drained <= drained'[t]
      OBVIOUS
    <3>1. toMain[t][i].ack.round <= limits'[t].round
      <4>1. PICK a \in Int, b \in Int, c \in Int :
              /\ a = toMain[t][i].ack.round
              /\ b = limits[t].round
              /\ c = limits'[t].round
        BY <1>3, <2>2
      <4>2. a <= b
        BY <2>3, <4>1
      <4>3. b <= c
        BY <1>4, <4>1
      <4>4. a <= c
        BY <4>2, <4>3
      <4> QED
        BY <4>1, <4>4
    <3>2. toMain[t][i].ack.playback <= playback'[t]
      BY SMTT(30), <1>3, <1>4, <2>2, <2>3
    <3>3. toMain[t][i].ack.cursor <= cursor'[t]
      BY SMTT(30), <1>3, <1>4, <2>2, <2>3
    <3>4. toMain[t][i].ack.drained <= drained'[t]
      BY <1>3, <1>4, <2>2, <2>3
    <3> QED
      BY <3>1, <3>2, <3>3, <3>4
  <2> QED
    BY <1>1, <1>6, <2>3, <2>4
<1>7. CASE toMain'[t] = toMain[t]
  BY <1>6, <1>7
<1>8. CASE /\ t = s
           /\ toMain'[s] =
                 Append(toMain[s],
                        AckMsg(wEpoch[s],
                               [round |-> limits'[s].round, playback |-> playback'[s],
                                cursor |-> cursor'[s], drained |-> drained'[s]]))
  <2>1. CASE i <= Len(toMain[s])
    <3>1. i \in 1 .. Len(toMain[t]) /\ toMain'[t][i] = toMain[t][i]
      BY <1>5, <1>8, <2>1
    <3> QED
      BY <3>1, <1>6
  <2>2. CASE i = Len(toMain[s]) + 1
    <3>1. toMain'[t][i] =
            AckMsg(wEpoch[s],
                   [round |-> limits'[s].round, playback |-> playback'[s],
                    cursor |-> cursor'[s], drained |-> drained'[s]])
      BY <1>5, <1>8, <2>2
    <3> QED
      BY <3>1, <1>1, <1>3, <1>8, SMTT(30) DEF AckMsg
  <2>3. Len(toMain'[t]) = Len(toMain[s]) + 1
    BY <1>5, <1>8
  <2> QED
    BY <1>5, <1>8, <2>1, <2>2, <2>3
<1> QED
  BY <1>7, <1>8, AdvancesFacts

\* A worker step keeps the whole invariant.
LEMMA AdvancesKeepsIInv ==
  ASSUME IInv, NEW s \in Session, Advances(s)
  PROVE  IInv'
<1>1. TypeOK /\ PortsInv /\ AcksArePast /\ PaceJoin /\ RaceWatermark
  BY DEF IInv
<1>2. TypeOK' /\ PortsInv' /\ AcksArePast'
  BY <1>1, AdvancesTypes, AdvancesPorts, AdvancesAcks
<1>3. /\ epoch' = epoch /\ mode' = mode /\ round' = round /\ acked' = acked
      /\ lastComputedRound' = lastComputedRound /\ cached' = cached
      /\ sharedIndex' = sharedIndex /\ baseline' = baseline /\ wEpoch' = wEpoch
  BY <1>1, AdvancesFacts DEF coordinator
<1>4. AckedIsPast'
  <2> SUFFICES ASSUME NEW t \in Session
               PROVE  /\ acked'[t].round <= RoundOf(t)'
                      /\ acked'[t].playback <= PlayedOf(t)'
                      /\ acked'[t].cursor <= CursorOf(t)'
                      /\ acked'[t].drained <= DrainedOf(t)'
    BY DEF AckedIsPast
  <2>1. PICK r \in Int, p \in Nat, c \in Nat, d \in Int :
          /\ r = acked[t].round /\ p = acked[t].playback
          /\ c = acked[t].cursor /\ d = acked[t].drained
    BY <1>1 DEF TypeOK, CoordinatorTypeOK, Ack
  <2>2. r <= RoundOf(t) /\ p <= PlayedOf(t) /\ c <= CursorOf(t) /\ d <= DrainedOf(t)
    BY <2>1 DEF IInv, AckedIsPast
  <2>3. /\ PlayedOf(t) <= PlayedOf(t)' /\ CursorOf(t) <= CursorOf(t)'
        /\ DrainedOf(t) <= DrainedOf(t)'
    BY <1>1, AdvancesMonotone
  <2>4. RoundOf(t) <= RoundOf(t)'
    <3>1. limits[t].round <= limits'[t].round
      BY <1>1, AdvancesRounds
    <3>2. Current(t)' <=> Current(t)
      BY <1>3 DEF Current
    <3> QED
      BY <3>1, <3>2 DEF RoundOf
  <2>5. /\ RoundOf(t) \in Int /\ PlayedOf(t) \in Nat /\ CursorOf(t) \in Nat
        /\ DrainedOf(t) \in Int
    BY <1>1, ProgressTypes
  <2>6. /\ RoundOf(t)' \in Int /\ PlayedOf(t)' \in Nat /\ CursorOf(t)' \in Nat
        /\ DrainedOf(t)' \in Int
    <3>1. WorkerTypeOK'
      BY <1>2 DEF TypeOK
    <3> QED
      BY <3>1 DEF WorkerTypeOK, Grant, RoundOf, PlayedOf, CursorOf, DrainedOf
  <2>7. /\ r <= RoundOf(t)' /\ p <= PlayedOf(t)' /\ c <= CursorOf(t)'
        /\ d <= DrainedOf(t)'
    <3>1. r <= RoundOf(t)'
      BY <2>2, <2>4, <2>5, <2>6
    <3>2. p <= PlayedOf(t)'
      BY <2>2, <2>3, <2>5, <2>6
    <3>3. c <= CursorOf(t)'
      BY <2>2, <2>3, <2>5, <2>6
    <3>4. d <= DrainedOf(t)'
      BY <2>2, <2>3, <2>5, <2>6
    <3> QED
      BY <3>1, <3>2, <3>3, <3>4
  <2> QED
    BY <1>3, <2>1, <2>7
<1>5. WorkerInv'
  <2> SUFFICES ASSUME NEW t \in Session
               PROVE  drained'[t] < cursor'[t] /\ -1 <= drained'[t]
    BY DEF WorkerInv
  <2>1. CASE t = s
    <3>1. /\ drained[s] \in Int /\ -1 <= drained[s] /\ drained[s] <= drained'[s]
          /\ drained'[s] < cursor'[s] /\ drained'[s] \in Int
      BY <1>1, <1>2, AdvancesFacts DEF IInv, WorkerInv, TypeOK, WorkerTypeOK
    <3> QED
      BY <2>1, <3>1
  <2>2. CASE t # s
    <3>1. drained'[t] = drained[t] /\ cursor'[t] = cursor[t]
      BY <1>1, <2>2, AdvancesFacts
    <3> QED
      BY <3>1 DEF IInv, WorkerInv
  <2> QED
    BY <2>1, <2>2
<1>6. RoundInv'
  BY <1>3 DEF IInv, RoundInv
<1>7. SharedIndexReached'
  <2> SUFFICES ASSUME mode = "pace", NEW t \in Session
               PROVE  sharedIndex <= CursorOf(t)'
    BY <1>3 DEF SharedIndexReached
  <2>1. sharedIndex <= CursorOf(t) /\ CursorOf(t) <= CursorOf(t)'
    BY <1>1, AdvancesMonotone DEF IInv, SharedIndexReached
  <2>2. sharedIndex \in Nat /\ CursorOf(t) \in Nat
    BY <1>1, ProgressTypes DEF TypeOK, CoordinatorTypeOK
  <2>3. CursorOf(t)' \in Nat
    BY <1>2 DEF TypeOK, WorkerTypeOK, CursorOf
  <2> QED
    BY <2>1, <2>2, <2>3
<1>8. CommonOrigin'
  BY <1>3 DEF IInv, CommonOrigin
<1>9. PaceJoin' /\ RaceWatermark'
  <2>1. \A t \in Session : /\ CursorOf(t) <= CursorOf(t)'
                           /\ PlayedOf(t) <= PlayedOf(t)'
                           /\ GrantsInForce(t)' \subseteq GrantsInForce(t)
    BY <1>1, AdvancesMonotone
  <2> QED
    BY <1>1, <1>2, <2>1, GrantsStayInBounds
<1> QED
  BY <1>2, <1>4, <1>5, <1>6, <1>7, <1>8, <1>9 DEF IInv

-----------------------------------------------------------------------------
(* What the user does and what the proxies do *)

\* The invariant survives a step that leaves the ports, the workers and what was
\* acknowledged alone and derives no grant.
LEMMA BookkeepingKeepsIInv ==
  ASSUME IInv, CoordinatorTypeOK', SharedIndexReached', CommonOrigin',
         lastComputedRound' # round \/ lastComputedRound' = lastComputedRound,
         UNCHANGED <<epoch, round, cached, acked, toWorker, toMain, worker>>
  PROVE  IInv'
<1>1. /\ epoch' = epoch /\ round' = round /\ cached' = cached /\ acked' = acked
      /\ toWorker' = toWorker /\ toMain' = toMain /\ wEpoch' = wEpoch
      /\ ready' = ready /\ entries' = entries /\ cursor' = cursor
      /\ busy' = busy /\ executed' = executed /\ playback' = playback
      /\ drained' = drained /\ limits' = limits
  BY DEF worker
<1>2. TypeOK'
  BY <1>1 DEF IInv, TypeOK, PortsTypeOK, WorkerTypeOK
<1>3. PortsInv'
  BY <1>1 DEF IInv, PortsInv, ResetsInOrder, RoundsInOrder, Current
<1>4. AcksArePast' /\ WorkerInv'
  BY <1>1 DEF IInv, AcksArePast, WorkerInv
<1>5. \A t \in Session :
        /\ PlayedOf(t)' = PlayedOf(t) /\ CursorOf(t)' = CursorOf(t)
        /\ DrainedOf(t)' = DrainedOf(t) /\ RoundOf(t)' = RoundOf(t)
        /\ GrantsInForce(t)' = GrantsInForce(t)
  BY <1>1 DEF PlayedOf, CursorOf, DrainedOf, RoundOf, GrantsInForce, Current
<1>6. AckedIsPast'
  BY <1>1, <1>5 DEF IInv, AckedIsPast
<1>7. RoundInv'
  BY <1>1 DEF IInv, RoundInv
<1>8. PaceJoin' /\ RaceWatermark'
  BY <1>5 DEF IInv, PaceJoin, RaceWatermark
<1> QED
  BY <1>2, <1>3, <1>4, <1>6, <1>7, <1>8 DEF IInv

LEMMA SetModeKeepsIInv ==
  ASSUME IInv, NEW m \in Modes, SetMode(m)
  PROVE  IInv'
<1>1. /\ mode' = m /\ lastComputedRound' = -1
      /\ UNCHANGED <<epoch, running, scale, sequence, round, cached, shipped, acked,
                     toWorker, toMain, worker>>
  BY DEF SetMode
<1>2. CoordinatorTypeOK /\ m \in {"pace", "race"}
  BY ConstantsAssumption DEF IInv, TypeOK
<1>3. \A s \in Session : acked[s].playback \in Nat /\ acked[s].cursor \in Nat
  BY <1>2 DEF CoordinatorTypeOK, Ack
<1>4. /\ sharedIndex' \in Nat /\ baseline' \in [Session -> Nat]
      /\ SharedIndexReached' /\ CommonOrigin'
  <2>1. CASE m = "race"
    <3>1. PICK low \in {acked[s].playback : s \in Session} :
             /\ \A s \in Session : low <= acked[s].playback
             /\ baseline' = [s \in Session |-> low]
      BY <2>1 DEF SetMode
    <3>2. sharedIndex' = sharedIndex
      BY <2>1 DEF SetMode
    <3> QED
      BY <1>1, <1>2, <1>3, <2>1, <3>1, <3>2
      DEF CoordinatorTypeOK, SharedIndexReached, CommonOrigin
  <2>2. CASE m = "pace"
    <3>1. PICK low \in {acked[s].cursor : s \in Session} :
             /\ \A s \in Session : low <= acked[s].cursor
             /\ sharedIndex' = low
      BY <2>2 DEF SetMode
    <3>2. baseline' = [s \in Session |-> acked[s].playback]
      BY <2>2 DEF SetMode
    <3>3. ASSUME NEW s \in Session
          PROVE  low <= CursorOf(s)'
      <4>1. CursorOf(s)' = CursorOf(s)
        BY <1>1 DEF CursorOf, Current, worker
      <4>2. low <= acked[s].cursor /\ acked[s].cursor <= CursorOf(s)
        BY <3>1 DEF IInv, AckedIsPast
      <4>3. low \in Nat /\ acked[s].cursor \in Nat /\ CursorOf(s) \in Nat
        BY <1>3, <3>1, ProgressTypes DEF IInv
      <4> QED
        BY <4>1, <4>2, <4>3
    <3> QED
      BY <1>1, <1>3, <2>2, <3>1, <3>2, <3>3 DEF SharedIndexReached, CommonOrigin
  <2> QED
    BY <1>2, <2>1, <2>2
<1>5. CoordinatorTypeOK'
  BY <1>1, <1>2, <1>4 DEF CoordinatorTypeOK
<1>6. lastComputedRound' # round
  BY <1>1, <1>2 DEF CoordinatorTypeOK
<1> QED
  BY <1>1, <1>4, <1>5, <1>6, BookkeepingKeepsIInv

LEMMA SettingKeepsIInv ==
  ASSUME IInv, (\E v \in Scales : SetSpeed(v)) \/ Start \/ Stop
  PROVE  IInv'
<1>1. CoordinatorTypeOK
  BY DEF IInv, TypeOK
<1>2. /\ lastComputedRound' \in {-1, lastComputedRound}
      /\ scale' \in Nat /\ running' \in BOOLEAN
      /\ UNCHANGED <<epoch, mode, sequence, round, sharedIndex, baseline, cached,
                     shipped, acked, toWorker, toMain, worker>>
  BY <1>1, ConstantsAssumption DEF SetSpeed, Start, Stop, CoordinatorTypeOK
<1>3. CoordinatorTypeOK'
  BY <1>1, <1>2 DEF CoordinatorTypeOK
<1>4. lastComputedRound' # round \/ lastComputedRound' = lastComputedRound
  BY <1>1, <1>2 DEF CoordinatorTypeOK
<1>5. SharedIndexReached' /\ CommonOrigin'
  BY <1>2 DEF IInv, SharedIndexReached, CommonOrigin, CursorOf, Current, worker
<1> QED
  BY <1>2, <1>3, <1>4, <1>5, BookkeepingKeepsIInv

LEMMA BroadcastKeepsIInv ==
  ASSUME IInv, Broadcast
  PROVE  IInv'
<1>1. PICK cost \in Costs :
        sequence' = Append(sequence, NewEntry(sequence, "command", cost))
  BY DEF Broadcast
<1>2. /\ shipped' = [s \in Session |-> Len(sequence')]
      /\ toWorker' = [s \in Session |->
                        toWorker[s] \o Shipment(sequence', shipped[s])]
      /\ UNCHANGED <<epoch, mode, running, scale, round, lastComputedRound,
                     sharedIndex, baseline, cached, acked, toMain, worker>>
  BY DEF Broadcast
<1>3. TypeOK /\ CoordinatorTypeOK /\ PortsTypeOK /\ WorkerTypeOK
  BY DEF IInv, TypeOK
<1>4. sequence' \in Seq(Entry) /\ Len(sequence') \in Nat
  <2>1. sequence \in Seq(Entry)
    BY <1>3 DEF CoordinatorTypeOK
  <2>2. PICK s \in Session : TRUE
    BY ConstantsAssumption
  <2>3. NewEntry(sequence, "command", cost) \in Entry
    BY <2>1, <2>2, EntryTypes
  <2> QED
    BY <1>1, <2>1, <2>3
<1>5. ASSUME NEW s \in Session
      PROVE  /\ toWorker'[s] \in Seq(ToWorkerMsg)
             /\ Len(toWorker[s]) \in Nat /\ Len(toWorker'[s]) \in Nat
             /\ Len(toWorker[s]) <= Len(toWorker'[s])
             /\ \A i \in 1 .. Len(toWorker[s]) : toWorker'[s][i] = toWorker[s][i]
             /\ \A i \in Len(toWorker[s]) + 1 .. Len(toWorker'[s]) :
                  toWorker'[s][i].epoch = epoch /\ toWorker'[s][i].type = "ENTRIES"
  <2> DEFINE x == Shipment(sequence', shipped[s])
             n == Len(toWorker[s])
  <2>1. shipped[s] \in Nat /\ toWorker[s] \in Seq(ToWorkerMsg) /\ n \in Nat
    BY <1>3 DEF CoordinatorTypeOK, PortsTypeOK
  <2>2. /\ x \in Seq(ToWorkerMsg) /\ Len(x) \in Nat
        /\ \A i \in 1 .. Len(x) : x[i].type = "ENTRIES" /\ x[i].epoch = epoch
    <3>1. PICK from \in Nat : from = shipped[s]
      BY <2>1
    <3>2. PICK es \in Seq(Entry) : es = sequence'
      BY <1>4
    <3> QED
      BY <1>3, <3>1, <3>2, ShipmentTypes
  <2>3. toWorker'[s] = toWorker[s] \o x
    BY <1>2
  <2> HIDE DEF x
  <2>4. /\ toWorker[s] \o x \in Seq(ToWorkerMsg)
        /\ Len(toWorker[s] \o x) = n + Len(x)
        /\ \A i \in 1 .. n + Len(x) :
             (toWorker[s] \o x)[i] = IF i <= n THEN toWorker[s][i] ELSE x[i - n]
    BY <2>1, <2>2, ConcatProperties
  <2>5. ASSUME NEW i \in n + 1 .. n + Len(x)
        PROVE  i - n \in 1 .. Len(x) /\ (toWorker[s] \o x)[i] = x[i - n]
    BY <2>1, <2>2, <2>4
  <2> QED
    BY <2>1, <2>2, <2>3, <2>4, <2>5
<1>6. TypeOK'
  BY <1>2, <1>3, <1>4, <1>5
  DEF TypeOK, CoordinatorTypeOK, PortsTypeOK, WorkerTypeOK, worker
<1>7. /\ epoch' = epoch /\ round' = round /\ cached' = cached /\ acked' = acked
      /\ lastComputedRound' = lastComputedRound
      /\ mode' = mode /\ sharedIndex' = sharedIndex /\ baseline' = baseline
      /\ toMain' = toMain /\ wEpoch' = wEpoch /\ cursor' = cursor
      /\ playback' = playback /\ drained' = drained /\ limits' = limits
  BY <1>2 DEF worker
<1>8. PortsInv'
  <2> SUFFICES ASSUME NEW s \in Session
               PROVE  ResetsInOrder(s)' /\ RoundsInOrder(s)'
    BY DEF PortsInv
  <2>1. ASSUME NEW i \in 1 .. Len(toWorker'[s]), toWorker'[s][i].type # "ENTRIES"
        PROVE  /\ i \in 1 .. Len(toWorker[s])
               /\ \A j \in 1 .. i : toWorker'[s][j] = toWorker[s][j]
    BY <1>5, <2>1
  <2>2. \A i \in 1 .. Len(toWorker'[s]) : toWorker'[s][i].epoch <= epoch
    <3>1. epoch \in Nat
      BY <1>3 DEF CoordinatorTypeOK
    <3> QED
      BY <1>5, <3>1 DEF IInv, PortsInv, ResetsInOrder
  <2>3. ResetsInOrder(s)'
    BY <1>7, <2>1, <2>2, SMTT(30) DEF IInv, PortsInv, ResetsInOrder
  <2>4. RoundsInOrder(s)'
    <3>1. Current(s)' => limits'[s].round <= round'
      BY <1>7 DEF IInv, PortsInv, RoundsInOrder, Current
    <3>2. ASSUME NEW i \in 1 .. Len(toWorker'[s]), toWorker'[s][i].type = "GRANT"
          PROVE  /\ toWorker'[s][i].grant.round >= -1
                 /\ toWorker'[s][i].epoch = epoch' => toWorker'[s][i].grant.round <= round'
                 /\ toWorker'[s][i].epoch = wEpoch'[s] =>
                      limits'[s].round <= toWorker'[s][i].grant.round
                 /\ \A j \in 1 .. i - 1 :
                      /\ toWorker'[s][j].type = "GRANT"
                      /\ toWorker'[s][j].epoch = toWorker'[s][i].epoch
                      => toWorker'[s][j].grant.round <= toWorker'[s][i].grant.round
      <4>1. i \in 1 .. Len(toWorker[s]) /\ \A j \in 1 .. i : toWorker'[s][j] = toWorker[s][j]
        BY <2>1, <3>2
      <4>2. toWorker'[s][i] = toWorker[s][i] /\ \A j \in 1 .. i - 1 : toWorker'[s][j] = toWorker[s][j]
        BY <4>1
      <4> QED
        BY <1>7, <3>2, <4>1, <4>2 DEF IInv, PortsInv, RoundsInOrder
    <3> QED
      BY <3>1, <3>2 DEF RoundsInOrder
  <2> QED
    BY <2>3, <2>4
<1>9. AcksArePast' /\ WorkerInv' /\ RoundInv' /\ CommonOrigin'
  BY <1>7 DEF IInv, AcksArePast, WorkerInv, RoundInv, CommonOrigin
<1>10. \A t \in Session :
        /\ PlayedOf(t)' = PlayedOf(t) /\ CursorOf(t)' = CursorOf(t)
        /\ DrainedOf(t)' = DrainedOf(t) /\ RoundOf(t)' = RoundOf(t)
  BY <1>7 DEF PlayedOf, CursorOf, DrainedOf, RoundOf, Current
<1>11. AckedIsPast' /\ SharedIndexReached'
  BY <1>7, <1>10 DEF IInv, AckedIsPast, SharedIndexReached
<1>12. PaceJoin' /\ RaceWatermark'
  <2>1. \A t \in Session : CursorOf(t) <= CursorOf(t)' /\ PlayedOf(t) <= PlayedOf(t)'
    BY <1>3, <1>10, ProgressTypes
  <2>2. ASSUME NEW t \in Session, NEW g \in GrantsInForce(t)'
        PROVE  g \in GrantsInForce(t)
    <3>1. CASE \E i \in DOMAIN toWorker'[t] : /\ toWorker'[t][i].type = "GRANT"
                                             /\ toWorker'[t][i].epoch = epoch
                                             /\ g = toWorker'[t][i].grant
      <4>1. PICK i \in DOMAIN toWorker'[t] : /\ toWorker'[t][i].type = "GRANT"
                                             /\ toWorker'[t][i].epoch = epoch
                                             /\ g = toWorker'[t][i].grant
        BY <3>1
      <4>2. i \in 1 .. Len(toWorker'[t])
        BY <1>5, <4>1
      <4>3. i \in 1 .. Len(toWorker[t]) /\ toWorker'[t][i] = toWorker[t][i]
        BY <1>5, <4>1, <4>2
      <4>4. i \in DOMAIN toWorker[t]
        BY <1>3, <4>3 DEF PortsTypeOK
      <4> QED
        BY <4>1, <4>3, <4>4 DEF GrantsInForce
    <3>2. CASE g = cached[t] \/ (Current(t) /\ g = limits[t])
      BY <3>2 DEF GrantsInForce
    <3> QED
      BY <1>7, <3>1, <3>2 DEF GrantsInForce, Current
  <2> QED
    BY <1>3, <1>6, <2>1, <2>2, GrantsStayInBounds DEF IInv
<1> QED
  BY <1>6, <1>8, <1>9, <1>11, <1>12 DEF IInv

\* A reset leaves nothing to be ahead of: no worker is in the new epoch yet and
\* nothing on the ports but the RESETs belongs to it.
LEMMA ResetKeepsIInv ==
  ASSUME IInv, Reset
  PROVE  IInv'
<1>1. /\ epoch' = epoch + 1 /\ round' = 0 /\ lastComputedRound' = -1
      /\ sharedIndex' = 0 /\ sequence' = <<>>
      /\ baseline' = [s \in Session |-> 0] /\ shipped' = [s \in Session |-> 0]
      /\ cached' = [s \in Session |-> NoGrant]
      /\ acked' = [s \in Session |-> NothingAcked]
      /\ toWorker' = [s \in Session |-> Append(toWorker[s], ResetMsg(epoch'))]
      /\ mode' = mode /\ running' = running /\ scale' = scale /\ toMain' = toMain
      /\ UNCHANGED worker
  BY DEF Reset
<1>2. /\ wEpoch' = wEpoch /\ ready' = ready /\ entries' = entries
      /\ cursor' = cursor /\ busy' = busy /\ executed' = executed
      /\ playback' = playback /\ drained' = drained /\ limits' = limits
  BY <1>1 DEF worker
<1>3. TypeOK /\ CoordinatorTypeOK /\ PortsTypeOK /\ WorkerTypeOK
  BY DEF IInv, TypeOK
<1>4. PICK e \in Nat : e = epoch' /\ e = epoch + 1 /\ epoch \in Nat
  BY <1>1, <1>3 DEF CoordinatorTypeOK
<1> DEFINE m == ResetMsg(e)
<1>5. m \in ToWorkerMsg /\ m.type = "RESET" /\ m.epoch = e
  BY DEF ResetMsg, ToWorkerMsg
<1>6. ASSUME NEW s \in Session
      PROVE  /\ toWorker'[s] = Append(toWorker[s], m)
             /\ toWorker'[s] \in Seq(ToWorkerMsg)
             /\ Len(toWorker[s]) \in Nat /\ Len(toWorker'[s]) = Len(toWorker[s]) + 1
             /\ \A i \in 1 .. Len(toWorker[s]) : toWorker'[s][i] = toWorker[s][i]
             /\ toWorker'[s][Len(toWorker[s]) + 1] = m
  <2>1. toWorker[s] \in Seq(ToWorkerMsg)
    BY <1>3 DEF PortsTypeOK
  <2>2. toWorker'[s] = Append(toWorker[s], m)
    BY <1>1, <1>4
  <2> HIDE DEF m
  <2> QED
    BY <1>5, <2>1, <2>2
<1> HIDE DEF m
<1>7. TypeOK'
  <2>1. NoGrant \in Grant /\ NothingAcked \in Ack
    BY DEF NoGrant, Grant, NothingAcked, Ack
  <2>2. CoordinatorTypeOK'
    BY <1>1, <1>3, <1>4, <2>1 DEF CoordinatorTypeOK
  <2>3. toWorker' \in [Session -> Seq(ToWorkerMsg)]
    BY <1>1, <1>6
  <2>4. PortsTypeOK'
    BY <1>1, <1>3, <2>3 DEF PortsTypeOK
  <2>5. WorkerTypeOK'
    BY <1>2, <1>3 DEF WorkerTypeOK
  <2> QED
    BY <2>2, <2>4, <2>5 DEF TypeOK
<1>8. ASSUME NEW s \in Session
      PROVE  /\ wEpoch[s] \in Nat /\ wEpoch[s] <= epoch /\ wEpoch[s] < e
             /\ \A i \in 1 .. Len(toWorker[s]) :
                  toWorker[s][i].epoch \in Nat /\ toWorker[s][i].epoch < e
  <2>1. wEpoch[s] \in Nat /\ wEpoch[s] <= epoch
    BY <1>3 DEF WorkerTypeOK, IInv, PortsInv, ResetsInOrder
  <2>2. ASSUME NEW i \in 1 .. Len(toWorker[s])
        PROVE  toWorker[s][i].epoch \in Nat /\ toWorker[s][i].epoch <= epoch
    <3>1. toWorker[s][i] \in ToWorkerMsg
      BY <1>3 DEF PortsTypeOK
    <3> QED
      BY <3>1 DEF ToWorkerMsg, IInv, PortsInv, ResetsInOrder
  <2> QED
    BY <1>4, <2>1, <2>2
<1>9. \A s \in Session : ~Current(s)'
  BY <1>2, <1>4, <1>8 DEF Current
<1>10. ASSUME NEW s \in Session
       PROVE  ResetsInOrder(s)' /\ RoundsInOrder(s)'
  <2>1. wEpoch'[s] <= epoch'
    BY <1>2, <1>4, <1>8
  <2>2. ASSUME NEW i \in 1 .. Len(toWorker[s])
        PROVE  /\ toWorker'[s][i].epoch <= epoch'
               /\ toWorker'[s][i].epoch # epoch'
               /\ \A j \in 1 .. i - 1 : toWorker'[s][j] = toWorker[s][j]
    BY <1>4, <1>6, <1>8
  <2>3. ASSUME NEW i \in 1 .. Len(toWorker'[s]), i \notin 1 .. Len(toWorker[s])
        PROVE  /\ toWorker'[s][i].epoch = epoch' /\ toWorker'[s][i].type = "RESET"
               /\ \A j \in 1 .. i - 1 : toWorker'[s][j].epoch < epoch'
    <3>1. i = Len(toWorker[s]) + 1
      BY <1>6, <2>3
    <3> QED
      BY <1>4, <1>5, <1>6, <1>8, <3>1
  <2>4. ResetsInOrder(s)'
    <3> SUFFICES ASSUME NEW i \in 1 .. Len(toWorker'[s])
                 PROVE  /\ toWorker'[s][i].epoch <= epoch'
                        /\ toWorker'[s][i].type = "RESET" =>
                             /\ wEpoch'[s] < toWorker'[s][i].epoch
                             /\ \A j \in 1 .. i - 1 :
                                  toWorker'[s][j].type = "RESET" =>
                                    toWorker'[s][j].epoch < toWorker'[s][i].epoch
      BY <2>1 DEF ResetsInOrder
    <3>1. CASE i \in 1 .. Len(toWorker[s])
      BY <1>2, <1>6, <2>2, <3>1 DEF IInv, PortsInv, ResetsInOrder
    <3>2. CASE i \notin 1 .. Len(toWorker[s])
      BY <1>2, <1>4, <1>8, <2>3, <3>2
    <3> QED
      BY <3>1, <3>2
  <2>5. ASSUME NEW i \in 1 .. Len(toWorker'[s]), toWorker'[s][i].type = "GRANT"
        PROVE  /\ toWorker'[s][i].grant.round >= -1
               /\ toWorker'[s][i].epoch = epoch' => toWorker'[s][i].grant.round <= round'
               /\ toWorker'[s][i].epoch = wEpoch'[s] =>
                    limits'[s].round <= toWorker'[s][i].grant.round
               /\ \A j \in 1 .. i - 1 :
                    /\ toWorker'[s][j].type = "GRANT"
                    /\ toWorker'[s][j].epoch = toWorker'[s][i].epoch
                    => toWorker'[s][j].grant.round <= toWorker'[s][i].grant.round
    <3>1. i \in 1 .. Len(toWorker[s])
      BY <2>3, <2>5
    <3>2. toWorker'[s][i] = toWorker[s][i]
          /\ \A j \in 1 .. i - 1 : toWorker'[s][j] = toWorker[s][j]
      BY <1>6, <2>2, <3>1
    <3> QED
      BY <1>2, <2>2, <2>5, <3>1, <3>2 DEF IInv, PortsInv, RoundsInOrder
  <2> QED
    BY <1>9, <2>4, <2>5 DEF RoundsInOrder
<1>11. PortsInv' /\ AcksArePast' /\ WorkerInv'
  BY <1>1, <1>2, <1>10 DEF IInv, PortsInv, AcksArePast, WorkerInv
<1>12. AckedIsPast' /\ RoundInv' /\ SharedIndexReached' /\ CommonOrigin'
  BY <1>1, <1>9
  DEF AckedIsPast, RoundInv, SharedIndexReached, CommonOrigin, NothingAcked,
      RoundOf, PlayedOf, CursorOf, DrainedOf
<1>13. ASSUME NEW s \in Session, NEW g \in GrantsInForce(s)'
       PROVE  g.rule = "none"
  <2>1. ASSUME NEW i \in DOMAIN toWorker'[s], toWorker'[s][i].type = "GRANT"
        PROVE  toWorker'[s][i].epoch # epoch'
    <3>1. i \in 1 .. Len(toWorker'[s])
      BY <1>6
    <3>2. i \in 1 .. Len(toWorker[s])
      BY <1>5, <1>6, <2>1, <3>1
    <3> QED
      BY <1>4, <1>6, <1>8, <3>2
  <2>2. g = NoGrant
    BY <1>1, <1>9, <1>13, <2>1 DEF GrantsInForce
  <2> QED
    BY <2>2 DEF NoGrant
<1>14. PaceJoin' /\ RaceWatermark'
  BY <1>13 DEF PaceJoin, RaceWatermark
<1> QED
  BY <1>7, <1>11, <1>12, <1>14 DEF IInv

\* Another epoch's ack is dropped; this epoch's ack is a past state of its session.
LEMMA ReceiveAckKeepsIInv ==
  ASSUME IInv, NEW s \in Session, ReceiveAck(s)
  PROVE  IInv'
<1> DEFINE m == Head(toMain[s])
           a == [round    |-> Larger(acked[s].round, m.ack.round),
                 playback |-> Larger(acked[s].playback, m.ack.playback),
                 cursor   |-> Larger(acked[s].cursor, m.ack.cursor),
                 drained  |-> Larger(acked[s].drained, m.ack.drained)]
<1>1. /\ toMain[s] # <<>>
      /\ acked' = IF OfThisEpoch(m) THEN [acked EXCEPT ![s] = a] ELSE acked
      /\ toMain' = [toMain EXCEPT ![s] = Tail(@)]
      /\ UNCHANGED <<epoch, mode, running, scale, sequence, round,
                     lastComputedRound, sharedIndex, baseline, cached, shipped,
                     toWorker, worker>>
  BY DEF ReceiveAck
<1>2. /\ wEpoch' = wEpoch /\ ready' = ready /\ entries' = entries
      /\ cursor' = cursor /\ busy' = busy /\ executed' = executed
      /\ playback' = playback /\ drained' = drained /\ limits' = limits
      /\ epoch' = epoch /\ mode' = mode /\ running' = running /\ scale' = scale
      /\ sequence' = sequence /\ round' = round
      /\ lastComputedRound' = lastComputedRound /\ sharedIndex' = sharedIndex
      /\ baseline' = baseline /\ cached' = cached /\ shipped' = shipped
      /\ toWorker' = toWorker
  BY <1>1 DEF worker
<1>3. TypeOK /\ CoordinatorTypeOK /\ PortsTypeOK /\ WorkerTypeOK
  BY DEF IInv, TypeOK
<1>4. /\ m \in ToMainMsg /\ m = toMain[s][1] /\ 1 \in 1 .. Len(toMain[s])
      /\ Tail(toMain[s]) \in Seq(ToMainMsg)
      /\ Len(Tail(toMain[s])) = Len(toMain[s]) - 1 /\ Len(toMain[s]) \in Nat
      /\ \A i \in 1 .. Len(Tail(toMain[s])) : Tail(toMain[s])[i] = toMain[s][i + 1]
  <2>1. toMain[s] \in Seq(ToMainMsg)
    BY <1>3 DEF PortsTypeOK
  <2>2. Len(toMain[s]) \in Nat \ {0}
    BY <1>1, <2>1, EmptySeq
  <2> QED
    BY <1>1, <2>1, <2>2, HeadTailProperties
<1>5. \A t \in Session :
        /\ PlayedOf(t)' = PlayedOf(t) /\ CursorOf(t)' = CursorOf(t)
        /\ DrainedOf(t)' = DrainedOf(t) /\ RoundOf(t)' = RoundOf(t)
        /\ GrantsInForce(t)' = GrantsInForce(t)
  BY <1>2 DEF PlayedOf, CursorOf, DrainedOf, RoundOf, GrantsInForce, Current
<1>6. /\ m.ack \in Ack /\ m.ack.round \in Int /\ m.ack.playback \in Nat
      /\ m.ack.cursor \in Nat /\ m.ack.drained \in Int
  BY <1>4 DEF ToMainMsg, Ack
<1>7. /\ acked[s].round \in Int /\ acked[s].playback \in Nat
      /\ acked[s].cursor \in Nat /\ acked[s].drained \in Int
  BY <1>3 DEF CoordinatorTypeOK, Ack
<1>8. OfThisEpoch(m) =>
        /\ m.ack.round <= RoundOf(s) /\ m.ack.playback <= PlayedOf(s)
        /\ m.ack.cursor <= CursorOf(s) /\ m.ack.drained <= DrainedOf(s)
  <2> SUFFICES ASSUME m.epoch = epoch
               PROVE  /\ m.ack.round <= RoundOf(s) /\ m.ack.playback <= PlayedOf(s)
                      /\ m.ack.cursor <= CursorOf(s) /\ m.ack.drained <= DrainedOf(s)
    BY DEF OfThisEpoch
  <2>1. m.epoch <= wEpoch[s] /\ wEpoch[s] <= epoch
    BY <1>4 DEF IInv, AcksArePast, PortsInv, ResetsInOrder
  <2>2. Current(s)
    BY <1>3, <2>1 DEF Current, CoordinatorTypeOK, WorkerTypeOK
  <2> HIDE DEF m
  <2>3. m.epoch = wEpoch[s]
    BY <2>2 DEF Current
  <2>4. /\ m.ack.round <= limits[s].round /\ m.ack.playback <= playback[s]
        /\ m.ack.cursor <= cursor[s] /\ m.ack.drained <= drained[s]
    BY <1>4, <2>3 DEF IInv, AcksArePast
  <2> QED
    BY <2>2, <2>4 DEF RoundOf, PlayedOf, CursorOf, DrainedOf
<1>9. a \in Ack
  BY <1>6, <1>7 DEF Ack, Larger
<1>10. acked' \in [Session -> Ack]
  BY <1>1, <1>3, <1>9 DEF CoordinatorTypeOK
<1>11. ASSUME NEW t \in Session
       PROVE  /\ acked[t].round <= acked'[t].round
              /\ acked[t].playback <= acked'[t].playback
              /\ acked'[t].round <= RoundOf(t) /\ acked'[t].playback <= PlayedOf(t)
              /\ acked'[t].cursor <= CursorOf(t) /\ acked'[t].drained <= DrainedOf(t)
  <2>1. /\ acked[t].round <= RoundOf(t) /\ acked[t].playback <= PlayedOf(t)
        /\ acked[t].cursor <= CursorOf(t) /\ acked[t].drained <= DrainedOf(t)
    BY DEF IInv, AckedIsPast
  <2>2. CASE t = s /\ OfThisEpoch(m)
    <3>1. acked'[t] = a
      BY <1>1, <1>3, <2>2 DEF CoordinatorTypeOK
    <3>2. /\ acked'[t].round = Larger(acked[s].round, m.ack.round)
          /\ acked'[t].playback = Larger(acked[s].playback, m.ack.playback)
          /\ acked'[t].cursor = Larger(acked[s].cursor, m.ack.cursor)
          /\ acked'[t].drained = Larger(acked[s].drained, m.ack.drained)
      BY <3>1
    <3> HIDE DEF m
    <3> QED
      BY <1>6, <1>7, <1>8, <2>1, <2>2, <3>2 DEF Larger
  <2>3. CASE ~(t = s /\ OfThisEpoch(m))
    <3>1. acked'[t] = acked[t]
      BY <1>1, <1>3, <2>3 DEF CoordinatorTypeOK
    <3>2. acked[t].round \in Int /\ acked[t].playback \in Nat
      BY <1>3 DEF CoordinatorTypeOK, Ack
    <3> QED
      BY <2>1, <3>1, <3>2
  <2> QED
    BY <2>2, <2>3
<1> HIDE DEF m, a
<1>12. TypeOK'
  <2>1. CoordinatorTypeOK'
    BY <1>2, <1>3, <1>10 DEF CoordinatorTypeOK
  <2>2. PortsTypeOK'
    BY <1>1, <1>2, <1>3, <1>4 DEF PortsTypeOK
  <2>3. WorkerTypeOK'
    BY <1>2, <1>3 DEF WorkerTypeOK
  <2> QED
    BY <2>1, <2>2, <2>3 DEF TypeOK
<1>13. PortsInv' /\ WorkerInv'
  BY <1>2 DEF IInv, PortsInv, ResetsInOrder, RoundsInOrder, Current, WorkerInv
<1>14. AcksArePast'
  <2>1. ASSUME NEW t \in Session, NEW i \in 1 .. Len(toMain'[t])
        PROVE  \E j \in 1 .. Len(toMain[t]) : toMain'[t][i] = toMain[t][j]
    <3>1. CASE t = s
      <4>1. toMain'[t] = Tail(toMain[s])
        BY <1>1, <1>3, <3>1 DEF PortsTypeOK
      <4>2. i + 1 \in 1 .. Len(toMain[s]) /\ toMain'[t][i] = toMain[s][i + 1]
        BY <1>4, <4>1
      <4> QED
        BY <3>1, <4>2
    <3>2. CASE t # s
      <4>1. toMain'[t] = toMain[t]
        BY <1>1, <1>3, <3>2 DEF PortsTypeOK
      <4> QED
        BY <4>1
    <3> QED
      BY <3>1, <3>2
  <2> QED
    BY <1>2, <2>1 DEF IInv, AcksArePast
<1>15. AckedIsPast'
  BY <1>5, <1>11 DEF AckedIsPast
<1>16. RoundInv'
  <2>1. \A t \in Session : round - 1 <= acked'[t].round
    <3> SUFFICES ASSUME NEW t \in Session
                 PROVE  round - 1 <= acked'[t].round
      OBVIOUS
    <3>1. round - 1 <= acked[t].round /\ acked[t].round <= acked'[t].round
      BY <1>11 DEF IInv, RoundInv
    <3>2. round \in Int /\ acked[t].round \in Int /\ acked'[t].round \in Int
      <4>1. round \in Nat /\ acked[t] \in Ack /\ acked'[t] \in Ack
        BY <1>3, <1>10 DEF CoordinatorTypeOK
      <4> QED
        BY <4>1 DEF Ack
    <3>3. PICK r \in Int, x \in Int, y \in Int :
            r = round /\ x = acked[t].round /\ y = acked'[t].round
      BY <3>2
    <3>4. r - 1 <= x /\ x <= y
      BY <3>1, <3>3
    <3>5. r - 1 <= y
      BY <3>4
    <3> QED
      BY <3>3, <3>5
  <2> QED
    BY <1>2, <2>1 DEF IInv, RoundInv
<1>17. CommonOrigin'
  <2> SUFFICES ASSUME mode = "race", NEW t \in Session, NEW u \in Session
               PROVE  baseline[t] = baseline[u] /\ baseline[t] <= acked'[u].playback
    BY <1>2 DEF CommonOrigin
  <2>1. /\ baseline[t] = baseline[u] /\ baseline[t] <= acked[u].playback
        /\ acked[u].playback <= acked'[u].playback
    BY <1>11 DEF IInv, CommonOrigin
  <2>2. /\ baseline[t] \in Nat /\ acked[u].playback \in Nat
        /\ acked'[u].playback \in Nat
    BY <1>3, <1>10 DEF CoordinatorTypeOK, Ack
  <2> QED
    BY <2>1, <2>2
<1>18. SharedIndexReached' /\ PaceJoin' /\ RaceWatermark'
  BY <1>2, <1>5 DEF IInv, SharedIndexReached, PaceJoin, RaceWatermark
<1> QED
  BY <1>12, <1>13, <1>14, <1>15, <1>16, <1>17, <1>18 DEF IInv

-----------------------------------------------------------------------------
(* A worker that is reset *)

\* The RESET at the head of a port opens an epoch that is new to the worker, which
\* therefore was not in the coordinator's: to the field nothing changes.
LEMMA HandleResetKeepsIInv ==
  ASSUME IInv, NEW s \in Session, HandleReset(s)
  PROVE  IInv'
<1> DEFINE e == Head(toWorker[s]).epoch
<1>1. /\ toWorker[s] # <<>> /\ Head(toWorker[s]).type = "RESET"
      /\ toWorker' = [toWorker EXCEPT ![s] = Tail(@)]
      /\ UNCHANGED coordinator
      /\ wEpoch' = [wEpoch EXCEPT ![s] = e]
      /\ entries' = [entries EXCEPT ![s] = <<>>]
      /\ cursor' = [cursor EXCEPT ![s] = 0]
      /\ busy' = [busy EXCEPT ![s] = FALSE]
      /\ executed' = [executed EXCEPT ![s] = 0]
      /\ playback' = [playback EXCEPT ![s] = 0]
      /\ drained' = [drained EXCEPT ![s] = -1]
      /\ limits' = [limits EXCEPT ![s] = NoGrant]
      /\ ready' = ready /\ toMain' = toMain
  BY DEF HandleReset, Receives, NoEntries
<1>2. /\ epoch' = epoch /\ mode' = mode /\ running' = running /\ scale' = scale
      /\ sequence' = sequence /\ round' = round
      /\ lastComputedRound' = lastComputedRound /\ sharedIndex' = sharedIndex
      /\ baseline' = baseline /\ cached' = cached /\ shipped' = shipped
      /\ acked' = acked
  BY <1>1 DEF coordinator
<1>3. TypeOK /\ CoordinatorTypeOK /\ PortsTypeOK /\ WorkerTypeOK
  BY DEF IInv, TypeOK
<1>4. /\ Head(toWorker[s]) = toWorker[s][1] /\ 1 \in 1 .. Len(toWorker[s])
      /\ Head(toWorker[s]) \in ToWorkerMsg
      /\ Len(toWorker[s]) \in Nat
      /\ Tail(toWorker[s]) \in Seq(ToWorkerMsg)
      /\ Len(Tail(toWorker[s])) = Len(toWorker[s]) - 1
      /\ \A i \in 1 .. Len(Tail(toWorker[s])) : Tail(toWorker[s])[i] = toWorker[s][i + 1]
  BY <1>1, <1>3, HeadIsMsg
<1>5. e \in Nat /\ e <= epoch /\ wEpoch[s] < e /\ wEpoch[s] \in Nat /\ epoch \in Nat
  <2>1. e \in Nat
    BY <1>1, <1>4 DEF ToWorkerMsg
  <2> QED
    BY <1>1, <1>3, <1>4, <2>1
    DEF IInv, PortsInv, ResetsInOrder, CoordinatorTypeOK, WorkerTypeOK
<1> HIDE DEF e
<1>6. /\ wEpoch'[s] = e /\ cursor'[s] = 0 /\ playback'[s] = 0 /\ drained'[s] = -1
      /\ limits'[s] = NoGrant /\ toWorker'[s] = Tail(toWorker[s])
  BY <1>1, <1>3 DEF WorkerTypeOK, PortsTypeOK
<1>7. \A t \in Session \ {s} :
        /\ wEpoch'[t] = wEpoch[t] /\ cursor'[t] = cursor[t]
        /\ playback'[t] = playback[t] /\ drained'[t] = drained[t]
        /\ limits'[t] = limits[t] /\ toWorker'[t] = toWorker[t]
  BY <1>1, <1>3 DEF WorkerTypeOK, PortsTypeOK
<1>8. TypeOK'
  <2>1. NoGrant \in Grant
    BY DEF NoGrant, Grant
  <2>2. CoordinatorTypeOK'
    BY <1>2, <1>3 DEF CoordinatorTypeOK
  <2>3. PortsTypeOK'
    BY <1>1, <1>3, <1>4 DEF PortsTypeOK
  <2>4. WorkerTypeOK'
    BY <1>1, <1>3, <1>5, <2>1 DEF WorkerTypeOK
  <2> QED
    BY <2>2, <2>3, <2>4 DEF TypeOK
<1>9. \A t \in Session :
        /\ PlayedOf(t)' = PlayedOf(t) /\ CursorOf(t)' = CursorOf(t)
        /\ DrainedOf(t)' = DrainedOf(t) /\ RoundOf(t)' = RoundOf(t)
  <2>1. ~Current(s)
    BY <1>5 DEF Current
  <2>2. \A t \in Session \ {s} : Current(t)' <=> Current(t)
    BY <1>2, <1>7 DEF Current
  <2>3. ASSUME NEW t \in Session, t # s
        PROVE  /\ PlayedOf(t)' = PlayedOf(t) /\ CursorOf(t)' = CursorOf(t)
               /\ DrainedOf(t)' = DrainedOf(t) /\ RoundOf(t)' = RoundOf(t)
    BY <1>7, <2>2, <2>3 DEF PlayedOf, CursorOf, DrainedOf, RoundOf
  <2>4. /\ PlayedOf(s)' = PlayedOf(s) /\ CursorOf(s)' = CursorOf(s)
        /\ DrainedOf(s)' = DrainedOf(s) /\ RoundOf(s)' = RoundOf(s)
    BY <1>6, <2>1 DEF PlayedOf, CursorOf, DrainedOf, RoundOf, NoGrant
  <2> QED
    BY <2>3, <2>4
<1>10. ASSUME NEW i \in 1 .. Len(toWorker'[s])
       PROVE  /\ i + 1 \in 1 .. Len(toWorker[s])
              /\ toWorker'[s][i] = toWorker[s][i + 1]
              /\ 1 \in 1 .. (i + 1) - 1
              /\ \A j \in 1 .. i - 1 : /\ toWorker'[s][j] = toWorker[s][j + 1]
                                       /\ j + 1 \in 1 .. (i + 1) - 1
  BY <1>4, <1>6
<1>11. PortsInv'
  <2>1. ASSUME NEW t \in Session, t # s
        PROVE  ResetsInOrder(t)' /\ RoundsInOrder(t)'
    BY SMTT(30), <1>2, <1>7, <2>1 DEF IInv, PortsInv, ResetsInOrder, RoundsInOrder, Current
  <2>2. ResetsInOrder(s)'
    <3>1. wEpoch'[s] <= epoch'
      BY <1>2, <1>5, <1>6
    <3>2. ASSUME NEW i \in 1 .. Len(toWorker'[s])
          PROVE  /\ toWorker'[s][i].epoch <= epoch'
                 /\ toWorker'[s][i].type = "RESET" =>
                      /\ wEpoch'[s] < toWorker'[s][i].epoch
                      /\ \A j \in 1 .. i - 1 :
                           toWorker'[s][j].type = "RESET" =>
                             toWorker'[s][j].epoch < toWorker'[s][i].epoch
      BY <1>1, <1>2, <1>4, <1>6, <1>10, SMTT(30) DEF IInv, PortsInv, ResetsInOrder, e
    <3> QED
      BY <3>1, <3>2 DEF ResetsInOrder
  <2>3. RoundsInOrder(s)'
    <3>1. Current(s)' => limits'[s].round <= round'
      BY <1>2, <1>3, <1>6 DEF NoGrant, CoordinatorTypeOK
    <3>2. ASSUME NEW i \in 1 .. Len(toWorker'[s]), toWorker'[s][i].type = "GRANT"
          PROVE  /\ toWorker'[s][i].grant.round >= -1
                 /\ toWorker'[s][i].epoch = epoch' =>
                      toWorker'[s][i].grant.round <= round'
                 /\ toWorker'[s][i].epoch = wEpoch'[s] =>
                      limits'[s].round <= toWorker'[s][i].grant.round
                 /\ \A j \in 1 .. i - 1 :
                      /\ toWorker'[s][j].type = "GRANT"
                      /\ toWorker'[s][j].epoch = toWorker'[s][i].epoch
                      => toWorker'[s][j].grant.round <= toWorker'[s][i].grant.round
      <4>1. toWorker[s][i + 1].grant.round >= -1
        BY <1>10, <3>2 DEF IInv, PortsInv, RoundsInOrder
      <4>2. toWorker'[s][i] \in ToWorkerMsg
        BY <1>8 DEF TypeOK, PortsTypeOK
      <4>3. toWorker'[s][i].grant.round \in Int
        BY <3>2, <4>2 DEF ToWorkerMsg, Grant
      <4>4. limits'[s].round <= toWorker'[s][i].grant.round
        BY <1>6, <1>10, <4>1, <4>3 DEF NoGrant
      <4>5. toWorker'[s][i].epoch = epoch' => toWorker'[s][i].grant.round <= round'
        <5>1. toWorker[s][i + 1].type = "GRANT" /\ i + 1 \in 1 .. Len(toWorker[s])
          BY <1>10, <3>2
        <5>2. RoundsInOrder(s)
          BY DEF IInv, PortsInv
        <5>3. toWorker[s][i + 1].epoch = epoch => toWorker[s][i + 1].grant.round <= round
          BY <5>1, <5>2 DEF RoundsInOrder
        <5> QED BY <1>2, <1>10, <5>3
      <4>6. \A j \in 1 .. (i + 1) - 1 :
              /\ toWorker[s][j].type = "GRANT"
              /\ toWorker[s][j].epoch = toWorker[s][i + 1].epoch
              => toWorker[s][j].grant.round <= toWorker[s][i + 1].grant.round
        BY <1>10, <3>2 DEF IInv, PortsInv, RoundsInOrder
      <4>7. \A j \in 1 .. i - 1 :
              /\ toWorker'[s][j].type = "GRANT"
              /\ toWorker'[s][j].epoch = toWorker'[s][i].epoch
              => toWorker'[s][j].grant.round <= toWorker'[s][i].grant.round
        BY <1>10, <4>6
      <4> QED
        BY <1>10, <4>1, <4>4, <4>5, <4>7
    <3> QED
      BY <3>1, <3>2 DEF RoundsInOrder
  <2> QED
    BY <2>1, <2>2, <2>3 DEF PortsInv
<1>12. AcksArePast'
  <2> SUFFICES ASSUME NEW t \in Session, NEW i \in 1 .. Len(toMain[t])
               PROVE  /\ toMain[t][i].epoch <= wEpoch'[t]
                      /\ toMain[t][i].epoch = wEpoch'[t] =>
                           /\ toMain[t][i].ack.round <= limits'[t].round
                           /\ toMain[t][i].ack.playback <= playback'[t]
                           /\ toMain[t][i].ack.cursor <= cursor'[t]
                           /\ toMain[t][i].ack.drained <= drained'[t]
    BY <1>1 DEF AcksArePast
  <2>1. CASE t = s
    <3>1. toMain[s][i].epoch <= wEpoch[s]
      BY <2>1 DEF IInv, AcksArePast
    <3>2. toMain[s][i] \in ToMainMsg
      BY <1>3, <2>1 DEF PortsTypeOK
    <3>3. toMain[s][i].epoch \in Nat
      BY <3>2 DEF ToMainMsg
    <3>4. toMain[s][i].epoch < e
      BY <1>5, <3>1, <3>3
    <3> QED
      BY <1>5, <1>6, <2>1, <3>3, <3>4
  <2>2. CASE t # s
    BY <1>7, <2>2 DEF IInv, AcksArePast
  <2> QED
    BY <2>1, <2>2
<1>13. AckedIsPast' /\ SharedIndexReached'
  BY <1>2, <1>9 DEF IInv, AckedIsPast, SharedIndexReached
<1>14. WorkerInv'
  BY <1>6, <1>7 DEF IInv, WorkerInv
<1>15. RoundInv' /\ CommonOrigin'
  BY <1>2 DEF IInv, RoundInv, CommonOrigin
<1>16. PaceJoin' /\ RaceWatermark'
  <2>1. \A t \in Session : CursorOf(t) <= CursorOf(t)' /\ PlayedOf(t) <= PlayedOf(t)'
    BY <1>3, <1>9, ProgressTypes
  <2>2. ASSUME NEW t \in Session, NEW g \in GrantsInForce(t)'
        PROVE  g \in GrantsInForce(t) \/ g = NoGrant
    <3>1. CASE g = cached'[t]
      BY <1>2, <3>1 DEF GrantsInForce
    <3>2. CASE Current(t)' /\ g = limits'[t]
      <4>1. CASE t = s
        BY <1>6, <3>2, <4>1
      <4>2. CASE t # s
        BY <1>2, <1>7, <3>2, <4>2 DEF GrantsInForce, Current
      <4> QED
        BY <4>1, <4>2
    <3>3. CASE \E i \in DOMAIN toWorker'[t] : /\ toWorker'[t][i].type = "GRANT"
                                             /\ toWorker'[t][i].epoch = epoch'
                                             /\ g = toWorker'[t][i].grant
      <4>1. PICK i \in DOMAIN toWorker'[t] : /\ toWorker'[t][i].type = "GRANT"
                                             /\ toWorker'[t][i].epoch = epoch'
                                             /\ g = toWorker'[t][i].grant
        BY <3>3
      <4>2. \E j \in DOMAIN toWorker[t] : toWorker[t][j] = toWorker'[t][i]
        <5>1. CASE t = s
          <6>1. i \in 1 .. Len(toWorker'[s])
            BY <1>8, <4>1, <5>1 DEF TypeOK, PortsTypeOK
          <6>2. i + 1 \in DOMAIN toWorker[s] /\ toWorker'[s][i] = toWorker[s][i + 1]
            BY <1>3, <1>10, <6>1 DEF PortsTypeOK
          <6> QED
            BY <5>1, <6>2
        <5>2. CASE t # s
          BY <1>7, <5>2
        <5> QED
          BY <5>1, <5>2
      <4> QED
        BY <1>2, <4>1, <4>2 DEF GrantsInForce
    <3> QED
      BY <3>1, <3>2, <3>3 DEF GrantsInForce
  <2>3. NoGrant \in Grant /\ NoGrant.rule = "none"
    BY DEF NoGrant, Grant
  <2>4. \A t, u \in Session : PaceBound(t, u, NoGrant) /\ RaceBound(t, u, NoGrant)
    BY <2>3 DEF PaceBound, RaceBound
  <2> QED
    BY <1>3, <1>8, <2>1, <2>2, <2>3, <2>4, GrantsStayInBounds DEF IInv
<1> QED
  BY <1>8, <1>11, <1>12, <1>13, <1>14, <1>15, <1>16 DEF IInv

-----------------------------------------------------------------------------
(* Frames *)

\* Pace: the shared index moves past a step only when the whole field drained it.
LEMMA PaceAdvanceReached ==
  ASSUME IInv, NEW es \in Seq(Entry), NEW force \in BOOLEAN, mode = "pace",
         PaceAdvance(es, force), NEW t \in Session
  PROVE  sharedIndex' \in Nat /\ sharedIndex' <= CursorOf(t)
<1>1. PICK k \in sharedIndex .. Len(es) :
        /\ k > sharedIndex => \A s \in Session : acked[s].drained >= k - 1
        /\ sharedIndex' = k
  BY DEF PaceAdvance
<1>2. sharedIndex \in Nat /\ acked[t] \in Ack /\ Len(es) \in Nat /\ TypeOK
  BY DEF IInv, TypeOK, CoordinatorTypeOK
<1>3. acked[t].drained \in Int /\ k \in Nat
  BY <1>1, <1>2 DEF Ack
<1>4. DrainedOf(t) \in Int /\ CursorOf(t) \in Nat
  BY <1>2, ProgressTypes
<1>5. DrainedOf(t) < CursorOf(t)
  BY DEF IInv, WorkerInv, DrainedOf, CursorOf
<1>6. k <= CursorOf(t)
  <2>1. CASE k > sharedIndex
    <3>1. acked[t].drained >= k - 1 /\ acked[t].drained <= DrainedOf(t)
      BY <1>1, <2>1 DEF IInv, AckedIsPast
    <3> QED
      BY <1>3, <1>4, <1>5, <3>1
  <2>2. CASE ~(k > sharedIndex)
    <3>1. k = sharedIndex
      BY <1>1, <1>2, <2>2
    <3> QED
      BY <3>1 DEF IInv, SharedIndexReached
  <2> QED
    BY <2>1, <2>2
<1> QED
  BY <1>1, <1>3, <1>6

\* Arithmetic of the Race clamp: from an origin o that t played past, lo being no
\* more than t's distance from it.
LEMMA ClampLaw ==
  ASSUME NEW hi \in Int, NEW lo \in Int, NEW o \in Nat, NEW p \in Nat,
         NEW lead \in Nat, NEW c \in Nat, c <= lead, o <= p, o + lo <= p
  PROVE  o + Larger(Smaller(hi + c, lo + lead), c) <= p + lead
BY DEF Larger, Smaller

\* What a derived grant answers for, whichever rule derived it.
LEMMA ComputeGrantsBounds ==
  ASSUME IInv, NEW es \in Seq(Entry), Len(sequence) <= Len(es),
         NEW r \in Int, NEW force \in BOOLEAN, NEW stepLimit \in Nat \cup {-1},
         computeGrants(r, es, force, stepLimit),
         NEW s \in Session, NEW t \in Session
  PROVE  PaceBound(s, t, cached'[s]) /\ RaceBound(s, t, cached'[s])
<1> DEFINE g == cached'[s]
<1>1. TypeOK /\ CoordinatorTypeOK
  BY DEF IInv, TypeOK
<1>2. /\ sequence' \in Seq(Entry) /\ sharedIndex' \in Nat
      /\ baseline' \in [Session -> Nat] /\ g \in Grant
      /\ g.rule = IF stepLimit >= 0 THEN "step" ELSE mode
  BY <1>1, ComputeGrantsTypes
<1>3. PICK hi, lo \in {Rel(u) : u \in Session} :
        /\ \A u \in Session : lo <= Rel(u) /\ Rel(u) <= hi
        /\ cached' = [u \in Session |-> DerivedGrant(u, r, hi, lo, stepLimit)]
  BY DEF computeGrants
<1>4. \A u \in Session : /\ acked[u].playback \in Nat /\ acked[u].cursor \in Nat
                         /\ Rel(u) = acked[u].playback - baseline'[u]
  BY <1>1 DEF CoordinatorTypeOK, Ack, Rel
<1>5. hi \in Int /\ lo \in Int
  <2>1. \A u \in Session : baseline'[u] \in Nat
    BY <1>2
  <2>2. ASSUME NEW u \in Session
        PROVE  Rel(u) \in Int
    <3>1. PICK x \in Nat, y \in Nat : x = acked[u].playback /\ y = baseline'[u]
      BY <1>4, <2>1
    <3>2. Rel(u) = x - y
      BY <1>4, <3>1
    <3> QED
      BY <3>2
  <2> QED
    BY <1>3, <2>2
<1>6. /\ g = DerivedGrant(s, r, hi, lo, stepLimit)
      /\ g.scale = scale
      /\ g.rule = "pace" => g.entryLimit = SharedStep(s)
      /\ g.rule = "race" =>
           g.playLimit = Larger(baseline'[s] + BoundedMax(hi, lo), acked[s].playback)
  <2>1. g = DerivedGrant(s, r, hi, lo, stepLimit)
    BY <1>3
  <2>2. baseline'[s] \in Nat /\ sequence' \in Seq(Entry) /\ sharedIndex' \in Nat
    BY <1>2
  <2> HIDE DEF g
  <2> QED
    BY <1>1, <1>5, <2>1, <2>2, DerivedGrantTypes
<1>7. /\ acked[s].cursor <= CursorOf(s) /\ acked[s].playback <= PlayedOf(s)
      /\ acked[t].playback <= PlayedOf(t)
  BY DEF IInv, AckedIsPast
<1>8. CursorOf(s) \in Nat /\ CursorOf(t) \in Nat /\ PlayedOf(s) \in Nat
      /\ PlayedOf(t) \in Nat
  BY <1>1, ProgressTypes
<1>9. PaceBound(s, t, g)
  <2> SUFFICES ASSUME g.rule = "pace"
               PROVE  g.entryLimit <= Larger(CursorOf(s), CursorOf(t) + 1)
    BY DEF PaceBound
  <2>1. mode = "pace"
    BY <1>2 
  <2>2. PaceAdvance(es, force)
    BY <2>1 DEF computeGrants
  <2>3. PICK k \in Nat : k = sharedIndex' /\ k <= CursorOf(t)
    BY <2>1, <2>2, PaceAdvanceReached
  <2>4. SharedStep(s) = Larger(k + 1, acked[s].cursor)
    BY <2>3 DEF SharedStep
  <2>5. g.entryLimit = Larger(k + 1, acked[s].cursor)
    BY <1>6, <2>4
  <2> HIDE DEF g
  <2> QED
    BY SMTT(30), <1>4, <1>7, <1>8, <2>3, <2>5 DEF Larger
<1>10. RaceBound(s, t, g)
  <2> SUFFICES ASSUME g.rule = "race"
               PROVE  g.playLimit <= Larger(PlayedOf(s),
                                            PlayedOf(t) + RACE_LEAD_BOUND_FRAMES * g.scale)
    BY DEF RaceBound
  <2>1. mode = "race"
    BY <1>2
  <2>2. baseline' = baseline
    BY <2>1 DEF computeGrants, RaceAdvance
  <2>3. scale \in Nat
    BY <1>1 DEF CoordinatorTypeOK
  <2>4. PICK lead \in Nat : lead = RACE_LEAD_BOUND_FRAMES * scale /\ scale <= lead
    BY <2>3, ProductLaws, ConstantsAssumption
  <2>5. PICK o \in Nat : o = baseline'[s] /\ o = baseline'[t]
    BY <1>2, <2>1, <2>2 DEF IInv, CommonOrigin
  <2>6. PICK a \in Nat : a = acked[t].playback /\ o <= a
    BY <1>4, <2>1, <2>2, <2>5 DEF IInv, CommonOrigin
  <2>7. o + lo <= a
    <3>1. lo <= a - o
      BY <1>3, <1>4, <2>5, <2>6
    <3> QED
      BY <1>5, <3>1
  <2>8. BoundedMax(hi, lo) = Larger(Smaller(hi + scale, lo + lead), scale)
    BY <2>4 DEF BoundedMax, chunkNs
  <2>9. o + Larger(Smaller(hi + scale, lo + lead), scale) <= a + lead
    BY <1>5, <2>3, <2>4, <2>6, <2>7, ClampLaw
  <2>10. PICK b \in Int : b = Larger(Smaller(hi + scale, lo + lead), scale)
    BY <1>5, <2>3, <2>4 DEF Larger, Smaller
  <2>11. g.playLimit = Larger(o + b, acked[s].playback)
    BY <1>6, <2>5, <2>8, <2>10
  <2>12. o + b <= PlayedOf(t) + lead
    <3>1. o + b <= a + lead
      BY <2>9, <2>10
    <3>2. a <= PlayedOf(t)
      BY <1>7, <2>6
    <3> QED
      BY SMTT(30), <1>8, <2>4, <2>5, <2>10, <3>1, <3>2
  <2>13. g.playLimit <= Larger(PlayedOf(s), PlayedOf(t) + lead)
    BY SMTT(30), <1>4, <1>7, <1>8, <2>11, <2>12 DEF Larger
  <2> QED
    BY <1>6, <2>4, <2>13
<1> QED
  BY <1>9, <1>10

\* What a frame does, whoever asked for it: it stays in the round or releases the
\* next one, and every grant it sends is of the round it leaves behind.
FrameEffect ==
  /\ round' \in {round, round + 1}
  /\ \A s \in Session : /\ round' - 1 <= acked[s].round
                        /\ cached'[s].round = round'
  /\ sequence' \in Seq(Entry)
  /\ sharedIndex' \in Nat /\ baseline' \in [Session -> Nat]
  /\ cached' \in [Session -> Grant]
  /\ mode = "pace" => \A t \in Session : sharedIndex' <= CursorOf(t)
  /\ mode = "race" => baseline' = baseline
  /\ \A s, t \in Session :
       PaceBound(s, t, cached'[s]) /\ RaceBound(s, t, cached'[s])

LEMMA ComputeGrantsEffect ==
  ASSUME IInv, NEW es \in Seq(Entry), Len(sequence) <= Len(es),
         NEW force \in BOOLEAN, NEW stepLimit \in Nat \cup {-1},
         round' \in {round, round + 1}, \A s \in Session : round' - 1 <= acked[s].round,
         computeGrants(round', es, force, stepLimit)
  PROVE  FrameEffect
<1>1. TypeOK /\ CoordinatorTypeOK
  BY DEF IInv, TypeOK
<1>2. PICK r \in Int : r = round'
  BY <1>1 DEF CoordinatorTypeOK
<1>3. computeGrants(r, es, force, stepLimit)
  BY <1>2
<1>4. /\ sequence' \in Seq(Entry) /\ sharedIndex' \in Nat
      /\ baseline' \in [Session -> Nat] /\ cached' \in [Session -> Grant]
      /\ \A s \in Session : cached'[s].round = r
  BY <1>1, <1>3, ComputeGrantsTypes
<1>5. \A s, t \in Session :
        PaceBound(s, t, cached'[s]) /\ RaceBound(s, t, cached'[s])
  BY <1>3, ComputeGrantsBounds
<1>6. mode = "pace" => \A t \in Session : sharedIndex' <= CursorOf(t)
  BY <1>3, PaceAdvanceReached DEF computeGrants
<1>7. mode = "race" => baseline' = baseline
  BY <1>3 DEF computeGrants, RaceAdvance
<1> QED
  BY <1>2, <1>4, <1>5, <1>6, <1>7 DEF FrameEffect

LEMMA FrameWithEffect ==
  ASSUME IInv, NEW es \in Seq(Entry), Len(sequence) <= Len(es),
         NEW force \in BOOLEAN, NEW stepLimit \in Nat \cup {-1},
         NEW last \in {-1, lastComputedRound}, FrameWith(es, force, stepLimit, last)
  PROVE  FrameEffect
<1>1. TypeOK /\ CoordinatorTypeOK
  BY DEF IInv, TypeOK
<1>2. round \in Nat /\ \A s \in Session : acked[s] \in Ack
  BY <1>1 DEF CoordinatorTypeOK
<1>3. \A s \in Session : acked[s].round \in Int /\ round - 1 <= acked[s].round
  BY <1>2 DEF Ack, IInv, RoundInv
<1>4. CASE last < round /\ round' = round /\ computeGrants(round, es, force, stepLimit)
  <2>1. computeGrants(round', es, force, stepLimit)
    BY <1>4
  <2>2. \A s \in Session : round' - 1 <= acked[s].round
    BY <1>3, <1>4
  <2> QED
    BY <1>4, <2>1, <2>2, ComputeGrantsEffect
<1>5. CASE AllAcked /\ round' = round + 1 /\ computeGrants(round + 1, es, force, stepLimit)
  <2>1. computeGrants(round', es, force, stepLimit)
    BY <1>5
  <2>2. \A s \in Session : round' - 1 <= acked[s].round
    <3>1. PICK r \in Nat : r = round /\ round' = r + 1
      BY <1>2, <1>5
    <3>2. (r + 1) - 1 = r
      OBVIOUS
    <3>3. \A s \in Session : r <= acked[s].round
      BY <1>3, <1>5, <3>1 DEF AllAcked
    <3> QED
      BY <3>1, <3>2, <3>3
  <2> QED
    BY <1>5, <2>1, <2>2, ComputeGrantsEffect
<1>6. CASE last >= round /\ sequence' = es /\ UNCHANGED <<round, sharedIndex, baseline, cached>>
  <2>1. lastComputedRound = round
    BY <1>1, <1>2, <1>6 DEF CoordinatorTypeOK
  <2>2. \A s \in Session : cached'[s].round = round' /\ round' - 1 <= acked[s].round
    BY <1>3, <1>6, <2>1 DEF IInv, RoundInv
  <2>3. \A s, t \in Session : PaceBound(s, t, cached'[s]) /\ RaceBound(s, t, cached'[s])
    BY <1>6 DEF IInv, PaceJoin, RaceWatermark, GrantsInForce, PaceBound, RaceBound
  <2>4. /\ sharedIndex' \in Nat /\ baseline' \in [Session -> Nat]
        /\ cached' \in [Session -> Grant]
    BY <1>1, <1>6 DEF CoordinatorTypeOK
  <2>5. mode = "pace" => \A t \in Session : sharedIndex' <= CursorOf(t)
    BY <1>6 DEF IInv, SharedIndexReached
  <2> QED
    BY <1>6, <2>2, <2>3, <2>4, <2>5 DEF FrameEffect
<1> QED
  BY <1>4, <1>5, <1>6 DEF FrameWith

\* Mail behind what was on a port is in order: its grants are of the newest round.
LEMMA MailInOrder ==
  ASSUME TypeOK, PortsInv, NEW s \in Session, Extended(s, toWorker'[s]),
         epoch' = epoch, wEpoch' = wEpoch, limits' = limits,
         round' \in Nat, round <= round', cached'[s].round = round'
  PROVE  ResetsInOrder(s)' /\ RoundsInOrder(s)'
<1> DEFINE n == Len(toWorker[s])
<1>1. /\ toWorker'[s] \in Seq(ToWorkerMsg) /\ n \in Nat /\ n <= Len(toWorker'[s])
      /\ Len(toWorker'[s]) \in Nat
      /\ \A i \in 1 .. n : toWorker'[s][i] = toWorker[s][i]
      /\ \A i \in n + 1 .. Len(toWorker'[s]) : IsMail(s, toWorker'[s][i])
  BY DEF Extended, TypeOK, PortsTypeOK
<1>2. /\ epoch \in Nat /\ wEpoch[s] \in Nat /\ wEpoch[s] <= epoch /\ round \in Nat
      /\ limits[s] \in Grant /\ limits[s].round \in Int
  BY DEF TypeOK, CoordinatorTypeOK, WorkerTypeOK, PortsInv, ResetsInOrder, Grant
<1>3. ASSUME NEW i \in 1 .. n
      PROVE  /\ toWorker'[s][i] = toWorker[s][i]
             /\ \A j \in 1 .. i - 1 : toWorker'[s][j] = toWorker[s][j]
  BY <1>1
<1>4. ASSUME NEW i \in 1 .. Len(toWorker'[s]), i \notin 1 .. n
      PROVE  /\ toWorker'[s][i].epoch = epoch
             /\ toWorker'[s][i].type # "RESET"
             /\ toWorker'[s][i].type = "GRANT" => toWorker'[s][i].grant.round = round'
  <2>1. i \in n + 1 .. Len(toWorker'[s])
    BY <1>1, <1>4
  <2>2. IsMail(s, toWorker'[s][i])
    BY <1>1, <2>1
  <2> QED
    BY <2>2 DEF IsMail, GrantMsg
<1>5. ASSUME NEW i \in 1 .. n, toWorker[s][i].type = "GRANT"
      PROVE  /\ toWorker[s][i].grant.round \in Int
             /\ toWorker[s][i].grant.round >= -1
             /\ toWorker[s][i].epoch = epoch => toWorker[s][i].grant.round <= round'
  <2>1. toWorker[s][i] \in ToWorkerMsg
    BY DEF TypeOK, PortsTypeOK
  <2>2. toWorker[s][i].grant.round \in Int
    BY <1>5, <2>1 DEF ToWorkerMsg, Grant
  <2>3. PICK x \in Int, a \in Nat, b \in Nat :
          x = toWorker[s][i].grant.round /\ a = round /\ b = round' /\ a <= b
    BY <1>2, <2>2
  <2>4. toWorker[s][i].epoch = epoch => x <= a
    BY <1>5, <2>3 DEF PortsInv, RoundsInOrder
  <2>5. toWorker[s][i].epoch = epoch => x <= b
    BY <2>3, <2>4
  <2>6. toWorker[s][i].grant.round >= -1
    BY <1>5 DEF PortsInv, RoundsInOrder
  <2> QED
    BY <2>2, <2>3, <2>5, <2>6
<1>6. ResetsInOrder(s)'
  <2> SUFFICES ASSUME NEW i \in 1 .. Len(toWorker'[s])
               PROVE  /\ toWorker'[s][i].epoch <= epoch
                      /\ toWorker'[s][i].type = "RESET" =>
                           /\ wEpoch[s] < toWorker'[s][i].epoch
                           /\ \A j \in 1 .. i - 1 :
                                toWorker'[s][j].type = "RESET" =>
                                  toWorker'[s][j].epoch < toWorker'[s][i].epoch
    BY <1>2 DEF ResetsInOrder
  <2>1. CASE i \in 1 .. n
    BY <1>3, <2>1 DEF PortsInv, ResetsInOrder
  <2>2. CASE i \notin 1 .. n
    BY <1>2, <1>4, <2>2
  <2> QED
    BY <2>1, <2>2
<1>7. RoundsInOrder(s)'
  <2>1. Current(s)' => limits'[s].round <= round'
    <3>1. PICK x \in Int, a \in Nat, b \in Nat :
            x = limits[s].round /\ a = round /\ b = round' /\ a <= b
      BY <1>2
    <3>2. Current(s) => x <= a
      BY <3>1 DEF PortsInv, RoundsInOrder
    <3>3. Current(s) => x <= b
      BY <3>1, <3>2
    <3> QED
      BY <3>1, <3>3 DEF Current
  <2>2. ASSUME NEW i \in 1 .. Len(toWorker'[s]), toWorker'[s][i].type = "GRANT"
        PROVE  /\ toWorker'[s][i].grant.round >= -1
               /\ toWorker'[s][i].epoch = epoch' =>
                    toWorker'[s][i].grant.round <= round'
               /\ toWorker'[s][i].epoch = wEpoch'[s] =>
                    limits'[s].round <= toWorker'[s][i].grant.round
               /\ \A j \in 1 .. i - 1 :
                    /\ toWorker'[s][j].type = "GRANT"
                    /\ toWorker'[s][j].epoch = toWorker'[s][i].epoch
                    => toWorker'[s][j].grant.round <= toWorker'[s][i].grant.round
    <3>1. CASE i \in 1 .. n
      <4>1. /\ toWorker[s][i].type = "GRANT"
            /\ toWorker[s][i].epoch = wEpoch[s] =>
                 limits[s].round <= toWorker[s][i].grant.round
            /\ \A j \in 1 .. i - 1 :
                 /\ toWorker[s][j].type = "GRANT"
                 /\ toWorker[s][j].epoch = toWorker[s][i].epoch
                 => toWorker[s][j].grant.round <= toWorker[s][i].grant.round
        BY <1>3, <2>2, <3>1 DEF PortsInv, RoundsInOrder
      <4>2. /\ toWorker[s][i].grant.round >= -1
            /\ toWorker[s][i].epoch = epoch => toWorker[s][i].grant.round <= round'
        BY <1>5, <3>1, <4>1
      <4> QED
        BY <1>3, <3>1, <4>1, <4>2
    <3>2. CASE i \notin 1 .. n
      <4>1. toWorker'[s][i].grant.round = round' /\ toWorker'[s][i].epoch = epoch
        BY <1>4, <2>2, <3>2
      <4>2. round' >= -1
        OBVIOUS
      <4>3. ASSUME NEW j \in 1 .. i - 1, toWorker'[s][j].type = "GRANT",
                   toWorker'[s][j].epoch = epoch
            PROVE  toWorker'[s][j].grant.round <= round'
        <5>1. j \in 1 .. Len(toWorker'[s])
          BY <1>1
        <5>2. CASE j \in 1 .. n
          BY <1>3, <1>5, <4>3, <5>2
        <5>3. CASE j \notin 1 .. n
          BY <1>4, <4>3, <5>1, <5>3
        <5> QED
          BY <5>2, <5>3
      <4>4. toWorker'[s][i].epoch = wEpoch[s] => limits[s].round <= round'
        BY <2>1, <4>1 DEF Current
      <4> QED
        BY <4>1, <4>2, <4>3, <4>4
    <3> QED
      BY <3>1, <3>2
  <2> QED
    BY <2>1, <2>2 DEF RoundsInOrder
<1> QED
  BY <1>6, <1>7

\* A frame keeps the whole invariant.
LEMMA FrameKeepsIInv ==
  ASSUME IInv, NEW es \in Seq(Entry), Len(sequence) <= Len(es),
         NEW force \in BOOLEAN, NEW stepLimit \in Nat \cup {-1},
         NEW last \in {-1, lastComputedRound}, FrameWith(es, force, stepLimit, last)
  PROVE  IInv'
<1>1. TypeOK /\ CoordinatorTypeOK /\ PortsTypeOK /\ WorkerTypeOK
  BY DEF IInv, TypeOK
<1>2. FrameEffect
  BY FrameWithEffect
<1>3. /\ lastComputedRound' = round'
      /\ shipped' = [s \in Session |-> Len(sequence')]
      /\ toWorker' = [s \in Session |->
                        toWorker[s] \o Shipment(es, shipped[s])
                                    \o Shipment(sequence', Len(es))
                                    \o <<GrantMsg(epoch, cached'[s])>>]
      /\ UNCHANGED <<epoch, mode, running, scale, acked, toMain, worker>>
  BY DEF FrameWith
<1>4. /\ epoch' = epoch /\ mode' = mode /\ running' = running /\ scale' = scale
      /\ acked' = acked /\ toMain' = toMain
      /\ wEpoch' = wEpoch /\ ready' = ready /\ entries' = entries
      /\ cursor' = cursor /\ busy' = busy /\ executed' = executed
      /\ playback' = playback /\ drained' = drained /\ limits' = limits
  BY <1>3 DEF worker
<1>5. /\ round' \in Nat /\ round <= round'
      /\ \A s \in Session : /\ round' - 1 <= acked[s].round
                            /\ cached'[s].round = round'
      /\ sequence' \in Seq(Entry) /\ Len(sequence') \in Nat
      /\ sharedIndex' \in Nat /\ baseline' \in [Session -> Nat]
      /\ cached' \in [Session -> Grant]
  BY <1>1, <1>2 DEF FrameEffect, CoordinatorTypeOK
<1>6. \A s \in Session : Extended(s, toWorker'[s])
  BY <1>1, <1>3, <1>5, FrameExtends
<1>7. TypeOK'
  <2>1. CoordinatorTypeOK'
    BY <1>1, <1>3, <1>4, <1>5 DEF CoordinatorTypeOK
  <2>2. toWorker' \in [Session -> Seq(ToWorkerMsg)]
    BY <1>3, <1>6 DEF Extended
  <2>3. PortsTypeOK'
    BY <1>1, <1>4, <2>2 DEF PortsTypeOK
  <2>4. WorkerTypeOK'
    BY <1>1, <1>4 DEF WorkerTypeOK
  <2> QED
    BY <2>1, <2>3, <2>4 DEF TypeOK
<1>8. PortsInv'
  <2>1. ASSUME NEW s \in Session
        PROVE  ResetsInOrder(s)' /\ RoundsInOrder(s)'
    BY <1>1, <1>4, <1>5, <1>6, MailInOrder DEF IInv
  <2> QED
    BY <2>1 DEF PortsInv
<1>9. AcksArePast' /\ WorkerInv'
  BY <1>4 DEF IInv, AcksArePast, WorkerInv
<1>10. \A t \in Session :
        /\ PlayedOf(t)' = PlayedOf(t) /\ CursorOf(t)' = CursorOf(t)
        /\ DrainedOf(t)' = DrainedOf(t) /\ RoundOf(t)' = RoundOf(t)
  BY <1>4 DEF PlayedOf, CursorOf, DrainedOf, RoundOf, Current
<1>11. AckedIsPast'
  BY <1>4, <1>10 DEF IInv, AckedIsPast
<1>12. RoundInv'
  BY <1>4, <1>5 DEF RoundInv
<1>13. SharedIndexReached' /\ CommonOrigin'
  BY <1>2, <1>4, <1>10 DEF FrameEffect, IInv, SharedIndexReached, CommonOrigin
<1>14. PaceJoin' /\ RaceWatermark'
  <2>1. \A t \in Session : CursorOf(t) <= CursorOf(t)' /\ PlayedOf(t) <= PlayedOf(t)'
    BY <1>1, <1>10, ProgressTypes
  <2>2. ASSUME NEW t \in Session, NEW g \in GrantsInForce(t)'
        PROVE  g \in GrantsInForce(t) \/ g = cached'[t]
    <3>1. CASE Current(t)' /\ g = limits'[t]
      BY <1>4, <3>1 DEF GrantsInForce, Current
    <3>2. CASE \E i \in DOMAIN toWorker'[t] : /\ toWorker'[t][i].type = "GRANT"
                                             /\ toWorker'[t][i].epoch = epoch'
                                             /\ g = toWorker'[t][i].grant
      <4>1. PICK i \in DOMAIN toWorker'[t] : /\ toWorker'[t][i].type = "GRANT"
                                             /\ toWorker'[t][i].epoch = epoch'
                                             /\ g = toWorker'[t][i].grant
        BY <3>2
      <4>2. i \in 1 .. Len(toWorker'[t]) /\ Len(toWorker[t]) \in Nat
        BY <1>1, <1>7, <4>1 DEF TypeOK, PortsTypeOK
      <4>3. CASE i \in 1 .. Len(toWorker[t])
        <5>1. toWorker'[t][i] = toWorker[t][i] /\ i \in DOMAIN toWorker[t]
          BY <1>1, <1>6, <4>3 DEF Extended, PortsTypeOK
        <5> QED
          BY <1>4, <4>1, <5>1 DEF GrantsInForce
      <4>4. CASE i \notin 1 .. Len(toWorker[t])
        <5>1. i \in Len(toWorker[t]) + 1 .. Len(toWorker'[t])
          BY <4>2, <4>4
        <5>2. IsMail(t, toWorker'[t][i])
          BY <1>6, <5>1 DEF Extended
        <5> QED
          BY <4>1, <5>2 DEF IsMail, GrantMsg
      <4> QED
        BY <4>3, <4>4
    <3> QED
      BY <3>1, <3>2 DEF GrantsInForce
  <2>3. \A t, u \in Session : PaceBound(t, u, cached'[t]) /\ RaceBound(t, u, cached'[t])
    BY <1>2 DEF FrameEffect
  <2>4. \A t \in Session : cached'[t] \in Grant
    BY <1>5
  <2> QED
    BY <1>1, <1>7, <2>1, <2>2, <2>3, <2>4, GrantsStayInBounds DEF IInv
<1> QED
  BY <1>7, <1>8, <1>9, <1>11, <1>12, <1>13, <1>14 DEF IInv

LEMMA StepKeepsIInv ==
  ASSUME IInv, Step
  PROVE  IInv'
<1>1. sequence \in Seq(Entry) /\ Len(sequence) \in Nat
  BY DEF IInv, TypeOK, CoordinatorTypeOK
<1>2. CASE FrameWith(sequence, TRUE, -1, -1)
  <2>1. /\ Len(sequence) <= Len(sequence) /\ TRUE \in BOOLEAN
        /\ -1 \in Nat \cup {-1} /\ -1 \in {-1, lastComputedRound}
    BY <1>1
  <2> QED
    BY <1>1, <1>2, <2>1, FrameKeepsIInv
<1>3. CASE \E b \in 0 .. Len(sequence) : \E es \in Ensured(sequence, b + 1) :
             FrameWith(es, FALSE, b + 1, -1)
  <2>0. PICK b \in 0 .. Len(sequence) :
          \E es \in Ensured(sequence, b + 1) : FrameWith(es, FALSE, b + 1, -1)
    BY <1>3
  <2>1. PICK es \in Ensured(sequence, b + 1) : FrameWith(es, FALSE, b + 1, -1)
    BY <2>0
  <2>2. b + 1 \in Nat /\ b + 1 \in Int
    BY <1>1
  <2>3. es \in Seq(Entry) /\ Len(sequence) <= Len(es)
    BY <1>1, <2>2, EnsuredTypes
  <2> QED
    BY <2>1, <2>2, <2>3, FrameKeepsIInv
<1> QED
  BY <1>2, <1>3 DEF Step

-----------------------------------------------------------------------------
(* The invariant *)

LEMMA InitEstablishesIInv == Init => IInv
<1> SUFFICES ASSUME Init
             PROVE  IInv
  OBVIOUS
<1>1. NoGrant \in Grant /\ NothingAcked \in Ack
  BY DEF NoGrant, Grant, NothingAcked, Ack
<1>2. <<>> \in Seq(Entry) /\ <<>> \in Seq(ToWorkerMsg) /\ <<>> \in Seq(ToMainMsg)
  OBVIOUS
<1>3. CoordinatorTypeOK
  BY <1>1, <1>2, ConstantsAssumption DEF Init, CoordinatorTypeOK
<1>4. PortsTypeOK /\ WorkerTypeOK
  BY <1>1, <1>2 DEF Init, PortsTypeOK, WorkerTypeOK
<1>5. \A s \in Session : toWorker[s] = <<>> /\ toMain[s] = <<>>
  BY DEF Init
<1>6. PortsInv /\ AcksArePast
  BY <1>5 DEF Init, PortsInv, ResetsInOrder, RoundsInOrder, AcksArePast, NoGrant
<1>7. AckedIsPast /\ WorkerInv /\ RoundInv /\ SharedIndexReached /\ CommonOrigin
  BY DEF Init, AckedIsPast, WorkerInv, RoundInv, SharedIndexReached, CommonOrigin,
         NothingAcked, NoGrant, RoundOf, PlayedOf, CursorOf, DrainedOf
<1>8. ASSUME NEW s \in Session, NEW g \in GrantsInForce(s)
      PROVE  g.rule = "none"
  <2>1. g = NoGrant
    BY <1>5, <1>8 DEF Init, GrantsInForce
  <2> QED
    BY <2>1 DEF NoGrant
<1>9. PaceJoin /\ RaceWatermark
  BY <1>8 DEF PaceJoin, RaceWatermark
<1> QED
  BY <1>3, <1>4, <1>6, <1>7, <1>9 DEF IInv, TypeOK

\* What a step of one worker may be.
LEMMA WorkerStepIsAdvanceOrReset ==
  ASSUME IInv, NEW s \in Session, Worker(s)
  PROVE  Advances(s) \/ HandleReset(s)
<1>1. TypeOK /\ WorkerInv
  BY DEF IInv
<1> QED
  BY <1>1, HandleGrantAdvances, HandleEntriesAdvances,
     RunnerReadyAdvances, CommandOpAdvances, CommandQuiescedAdvances
  DEF Worker

LEMMA StutterKeepsIInv ==
  ASSUME IInv, UNCHANGED vars
  PROVE  IInv'
<1>1. /\ UNCHANGED <<epoch, round, cached, acked, toWorker, toMain, worker>>
      /\ lastComputedRound' = lastComputedRound
      /\ UNCHANGED <<epoch, mode, running, scale, sequence, round,
                     lastComputedRound, sharedIndex, baseline, cached, shipped, acked>>
  BY DEF vars, coordinator
<1>2. CoordinatorTypeOK'
  BY <1>1 DEF IInv, TypeOK, CoordinatorTypeOK
<1>3. SharedIndexReached' /\ CommonOrigin'
  BY <1>1 DEF IInv, SharedIndexReached, CommonOrigin, CursorOf, Current, worker
<1> QED
  BY <1>1, <1>2, <1>3, BookkeepingKeepsIInv

LEMMA NextKeepsIInv == IInv /\ [Next]_vars => IInv'
<1> SUFFICES ASSUME IInv, [Next]_vars
             PROVE  IInv'
  OBVIOUS
<1>1. ASSUME NEW m \in Modes, SetMode(m)
      PROVE  IInv'
  BY <1>1, SetModeKeepsIInv
<1>2. CASE (\E v \in Scales : SetSpeed(v)) \/ Start \/ Stop
  BY <1>2, SettingKeepsIInv
<1>3. CASE Step
  BY <1>3, StepKeepsIInv
<1>4. CASE Broadcast
  BY <1>4, BroadcastKeepsIInv
<1>5. CASE Reset
  BY <1>5, ResetKeepsIInv
<1>6. CASE Frame
  <2>1. sequence \in Seq(Entry) /\ Len(sequence) <= Len(sequence)
    BY DEF IInv, TypeOK, CoordinatorTypeOK
  <2> QED
    BY <1>6, <2>1, FrameKeepsIInv DEF Frame
<1>7. ASSUME NEW s \in Session, ReceiveAck(s)
      PROVE  IInv'
  BY <1>7, ReceiveAckKeepsIInv
<1>8. ASSUME NEW s \in Session, Worker(s)
      PROVE  IInv'
  BY <1>8, WorkerStepIsAdvanceOrReset, AdvancesKeepsIInv, HandleResetKeepsIInv
<1>9. CASE UNCHANGED vars
  BY <1>9, StutterKeepsIInv
<1> QED
  BY <1>1, <1>2, <1>3, <1>4, <1>5, <1>6, <1>7, <1>8, <1>9 DEF Next, User

LEMMA Invariance == Spec => []IInv
BY InitEstablishesIInv, NextKeepsIInv, PTL DEF Spec

-----------------------------------------------------------------------------
(* What follows *)

\* Every variable and every message holds a value of its kind, for any field.
THEOREM TypeCorrect == Spec => []TypeOK
BY Invariance, PTL DEF IInv

\* The coordinator never believes a session to be ahead of where it is, and never
\* takes an earlier epoch's ack for this one's (I5).
THEOREM AcksAreOfThePast == Spec => []AckedIsPast
BY Invariance, PTL DEF IInv

\* Pace: no grant in force lets a session execute two entries past another, even
\* across mode switches, nudges, speed changes and resets.
THEOREM PaceIsJoined == Spec => []PaceJoin
BY Invariance, PTL DEF IInv

\* Race: no grant in force lets a session play further than the bound past any
\* other (ADR-0024, the leader cap).
THEOREM RaceIsBounded == Spec => []RaceWatermark
BY Invariance, PTL DEF IInv

LEMMA StepKeepsRaceLead ==
  ASSUME IInv, [Next]_vars, NEW s \in Session, NEW t \in Session,
         Current(s), epoch' = epoch, playback'[s] > playback[s],
         limits'[s].rule = "race"
  PROVE  playback'[s] <= PlayedOf(t) + RACE_LEAD_BOUND_FRAMES * limits'[s].scale
<1>1. TypeOK /\ IInv'
  BY NextKeepsIInv DEF IInv
<1>2. playback[s] \in Nat /\ playback'[s] \in Nat /\ limits'[s] \in Grant
  BY <1>1 DEF IInv, TypeOK, WorkerTypeOK
<1>3. Advances(s)
  <2>1. playback' # playback
    BY <1>2
  <2>2. PICK u \in Session : Worker(u)
    <3>1. ~(UNCHANGED worker)
      BY <2>1 DEF worker
    <3>2. ~User /\ ~Frame /\ ~(UNCHANGED vars) /\ \A v \in Session : ~ReceiveAck(v)
      BY <3>1 DEF User, Frame, FrameWith, Step, SetMode, SetSpeed, Start, Stop,
                  Broadcast, Reset, ReceiveAck, vars
    <3> QED
      BY <3>2 DEF Next
  <2>3. Advances(u) \/ HandleReset(u)
    BY <2>2, WorkerStepIsAdvanceOrReset
  <2>4. CASE HandleReset(u)
    <3>1. playback' = [playback EXCEPT ![u] = 0]
      BY <2>4 DEF HandleReset
    <3> QED
      BY SMTT(30), <1>1, <1>2, <3>1 DEF TypeOK, WorkerTypeOK
  <2>5. CASE Advances(u) /\ u # s
    <3>1. playback'[s] = playback[s]
      <4>1. s \in Session \ {u} /\ u \in Session
        BY <2>2, <2>5
      <4> QED
        BY <1>1, <2>5, <4>1, AdvancesFacts
    <3> QED
      BY <1>2, <3>1
  <2> QED
    BY <2>3, <2>4, <2>5
<1>4. Within(playback'[s], limits'[s].playLimit)
  BY <1>1, <1>3, AdvancesFacts
<1>5. /\ limits'[s].playLimit \in Nat /\ limits'[s].playLimit # Infinity
      /\ limits'[s].scale \in Nat
  BY <1>2, ConstantsAssumption DEF Grant
<1>6. limits'[s] \in GrantsInForce(s)
  <2>1. wEpoch' = wEpoch
    BY <1>1, <1>3, AdvancesFacts
  <2>2. limits'[s] \in GrantsInForce(s)'
    BY <2>1 DEF GrantsInForce, Current
  <2> QED
    BY <1>1, <1>3, <2>2, AdvancesMonotone
<1>7. PICK g \in Grant, p \in Nat, l \in Nat, q \in Nat, lead \in Nat :
        /\ g = limits'[s] /\ p = playback'[s] /\ l = g.playLimit
        /\ q = PlayedOf(t) /\ lead = RACE_LEAD_BOUND_FRAMES * g.scale
  BY <1>1, <1>2, <1>5, ProgressTypes, ProductLaws, ConstantsAssumption
<1>8. l <= Larger(playback[s], q + lead)
  BY <1>6, <1>7 DEF IInv, RaceWatermark, PlayedOf
<1>9. p <= l /\ p > playback[s]
  BY <1>4, <1>5, <1>7 DEF Within
<1>10. p <= q + lead
  BY <1>2, <1>7, <1>8, <1>9 DEF Larger
<1> QED
  BY <1>7, <1>10

\* Race: whoever plays on under a Race grant ends no further than the bound past
\* every session, whatever came before.
THEOREM RaceLeadIsBounded == Spec => RaceLead
<1>1. IInv /\ [Next]_vars =>
        [\A s, t \in Session :
           /\ Current(s) /\ epoch' = epoch
           /\ playback'[s] > playback[s]
           /\ limits'[s].rule = "race"
           => playback'[s] <= PlayedOf(t)
                + RACE_LEAD_BOUND_FRAMES * limits'[s].scale]_vars
  BY StepKeepsRaceLead
<1> QED
  BY <1>1, Invariance, PTL DEF Spec, RaceLead

-----------------------------------------------------------------------------
(* The barrier *)

\* Under IInv, a session that advances within the round lands at most one round
\* ahead of any other.
LEMMA AdvanceIsBarrierStep ==
  ASSUME IInv, IInv', NEW s \in Session, Advances(s)
  PROVE  Barrier!Next \/ UNCHANGED [t \in Session |-> RoundOf(t) + 1]
<1>1. TypeOK /\ TypeOK' /\ PortsInv /\ PortsInv'
  BY DEF IInv
<1>2. epoch' = epoch /\ wEpoch' = wEpoch /\ round' = round /\ acked' = acked
  BY <1>1, AdvancesFacts DEF coordinator
<1>3. \A t \in Session : Current(t)' <=> Current(t)
  BY <1>2 DEF Current
<1>4. \A t \in Session \ {s} : RoundOf(t)' = RoundOf(t)
  BY <1>1, <1>3, AdvancesFacts DEF RoundOf
<1>5. PICK x \in Int, y \in Int : x = RoundOf(s) /\ y = RoundOf(s)'
  <2>1. RoundOf(s) \in Int
    BY <1>1, ProgressTypes
  <2>2. RoundOf(s)' \in Int
    <3>1. limits'[s] \in Grant
      BY <1>1 DEF TypeOK, WorkerTypeOK
    <3> QED
      BY <3>1 DEF RoundOf, Grant
  <2> QED
    BY <2>1, <2>2
<1>6. x <= y
  <2>1. limits[s].round <= limits'[s].round
    BY <1>1, AdvancesRounds
  <2> QED
    BY <1>3, <1>5, <2>1 DEF RoundOf
<1>7. \A t \in Session : RoundOf(t) \in Int /\ round - 1 <= RoundOf(t)
  <2> SUFFICES ASSUME NEW t \in Session
               PROVE  RoundOf(t) \in Int /\ round - 1 <= RoundOf(t)
    OBVIOUS
  <2>1. RoundOf(t) \in Int
    BY <1>1, ProgressTypes
  <2>2. acked[t] \in Ack /\ round \in Nat
    BY <1>1 DEF TypeOK, CoordinatorTypeOK
  <2>3. PICK r \in Nat, a \in Int, b \in Int :
          r = round /\ a = acked[t].round /\ b = RoundOf(t)
    BY <2>1, <2>2 DEF Ack
  <2>4. r - 1 <= a /\ a <= b
    BY <2>3 DEF IInv, RoundInv, AckedIsPast
  <2>5. r - 1 <= b
    BY <2>4
  <2> QED
    BY <2>1, <2>3, <2>5
<1>8. CASE x = y
  <2>1. \A t \in Session : RoundOf(t)' = RoundOf(t)
    BY <1>4, <1>5, <1>8
  <2> QED
    BY <2>1
<1>9. CASE x < y
  <2>1. Current(s)
    BY <1>3, <1>5, <1>9 DEF RoundOf
  <2>2. PICK r \in Nat : r = round
    BY <1>1 DEF TypeOK, CoordinatorTypeOK
  <2>3. y <= r
    <3>1. limits'[s].round <= round'
      BY <1>1, <1>3, <2>1 DEF PortsInv, RoundsInOrder
    <3> QED
      BY <1>2, <1>3, <1>5, <2>1, <2>2, <3>1 DEF RoundOf
  <2>4. r - 1 <= x
    BY <1>5, <1>7, <2>2
  <2>5. y + 1 \in Nat /\ y + 1 > x + 1
    BY <1>9, <2>4
  <2>6. ASSUME NEW t \in Session
        PROVE  y + 1 <= (RoundOf(t) + 1) + 1
    <3>1. PICK b \in Int : b = RoundOf(t) /\ r - 1 <= b
      BY <1>7, <2>2
    <3>2. y + 1 <= (b + 1) + 1
      BY <2>3, <3>1
    <3> QED
      BY <3>1, <3>2
  <2>7. [t \in Session |-> RoundOf(t) + 1]' =
          [[t \in Session |-> RoundOf(t) + 1] EXCEPT ![s] = y + 1]
    BY <1>4, <1>5
  <2> QED
    BY <1>5, <2>5, <2>6, <2>7 DEF Barrier!Next, Barrier!Advance
<1> QED
  BY <1>5, <1>6, <1>8, <1>9

LEMMA NextIsBarrierStep ==
  ASSUME IInv, IInv', [Next]_vars
  PROVE  Barrier!Next \/ UNCHANGED [s \in Session |-> RoundOf(s) + 1]
<1>1. ASSUME UNCHANGED <<epoch, wEpoch, limits>>
      PROVE  UNCHANGED [s \in Session |-> RoundOf(s) + 1]
  BY <1>1 DEF RoundOf, Current
<1>2. CASE Reset
  <2>1. \A s \in Session : wEpoch[s] <= epoch /\ wEpoch[s] \in Nat /\ epoch \in Nat
    BY DEF IInv, PortsInv, ResetsInOrder, TypeOK, CoordinatorTypeOK, WorkerTypeOK
  <2>2. epoch' = epoch + 1 /\ wEpoch' = wEpoch
    BY <1>2 DEF Reset, worker
  <2>3. ASSUME NEW s \in Session
        PROVE  ~Current(s)'
    <3>1. PICK e \in Nat, w \in Nat : e = epoch /\ w = wEpoch[s] /\ w <= e
      BY <2>1
    <3>2. w # e + 1
      BY <3>1
    <3> QED
      BY <2>2, <3>1, <3>2 DEF Current
  <2>4. \A s \in Session : RoundOf(s)' = -1
    BY <2>3 DEF RoundOf
  <2>5. -1 + 1 = 0
    OBVIOUS
  <2>6. [s \in Session |-> RoundOf(s) + 1]' = [s \in Session |-> 0]
    BY <2>4, <2>5
  <2> QED
    BY <2>6 DEF Barrier!Next, Barrier!Reset
<1>3. ASSUME NEW s \in Session, HandleReset(s)
      PROVE  UNCHANGED [t \in Session |-> RoundOf(t) + 1]
  <2> DEFINE e == Head(toWorker[s]).epoch
  <2>1. /\ toWorker[s] # <<>> /\ Head(toWorker[s]).type = "RESET"
        /\ UNCHANGED coordinator
        /\ wEpoch' = [wEpoch EXCEPT ![s] = e]
        /\ limits' = [limits EXCEPT ![s] = NoGrant]
    BY <1>3 DEF HandleReset, Receives
  <2>2. epoch' = epoch /\ TypeOK
    BY <2>1 DEF coordinator, IInv
  <2>3. e <= epoch /\ wEpoch[s] < e /\ e \in Nat /\ wEpoch[s] \in Nat /\ epoch \in Nat
    <3>1. Head(toWorker[s]) = toWorker[s][1] /\ 1 \in 1 .. Len(toWorker[s])
          /\ Head(toWorker[s]) \in ToWorkerMsg
      BY <2>1, <2>2, HeadIsMsg
    <3> QED
      BY <2>1, <3>1 DEF IInv, PortsInv, ResetsInOrder, TypeOK, CoordinatorTypeOK,
                        WorkerTypeOK, ToWorkerMsg
  <2> HIDE DEF e
  <2>4. ~Current(s)
    BY <2>3 DEF Current
  <2>5. /\ limits'[s] = NoGrant
        /\ \A t \in Session \ {s} : limits'[t] = limits[t] /\ wEpoch'[t] = wEpoch[t]
    BY <2>1, <2>2 DEF TypeOK, WorkerTypeOK
  <2>6. \A t \in Session : RoundOf(t)' = RoundOf(t)
    BY <2>2, <2>4, <2>5 DEF RoundOf, Current, NoGrant
  <2> QED
    BY <2>6
<1>4. ASSUME NEW s \in Session, Worker(s)
      PROVE  Barrier!Next \/ UNCHANGED [t \in Session |-> RoundOf(t) + 1]
  BY <1>3, <1>4, WorkerStepIsAdvanceOrReset, AdvanceIsBarrierStep
<1>5. CASE UNCHANGED vars
  BY <1>1, <1>5 DEF vars, coordinator, worker
<1>6. ASSUME NEW s \in Session, ReceiveAck(s)
      PROVE  UNCHANGED <<epoch, wEpoch, limits>>
  BY <1>6 DEF ReceiveAck, worker
<1>7. CASE Frame
  <2>1. UNCHANGED <<epoch, wEpoch, limits>>
    BY <1>7 DEF Frame, FrameWith, worker
  <2> QED
    BY <1>1, <2>1
<1>8. CASE User /\ ~Reset
  <2>1. UNCHANGED <<epoch, wEpoch, limits>>
    BY <1>8 DEF User, SetMode, SetSpeed, Start, Stop, Step, FrameWith, Broadcast, worker
  <2> QED
    BY <1>1, <2>1
<1> QED
  BY <1>1, <1>2, <1>4, <1>5, <1>6, <1>7, <1>8 DEF Next

\* I2: the field implements the barrier.  No worker ever runs under a round that is
\* two ahead of another's, and a reset takes the whole field back at once.
THEOREM FieldImplementsBarrier == Spec => BarrierSpec
<1>1. Init => Barrier!Init
  <2> SUFFICES ASSUME Init
               PROVE  Barrier!Init
    OBVIOUS
  <2>1. \A s \in Session : RoundOf(s) + 1 = 0
    <3>1. \A s \in Session : RoundOf(s) = -1
      BY DEF Init, RoundOf, NoGrant
    <3>2. -1 + 1 = 0
      OBVIOUS
    <3> QED
      BY <3>1, <3>2
  <2> QED
    BY <2>1 DEF Barrier!Init
<1>2. IInv /\ IInv' /\ [Next]_vars
        => [Barrier!Next]_[s \in Session |-> RoundOf(s) + 1]
  BY NextIsBarrierStep
<1> QED
  BY <1>1, <1>2, Invariance, PTL DEF Spec, BarrierSpec, Barrier!Spec
=============================================================================
