------------------------------ MODULE Lockstep ------------------------------
(***************************************************************************)
(* The lockstep field: one coordinator (web/src/lockstep.js), one session  *)
(* proxy per filesystem (web/src/session-proxy.js) and one worker per      *)
(* filesystem (web/src/session-worker.js), joined by MessagePorts that are *)
(* FIFO in each direction.                                                 *)
(*                                                                         *)
(* The coordinator generates one canonical sequence of entries, prefetches *)
(* it to every worker, and once per frame DERIVES a grant per session from *)
(* what the sessions acknowledged.  A worker executes authorised entries   *)
(* onto a tape and plays the tape back, never past the granted ceiling.    *)
(*                                                                         *)
(* Time is counted in units of one frame at scale 1, so chunkNs() = scale. *)
(* An entry carries the tape position at which it ends on each session:    *)
(* what an entry costs a filesystem is a fact about the entry (I7), and    *)
(* the code only ever sums those costs.  The prep bracket and format(),    *)
(* where metering is off and the tape is cut, are left to SessionWorker.   *)
(*                                                                         *)
(* forceProduce and raceStepLimit are set by step() and consumed by the    *)
(* frame() it calls, so they are arguments of FrameWith, not state;        *)
(* likewise frontier, which computeGrants() assigns before each use.       *)
(***************************************************************************)
EXTENDS Integers, Sequences

CONSTANTS
  Session,                  \* the participating sessions
  Modes,                    \* the modes the user selects, within {"pace", "race"}
  InitScale,                \* the speed at boot
  Scales,                   \* the speeds the user selects, already clamped
  UserOps,                  \* what the user may do
  Building,                 \* sessions whose runner is still loading at boot
  Costs,                    \* what an entry may cost: its tape units on each session
  ExecBound,                \* sessions that may run out of steps in a drain
  RACE_LEAD_BOUND_FRAMES,   \* lead of the fastest session in Race, in chunks
  TAPE_CAP_FRAMES,          \* backpressure: executed-but-unplayed tape, in chunks
  Infinity,                 \* the ungated play limit of a Race step
  MaxEntries,               \* bound: length of the canonical sequence
  MaxRound,                 \* bound: rounds per epoch
  IdleRounds,               \* bound: whether rounds that change no grant are released
  MaxEpoch,                 \* bound: resets
  MaxInFlight               \* bound: messages between one session and the coordinator

ASSUME ConstantsAssumption ==
  /\ Session # {}
  /\ Modes \subseteq {"pace", "race"}
  /\ Scales \subseteq Nat /\ InitScale \in Nat
  /\ UserOps \subseteq {"mode", "speed", "start", "stop", "step", "broadcast", "reset"}
  /\ Building \subseteq Session /\ ExecBound \subseteq Session
  /\ Costs \subseteq [Session -> Nat] /\ Costs # {}
  /\ RACE_LEAD_BOUND_FRAMES \in Nat \ {0}
  /\ TAPE_CAP_FRAMES \in Nat \ {0}
  /\ Infinity \notin Int
  /\ IdleRounds \in BOOLEAN
  /\ {MaxEntries, MaxRound, MaxEpoch, MaxInFlight} \subseteq Nat

VARIABLES
  (* coordinator *)
  epoch, mode, running, scale,
  sequence,            \* the canonical entries
  round,               \* the barrier id
  lastComputedRound,   \* -1 when the grants are to be derived afresh
  sharedIndex,         \* Pace: the entry being authorised
  baseline, cached, shipped,
  acked,               \* proxies: what each session acknowledged
  (* ports *)
  toWorker, toMain,
  (* workers *)
  wEpoch, ready, entries, cursor, busy, executed, playback, drained, limits

coordinator == <<epoch, mode, running, scale, sequence, round,
                 lastComputedRound, sharedIndex, baseline, cached, shipped, acked>>
worker      == <<wEpoch, ready, entries, cursor, busy, executed, playback,
                 drained, limits>>
vars        == <<coordinator, toWorker, toMain, worker>>

-----------------------------------------------------------------------------
(* Entries, grants and messages *)

Larger(a, b)  == IF a >= b THEN a ELSE b
Smaller(a, b) == IF a <= b THEN a ELSE b

Within(p, limit) == limit # Infinity => p <= limit

Entry == [kind : {"churn", "command"}, end : [Session -> Nat]]

\* Tape position of session s once the first n entries of es are executed.
TapeEnd(es, s, n) == IF n = 0 THEN 0 ELSE es[n].end[s]

NewEntry(es, kind, cost) ==
  [kind |-> kind, end |-> [s \in Session |-> TapeEnd(es, s, Len(es)) + cost[s]]]

\* Sequences that ensure(n) may leave; every caller asks for at most one more.
Ensured(es, n) ==
  IF Len(es) < n /\ Len(es) < MaxEntries
  THEN {Append(es, NewEntry(es, "churn", cost)) : cost \in Costs}
  ELSE {es}

\* "rule" names the clause that derived the grant; it is not on the wire and
\* nothing reads it: the properties do.
Grant ==
  [rule : {"none", "pace", "race"}, round : Int, entryLimit : Nat,
   playLimit : Nat, scale : Nat]
    \cup [rule : {"step"}, round : Int, entryLimit : Nat,
          playLimit : {Infinity}, scale : Nat]

NoGrant == [rule |-> "none", round |-> -1, entryLimit |-> 0, playLimit |-> 0,
            scale |-> 0]

Ack == [round : Int, playback : Nat, cursor : Nat, drained : Int]

NothingAcked == [round |-> -1, playback |-> 0, cursor |-> 0, drained |-> -1]

EntriesMsg(e, from, list) ==
  [type |-> "ENTRIES", epoch |-> e, from |-> from, list |-> list]
GrantMsg(e, g) == [type |-> "GRANT", epoch |-> e, grant |-> g]
ResetMsg(e)    == [type |-> "RESET", epoch |-> e]
AckMsg(e, a)   == [type |-> "GRANT_ACK", epoch |-> e, ack |-> a]

ToWorkerMsg ==
  [type : {"ENTRIES"}, epoch : Nat, from : Nat, list : Seq(Entry)]
    \cup [type : {"GRANT"}, epoch : Nat, grant : Grant]
    \cup [type : {"RESET"}, epoch : Nat]
ToMainMsg == [type : {"GRANT_ACK"}, epoch : Nat, ack : Ack]

\* The ENTRIES message that brings a worker from "from" entries to all of es.
Shipment(es, from) ==
  IF from < Len(es)
  THEN <<EntriesMsg(epoch, from, SubSeq(es, from + 1, Len(es)))>>
  ELSE <<>>

PortsFree == \A s \in Session : Len(toWorker[s]) + Len(toMain[s]) < MaxInFlight

\* An unchanged grant is re-sent only to workers that have no mail.
PortsIdle == \A s \in Session : toWorker[s] = <<>>

-----------------------------------------------------------------------------
(* The coordinator *)

chunkNs == scale

\* How far each session's acknowledged playback is past its baseline.
Rel(s) == acked[s].playback - baseline'[s]

\* (fault) the lead of the fastest session is not bounded
UnboundedMax(hi, lo) == hi + chunkNs

\* Race: the leader leads the slowest session by a bounded number of chunks.
BoundedMax(hi, lo) ==
  Larger(Smaller(hi + chunkNs, lo + RACE_LEAD_BOUND_FRAMES * chunkNs), chunkNs)

\* (faults) one entry too many; the last drained step instead of the next one;
\* nothing while paused
SharedStepAndNext(s) == Larger(sharedIndex' + 2, acked[s].cursor)
DrainedStep(s)       == sharedIndex' - 1
FrozenStep(s)        == IF running THEN Larger(sharedIndex' + 1, acked[s].cursor)
                        ELSE acked[s].cursor

\* Pace: the shared step and nothing after it.
SharedStep(s) == Larger(sharedIndex' + 1, acked[s].cursor)

\* The clock-release algebra for one session; hi and lo are the extremes of Rel.
DerivedGrant(s, r, hi, lo, stepLimit) ==
  LET rel == IF mode = "race" THEN BoundedMax(hi, lo) ELSE hi + chunkNs
  IN  [rule |-> IF stepLimit >= 0 THEN "step" ELSE mode,
       round |-> r,
       entryLimit |-> IF stepLimit >= 0 THEN stepLimit
                      ELSE IF mode = "race" THEN Len(sequence')
                      ELSE SharedStep(s),
       playLimit |-> IF stepLimit >= 0 THEN Infinity
                     ELSE Larger(baseline'[s] + rel, acked[s].playback),
       scale |-> scale]

\* Advance the shared index past every step the whole field drained, rebasing
\* the baselines whenever it moves, then generate the step to authorise.
PaceAdvance(es, force) ==
  \E k \in sharedIndex .. Len(es) :
    /\ \E s \in Session : acked[s].drained < k
    /\ k > sharedIndex => \A s \in Session : acked[s].drained >= k - 1
    /\ sharedIndex' = k
    /\ baseline' = IF k > sharedIndex
                   THEN [s \in Session |-> acked[s].playback]
                   ELSE baseline
    /\ sequence' \in Ensured(es, IF running \/ force THEN k + 1 ELSE 0)

FurthestCursor(b) ==
  /\ \E s \in Session : acked[s].cursor = b
  /\ \A s \in Session : acked[s].cursor <= b

\* (fault) the frontier is kept level with the furthest cursor
NoLookahead == 0

RACE_LOOKAHEAD == 1

RaceAdvance(es) ==
  /\ \E b \in 0 .. Len(es) :
       /\ FurthestCursor(b)
       /\ sequence' \in Ensured(es, IF running THEN b + RACE_LOOKAHEAD ELSE 0)
  /\ UNCHANGED <<sharedIndex, baseline>>

computeGrants(r, es, force, stepLimit) ==
  /\ \/ mode = "pace" /\ PaceAdvance(es, force)
     \/ mode = "race" /\ RaceAdvance(es)
  /\ \E hi, lo \in {Rel(s) : s \in Session} :
       /\ \A s \in Session : lo <= Rel(s) /\ Rel(s) <= hi
       /\ cached' = [s \in Session |-> DerivedGrant(s, r, hi, lo, stepLimit)]

\* (fault) the barrier waits for the round before
AllAckedRoundBefore == \A s \in Session : acked[s].round >= round - 1

AllAcked == \A s \in Session : acked[s].round >= round

\* A release is worth a round number of its own: it made or moved something.
Changed(es) ==
  \/ sequence' # es
  \/ <<sharedIndex, baseline>>' # <<sharedIndex, baseline>>
  \/ \E s \in Session : [cached'[s] EXCEPT !.round = cached[s].round] # cached[s]

\* frame(): ship, derive once per round, release the next round when every
\* session acknowledged this one, ship what was generated, grant everyone.
FrameWith(es, force, stepLimit, last) ==
  /\ PortsFree
  /\ \/ /\ last < round
        /\ round' = round
        /\ computeGrants(round, es, force, stepLimit)
     \/ /\ last >= round
        /\ AllAcked
        /\ round < MaxRound
        /\ round' = round + 1
        /\ computeGrants(round + 1, es, force, stepLimit)
        /\ IdleRounds \/ Changed(es)
     \/ /\ last >= round
        /\ AllAcked /\ round < MaxRound =>
             ~IdleRounds /\ computeGrants(round, es, force, stepLimit)
        /\ PortsIdle
        /\ sequence' = es
        /\ UNCHANGED <<round, sharedIndex, baseline, cached>>
  /\ lastComputedRound' = round'
  /\ shipped' = [s \in Session |-> Len(sequence')]
  /\ toWorker' = [s \in Session |->
                    toWorker[s] \o Shipment(es, shipped[s])
                                \o Shipment(sequence', Len(es))
                                \o <<GrantMsg(epoch, cached'[s])>>]
  /\ UNCHANGED <<epoch, mode, running, scale, acked, toMain, worker>>

Frame == FrameWith(sequence, FALSE, -1, lastComputedRound)

\* step(): one nudge.  Pace advances the shared index once even while paused;
\* Race authorises one entry past the furthest cursor, ungated.
Step ==
  \/ /\ mode = "pace"
     /\ FrameWith(sequence, TRUE, -1, -1)
  \/ /\ mode = "race"
     /\ \E b \in 0 .. Len(sequence) :
          /\ FurthestCursor(b)
          /\ b < MaxEntries
          /\ \E es \in Ensured(sequence, b + 1) : FrameWith(es, FALSE, b + 1, -1)

\* setMode(): reseat the baselines.
SetMode(m) ==
  /\ m # mode
  /\ mode' = m
  /\ \/ /\ m = "race"
        /\ \E low \in {acked[s].playback : s \in Session} :
             /\ \A s \in Session : low <= acked[s].playback
             /\ baseline' = [s \in Session |-> low]
        /\ UNCHANGED sharedIndex
     \/ /\ m = "pace"
        /\ \E low \in {acked[s].cursor : s \in Session} :
             /\ \A s \in Session : low <= acked[s].cursor
             /\ sharedIndex' = low
        /\ baseline' = [s \in Session |-> acked[s].playback]
  /\ lastComputedRound' = -1
  /\ UNCHANGED <<epoch, running, scale, sequence, round, cached, shipped, acked,
                 toWorker, toMain, worker>>

SetSpeed(v) ==
  /\ scale' = v
  /\ lastComputedRound' = -1
  /\ UNCHANGED <<epoch, mode, running, sequence, round, sharedIndex, baseline,
                 cached, shipped, acked, toWorker, toMain, worker>>

\* start() and stop() gate the generator and nothing else.
Start ==
  /\ ~running
  /\ running' = TRUE
  /\ UNCHANGED <<epoch, mode, scale, sequence, round, lastComputedRound,
                 sharedIndex, baseline, cached, shipped, acked, toWorker,
                 toMain, worker>>

Stop ==
  /\ running
  /\ running' = FALSE
  /\ UNCHANGED <<epoch, mode, scale, sequence, round, lastComputedRound,
                 sharedIndex, baseline, cached, shipped, acked, toWorker,
                 toMain, worker>>

\* broadcast(): a console command joins the sequence and is shipped at once.
Broadcast ==
  /\ Len(sequence) < MaxEntries
  /\ PortsFree
  /\ \E cost \in Costs :
       sequence' = Append(sequence, NewEntry(sequence, "command", cost))
  /\ shipped' = [s \in Session |-> Len(sequence')]
  /\ toWorker' = [s \in Session |->
                    toWorker[s] \o Shipment(sequence', shipped[s])]
  /\ UNCHANGED <<epoch, mode, running, scale, round, lastComputedRound,
                 sharedIndex, baseline, cached, acked, toMain, worker>>

\* reset(): a new epoch; mode, speed and run state survive.
Reset ==
  /\ epoch < MaxEpoch
  /\ PortsFree
  /\ epoch' = epoch + 1
  /\ round' = 0
  /\ lastComputedRound' = -1
  /\ sharedIndex' = 0
  /\ sequence' = <<>>
  /\ baseline' = [s \in Session |-> 0]
  /\ shipped' = [s \in Session |-> 0]
  /\ cached' = [s \in Session |-> NoGrant]
  /\ acked' = [s \in Session |-> NothingAcked]
  /\ toWorker' = [s \in Session |-> Append(toWorker[s], ResetMsg(epoch'))]
  /\ UNCHANGED <<mode, running, scale, toMain, worker>>

\* (fault) the epoch of an ack is not looked at
OfAnyEpoch(m) == TRUE

\* I5, at the proxy.
OfThisEpoch(m) == m.epoch = epoch

\* The proxy's handler: another epoch's ack is dropped, this one's max-merged.
ReceiveAck(s) ==
  /\ toMain[s] # <<>>
  /\ LET m == Head(toMain[s])
     IN  acked' = IF OfThisEpoch(m)
                  THEN [acked EXCEPT ![s] =
                          [round    |-> Larger(@.round, m.ack.round),
                           playback |-> Larger(@.playback, m.ack.playback),
                           cursor   |-> Larger(@.cursor, m.ack.cursor),
                           drained  |-> Larger(@.drained, m.ack.drained)]]
                  ELSE acked
  /\ toMain' = [toMain EXCEPT ![s] = Tail(@)]
  /\ UNCHANGED <<epoch, mode, running, scale, sequence, round,
                 lastComputedRound, sharedIndex, baseline, cached, shipped,
                 toWorker, worker>>

-----------------------------------------------------------------------------
(* The worker *)

\* pump() goes on to entry j: authorised, shipped, runner built, and the tape
\* executed so far not too far ahead of the playback p (I3).
MayExecute(s, es, g, p, j) ==
  /\ ready'[s]
  /\ j < g.entryLimit
  /\ j < Len(es)
  /\ TapeEnd(es, s, j) - p < TAPE_CAP_FRAMES * g.scale

\* pump(), called with the cursor at "from": it executes churn entries until it
\* may not go on or meets a command, which it starts and leaves in flight.
Pump(s, es, g, p, inFlight, from, n, inFlightAfter) ==
  IF inFlight THEN n = from /\ inFlightAfter
  ELSE /\ from <= n
       /\ \A j \in from .. n - 1 : /\ MayExecute(s, es, g, p, j)
                                   /\ es[j + 1].kind = "churn"
       /\ MayExecute(s, es, g, p, n) => es[n + 1].kind = "command"
       /\ inFlightAfter = MayExecute(s, es, g, p, n)

\* (fault) the marker comes before the tape of its entry
Begun(s, k, p) == TapeEnd(entries[s], s, k) <= p

\* The terminal marker of entry k comes after the whole of its tape.
PlayedOut(s, k, p) == TapeEnd(entries[s], s, k + 1) <= p

\* drain(), with n entries executed and the tape recorded up to x: playback
\* moves on to p and the entries up to d are closed.  It stops at the ceiling or
\* at the end of the tape; an execution-bound session may also run out of
\* MAX_OPS_PER_FRAME steps, anywhere on the tape, but not without any progress.
Drain(s, g, n, x, p, d) ==
  IF /\ x > playback[s] \/ drained[s] < n - 1
     /\ g.playLimit = Infinity \/ g.playLimit > playback[s]
  THEN /\ Within(p, g.playLimit)
       /\ p = playback[s] => d > drained[s]
       /\ \A k \in drained[s] + 1 .. d : PlayedOut(s, k, p)
       /\ \A k \in d + 1 .. n - 1 : p <= TapeEnd(entries[s], s, k + 1)
       /\ s \notin ExecBound =>
            /\ p < x => p = g.playLimit
            /\ d < n - 1 => ~PlayedOut(s, d + 1, p)
  ELSE p = playback[s] /\ d = drained[s]

\* pump(); drain(), which pumps again when it moved; ack().
Serve(s, g, inFlight, from) ==
  \E n, m \in from .. Len(entries[s]), started, inFlightAfter \in BOOLEAN :
    /\ Pump(s, entries[s], g, playback[s], inFlight, from, n, started)
    /\ LET x == IF inFlight THEN executed[s] ELSE TapeEnd(entries[s], s, n)
       IN  \E p \in playback[s] .. x, d \in drained[s] .. n - 1 :
             /\ Drain(s, g, n, x, p, d)
             /\ Pump(s, entries[s], g, p, started, n, m, inFlightAfter)
             /\ playback' = [playback EXCEPT ![s] = p]
             /\ drained' = [drained EXCEPT ![s] = d]
             /\ toMain' = [toMain EXCEPT ![s] =
                  Append(@, AckMsg(wEpoch[s], [round |-> g.round, playback |-> p,
                                               cursor |-> m, drained |-> d]))]
    /\ cursor' = [cursor EXCEPT ![s] = m]
    /\ busy' = [busy EXCEPT ![s] = inFlightAfter]
    /\ executed' = [executed EXCEPT ![s] =
                      IF inFlight THEN @ ELSE TapeEnd(entries[s], s, m)]

\* The head of the worker's queue.  The handlers check its epoch; since ports are
\* FIFO and RESET is on them, no message of another epoch is ever there to be
\* discarded (were there one, the worker would stand still for good).
Receives(s, type) ==
  /\ toWorker[s] # <<>>
  /\ Head(toWorker[s]).type = type
  /\ toWorker' = [toWorker EXCEPT ![s] = Tail(@)]
  /\ UNCHANGED coordinator

\* handleGrant(): every grant is acknowledged on receipt (I10).
HandleGrant(s) ==
  /\ Receives(s, "GRANT")
  /\ Head(toWorker[s]).epoch = wEpoch[s]
  /\ UNCHANGED <<wEpoch, ready, entries>>
  /\ limits' = [limits EXCEPT ![s] = Head(toWorker[s]).grant]
  /\ Serve(s, limits'[s], busy[s], cursor[s])

\* pump() alone, as ENTRIES and the landing of the runner call it: no ack.
PumpOnly(s, es) ==
  \E n \in cursor[s] .. Len(es), inFlightAfter \in BOOLEAN :
    /\ Pump(s, es, limits[s], playback[s], busy[s], cursor[s], n, inFlightAfter)
    /\ cursor' = [cursor EXCEPT ![s] = n]
    /\ busy' = [busy EXCEPT ![s] = inFlightAfter]
    /\ executed' = [executed EXCEPT ![s] =
                      IF busy[s] THEN @ ELSE TapeEnd(es, s, n)]
    /\ UNCHANGED <<wEpoch, playback, drained, limits, toMain>>

\* handleEntries(): an entry is kept only when it is the next one (I6).
HandleEntries(s) ==
  /\ Receives(s, "ENTRIES")
  /\ Head(toWorker[s]).epoch = wEpoch[s]
  /\ LET m    == Head(toWorker[s])
         have == Len(entries[s])
         new  == IF m.from <= have
                 THEN SubSeq(m.list, have - m.from + 1, Len(m.list))
                 ELSE <<>>
     IN  /\ entries' = [entries EXCEPT ![s] = @ \o new]
         /\ UNCHANGED ready
         /\ PumpOnly(s, entries[s] \o new)

\* The runner's asynchronous build lands, for the current generation.
RunnerReady(s) ==
  /\ ~ready[s]
  /\ ready' = [ready EXCEPT ![s] = TRUE]
  /\ PumpOnly(s, entries[s])
  /\ UNCHANGED <<coordinator, toWorker, entries>>

\* (fault) a reset leaves the prefetched entries behind
OldEntries(s) == entries

NoEntries(s) == [entries EXCEPT ![s] = <<>>]

\* handleReset(): the epoch's state is dropped and in-flight work starves; a
\* built runner is reused and an unfinished build is started over.
HandleReset(s) ==
  /\ Receives(s, "RESET")
  /\ wEpoch' = [wEpoch EXCEPT ![s] = Head(toWorker[s]).epoch]
  /\ entries' = NoEntries(s)
  /\ cursor' = [cursor EXCEPT ![s] = 0]
  /\ busy' = [busy EXCEPT ![s] = FALSE]
  /\ executed' = [executed EXCEPT ![s] = 0]
  /\ playback' = [playback EXCEPT ![s] = 0]
  /\ drained' = [drained EXCEPT ![s] = -1]
  /\ limits' = [limits EXCEPT ![s] = NoGrant]
  /\ UNCHANGED <<ready, toMain>>

\* An operation of the command in flight puts its device events on the tape.
CommandOp(s) ==
  /\ busy[s]
  /\ \E x \in executed[s] + 1 .. TapeEnd(entries[s], s, cursor[s] + 1) :
       executed' = [executed EXCEPT ![s] = x]
  /\ UNCHANGED <<coordinator, toWorker, toMain, wEpoch, ready, entries, cursor,
                 busy, playback, drained, limits>>

\* finish(): the command is quiescent; unlike a grant it acks unasked.
CommandQuiesced(s) ==
  /\ busy[s]
  /\ executed[s] = TapeEnd(entries[s], s, cursor[s] + 1)
  /\ UNCHANGED <<coordinator, toWorker, wEpoch, ready, entries, limits>>
  /\ Serve(s, limits[s], FALSE, cursor[s] + 1)

-----------------------------------------------------------------------------
(* Boot: every INIT is handled, no frame has run yet, the user may already   *)
(* have picked a mode, and some runners are still loading.                   *)
Init ==
  /\ epoch = 0
  /\ mode \in Modes
  /\ running = FALSE
  /\ scale = InitScale
  /\ sequence = <<>>
  /\ round = 0
  /\ lastComputedRound = -1
  /\ sharedIndex = 0
  /\ baseline = [s \in Session |-> 0]
  /\ cached = [s \in Session |-> NoGrant]
  /\ shipped = [s \in Session |-> 0]
  /\ acked = [s \in Session |-> NothingAcked]
  /\ toWorker = [s \in Session |-> <<>>]
  /\ toMain = [s \in Session |-> <<>>]
  /\ wEpoch = [s \in Session |-> 0]
  /\ ready = [s \in Session |-> s \notin Building]
  /\ entries = [s \in Session |-> <<>>]
  /\ cursor = [s \in Session |-> 0]
  /\ busy = [s \in Session |-> FALSE]
  /\ executed = [s \in Session |-> 0]
  /\ playback = [s \in Session |-> 0]
  /\ drained = [s \in Session |-> -1]
  /\ limits = [s \in Session |-> NoGrant]

User ==
  \/ "mode"      \in UserOps /\ \E m \in Modes : SetMode(m)
  \/ "speed"     \in UserOps /\ \E v \in Scales : SetSpeed(v)
  \/ "start"     \in UserOps /\ Start
  \/ "stop"      \in UserOps /\ Stop
  \/ "step"      \in UserOps /\ Step
  \/ "broadcast" \in UserOps /\ Broadcast
  \/ "reset"     \in UserOps /\ Reset

Worker(s) ==
  \/ HandleGrant(s)
  \/ HandleEntries(s)
  \/ HandleReset(s)
  \/ RunnerReady(s)
  \/ CommandOp(s)
  \/ CommandQuiesced(s)

Next ==
  \/ User
  \/ Frame
  \/ \E s \in Session : ReceiveAck(s) \/ Worker(s)

Spec == Init /\ [][Next]_vars

\* The frame timer fires, messages arrive, workers run; users owe nothing.
Fairness ==
  /\ WF_vars(Frame)
  /\ \A s \in Session :
       /\ WF_vars(ReceiveAck(s))
       /\ WF_vars(HandleGrant(s) \/ HandleEntries(s) \/ HandleReset(s))
       /\ WF_vars(RunnerReady(s))
       /\ WF_vars(CommandOp(s) \/ CommandQuiesced(s))

FairSpec == Spec /\ Fairness
-----------------------------------------------------------------------------
(* Properties *)

CoordinatorTypeOK ==
  /\ epoch \in Nat
  /\ mode \in {"pace", "race"}
  /\ running \in BOOLEAN
  /\ scale \in Nat
  /\ sequence \in Seq(Entry)
  /\ round \in Nat
  /\ lastComputedRound \in {-1, round}
  /\ sharedIndex \in Nat
  /\ baseline \in [Session -> Nat]
  /\ cached \in [Session -> Grant]
  /\ shipped \in [Session -> Nat]
  /\ acked \in [Session -> Ack]

PortsTypeOK ==
  /\ toWorker \in [Session -> Seq(ToWorkerMsg)]
  /\ toMain \in [Session -> Seq(ToMainMsg)]

WorkerTypeOK ==
  /\ wEpoch \in [Session -> Nat]
  /\ ready \in [Session -> BOOLEAN]
  /\ entries \in [Session -> Seq(Entry)]
  /\ cursor \in [Session -> Nat]
  /\ busy \in [Session -> BOOLEAN]
  /\ executed \in [Session -> Nat]
  /\ playback \in [Session -> Nat]
  /\ drained \in [Session -> Int]
  /\ limits \in [Session -> Grant]

\* Every variable and every message holds a value of its kind: limits and acks
\* are never negative, only a Race step is ungated, and the grants are either
\* of this round or marked stale.
TypeOK == CoordinatorTypeOK /\ PortsTypeOK /\ WorkerTypeOK

\* What session s has done in the coordinator's epoch: nothing, as long as the
\* RESET that opened the epoch is still on its way to the worker.
Current(s)   == wEpoch[s] = epoch
PlayedOf(s)  == IF Current(s) THEN playback[s] ELSE 0
CursorOf(s)  == IF Current(s) THEN cursor[s] ELSE 0
DrainedOf(s) == IF Current(s) THEN drained[s] ELSE -1
RoundOf(s)   == IF Current(s) THEN limits[s].round ELSE -1

\* The grants that may still move session s in this epoch: the one the
\* coordinator re-sends, those on the way, and the one the worker runs under.
GrantsInForce(s) ==
  LET onTheWay == {i \in DOMAIN toWorker[s] : /\ toWorker[s][i].type = "GRANT"
                                              /\ toWorker[s][i].epoch = epoch}
  IN  {cached[s]} \cup {toWorker[s][i].grant : i \in onTheWay}
                  \cup IF Current(s) THEN {limits[s]} ELSE {}

\* I5, I6: a worker in the current epoch holds a prefix of the canonical
\* sequence, however entries, resets and commands crossed on the way.
CanonicalPrefix ==
  \A s \in Session : Current(s) =>
    /\ Len(entries[s]) <= Len(sequence)
    /\ \A i \in 1 .. Len(entries[s]) : entries[s][i] = sequence[i]

\* The proxy's picture of a session is a past state of that session in this
\* epoch: no ack of an earlier epoch leaks into it and nothing is ahead of it.
AckedIsPast ==
  \A s \in Session :
    /\ acked[s].round <= RoundOf(s)
    /\ acked[s].playback <= PlayedOf(s)
    /\ acked[s].cursor <= CursorOf(s)
    /\ acked[s].drained <= DrainedOf(s)

\* Race: a grant in force lets a session play to at most RACE_LEAD_BOUND_FRAMES
\* chunks past what any session has played, or no further than it is already.
RaceWatermark ==
  \A s, t \in Session : \A g \in GrantsInForce(s) :
    g.rule = "race" =>
      g.playLimit <= Larger(PlayedOf(s),
                            PlayedOf(t) + RACE_LEAD_BOUND_FRAMES * g.scale)

\* Pace: a grant in force lets a session execute at most one entry past what
\* any session has executed, or no further than it is already.
PaceJoin ==
  \A s, t \in Session : \A g \in GrantsInForce(s) :
    g.rule = "pace" => g.entryLimit <= Larger(CursorOf(s), CursorOf(t) + 1)

\* What a worker reports as drained has been executed and wholly played, and
\* nothing is played that was not executed.
DrainedWasPlayed ==
  \A s \in Session :
    /\ drained[s] < cursor[s]
    /\ TapeEnd(entries[s], s, drained[s] + 1) <= playback[s]
    /\ playback[s] <= executed[s]

\* Race, over any two steps of the field: whoever plays on under a Race grant
\* ends no further than the bound past every session, whatever mode, speed or
\* step came before.
RaceLead ==
  [][\A s, t \in Session :
       /\ Current(s) /\ epoch' = epoch
       /\ playback'[s] > playback[s]
       /\ limits'[s].rule = "race"
       => playback'[s] <= PlayedOf(t) + RACE_LEAD_BOUND_FRAMES * limits'[s].scale]_vars

\* A console command, once broadcast, is executed and drained by every session
\* even while the field is paused (ADR-0020), unless a reset drops it.  In Pace
\* this holds; in Race it fails, because a paused leader stays pinned at the
\* watermark of a slowest session that has nothing left to play.
BroadcastDrains ==
  \A i \in 1 .. MaxEntries, e \in 0 .. MaxEpoch :
    (epoch = e /\ i <= Len(sequence))
      ~> (epoch # e \/ \A s \in Session : Current(s) /\ drained[s] >= i - 1)

\* A running field keeps producing: it stops short of no entry.
RunGoesOn ==
  (running /\ Len(sequence) < MaxEntries)
    ~> (~running \/ Len(sequence) = MaxEntries)

\* I1, Pace only: whenever the shared index moves on, every worker is standing
\* still at the playback it acknowledged, so the rebased baselines are exact.
RebaseExact ==
  [][sharedIndex' > sharedIndex =>
       \A s \in Session : baseline'[s] = PlayedOf(s)]_vars

\* I2, the barrier: no worker runs under a round that is two ahead of another's.
Barrier == INSTANCE BoundedLead WITH
  Lead <- 1, pos <- [s \in Session |-> RoundOf(s) + 1]
BarrierSpec == Barrier!Spec

\* The join: in Pace nobody executes two entries ahead of anybody.
Join == INSTANCE BoundedLead WITH
  Lead <- 1, pos <- [s \in Session |-> CursorOf(s)]
JoinSpec == Join!Spec

\* The lead cap: in Race, as long as neither step() nor a speed change loosens
\* a grant, nobody plays further than the bound past anybody.
LeadCap == INSTANCE BoundedLead WITH
  Lead <- RACE_LEAD_BOUND_FRAMES * InitScale,
  pos <- [s \in Session |-> PlayedOf(s)]
LeadCapSpec == LeadCap!Spec
=============================================================================
