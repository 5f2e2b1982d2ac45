--------------------------- MODULE SessionWorker ----------------------------
(***************************************************************************)
(* One session worker in full (web/src/session-worker.js), the proxy that  *)
(* reads its acks (web/src/session-proxy.js), and a coordinator that may   *)
(* send whatever web/src/lockstep.js can send.                             *)
(*                                                                         *)
(* Lockstep abstracts the worker's playback queue to positions on a tape,  *)
(* leaves out the prep bracket and format(), and lets a reset starve what  *)
(* is in flight.  Here the queue is a queue of steps, a command is a fiber *)
(* that runs one operation at a time, and a fiber outlives the epoch that  *)
(* started it.  The closure's state is the record w, so that the functions *)
(* of the code (enqueueBatch, pump, drain, ...) are operators from one     *)
(* state of the worker to the next, and a handler composes them.           *)
(***************************************************************************)
EXTENDS Integers, Sequences, SequencesExt, FiniteSets

CONSTANTS
  Plans,               \* the canonical sequences the coordinator may ship
  TAPE_CAP_FRAMES,     \* backpressure, in chunks; a chunk is the scale
  BACKLOG_CAP,         \* backpressure, in queued steps
  MAX_OPS_PER_FRAME,   \* steps begun in one drain
  MaxChunks,           \* bound: how far ahead of an ack a grant may play
  Infinity,            \* the play limit of an ungated Race step
  MaxEpoch,            \* bound: resets
  MaxMail              \* bound: messages in each direction

ASSUME WorkerAssumption ==
  /\ {TAPE_CAP_FRAMES, BACKLOG_CAP, MAX_OPS_PER_FRAME} \subseteq Nat \ {0}
  /\ {MaxChunks, MaxEpoch, MaxMail} \subseteq Nat
  /\ Infinity \notin Int

\* What a canonical sequence is made of.
Operations == [does : {"io", "raw", "throw", "format", "prepOn", "prepOff"}, tape : Seq(Nat)]
Entries    == [kind : {"churn", "command", "garbled", "prepOn", "prepOff"},
               script : Seq(Operations), end : Nat]

ASSUME PlansAssumption == Plans \subseteq Seq(Entries)

VARIABLES
  plan,      \* the canonical sequence of this run
  epoch,     \* the coordinator's epoch
  sent,      \* how much of the plan has been shipped in this epoch
  acked,     \* the proxy's merged picture of the worker
  inbox, outbox,
  w,         \* the worker's closure
  fibers     \* command bodies that have not settled, of any epoch

vars == <<plan, epoch, sent, acked, inbox, outbox, w, fibers>>

-----------------------------------------------------------------------------
(* Entries and the tape *)

\* An operation of a command: flash traffic that counts as a file operation, traffic
\* that does not (gc(), fs.read() and the like, and what mkdir() and ls() do after their
\* first step), one that throws, a format, or the two ends of the prep bracket.
Op(does, tape) == [does |-> does, tape |-> tape]

Total(tape) == SumFunction(tape)

\* The flash time of a script; an operation that throws leaves no tape and ends it.
Duration(script) == SumFunction([j \in DOMAIN script |-> Total(script[j].tape)])

\* A plan from its kinds and scripts; "end" is where an entry ends on the tape.
PlanOf(items) ==
  [i \in DOMAIN items |->
     [kind |-> items[i][1], script |-> items[i][2],
      end  |-> FoldLeft(LAMBDA sum, item : sum + Duration(item[2]), 0,
                        SubSeq(items, 1, i))]]

\* A step of the playback queue; a marker closes its entry and credits its ops.
Step(i, ns)    == [entry |-> i, ns |-> ns, last |-> FALSE, ops |-> 0, started |-> FALSE]
Marker(i, ops) == [entry |-> i, ns |-> 0, last |-> TRUE, ops |-> ops, started |-> FALSE]

\* What a queue has left to play, and the operations it will credit.
Unplayed(queue) == SumFunction([k \in DOMAIN queue |-> queue[k].ns])
Credits(queue)  == SumFunction([k \in DOMAIN queue |-> queue[k].ops])

NoGrant == [rule |-> "none", round |-> -1, entryLimit |-> 0, playLimit |-> 0, scale |-> 0]

Idle == -1   \* no command in flight

\* resetLocalState()
Fresh(e, runner) ==
  [epoch |-> e, runner |-> runner, entries |-> <<>>, cursor |-> 0, drained |-> -1,
   limits |-> NoGrant, playback |-> 0, dispFileOps |-> 0, execFileOps |-> 0,
   entryFileOps |-> 0, prep |-> FALSE, realCmd |-> Idle, parked |-> FALSE,
   queue |-> <<>>, executed |-> 0]

-----------------------------------------------------------------------------
(* The worker's functions *)

\* (fault) the credit of an entry is lost when it is queued
MarkerWithoutCredit(i, ops) == Marker(i, 0)

ClosingMarker(i, ops) == Marker(i, ops)

\* The marker comes after the tape of its entry.
Closed(steps, marker) == steps \o marker

\* (fault) the bracket does not switch metering off
AlwaysMetered(u) == TRUE

Metered(u) == ~u.prep

\* enqueueBatch(): in the prep bracket the batch is played on the spot.
EnqueueBatch(u, i, tape, last, ops) ==
  IF ~Metered(u)
  THEN [u EXCEPT !.playback    = @ + Total(tape),
                 !.drained     = IF last THEN i ELSE @,
                 !.dispFileOps = IF last THEN @ + ops ELSE @]
  ELSE [u EXCEPT !.executed = @ + Total(tape),
                 !.queue    = @ \o Closed([k \in DOMAIN tape |-> Step(i, tape[k])],
                                         IF last THEN <<ClosingMarker(i, ops)>> ELSE <<>>)]

\* (fault) the displayed counters survive the bracket
KeepCounters(u, on) == [u EXCEPT !.prep = on]

\* setPrep(): closing the bracket zeroes the displayed counters.
SetPrep(u, on) ==
  [u EXCEPT !.prep = on, !.dispFileOps = IF on THEN @ ELSE 0]

BumpFileOp(u) == [u EXCEPT !.execFileOps = @ + 1, !.entryFileOps = @ + 1]

\* What counts does so before it touches the flash.
Counts(op)         == op.does # "raw"
CountFileOp(u, op) == IF Counts(op) THEN BumpFileOp(u) ELSE u

\* (fault) execution does not wait for the tape
NeverBackpressured(u) == FALSE

Backpressured(u) ==
  \/ u.executed - u.playback >= TAPE_CAP_FRAMES * u.limits.scale
  \/ Len(u.queue) >= BACKLOG_CAP

\* The device's 'reset' event, which format() raises before its own traffic.
DeviceReset(u) == [u EXCEPT !.queue = <<>>, !.executed = 0]

\* pump() goes round once more.
PumpGoesOn(u) ==
  /\ ~u.parked
  /\ u.cursor < u.limits.entryLimit
  /\ u.cursor < Len(u.entries)
  /\ u.realCmd = Idle
  /\ u.entries[u.cursor + 1].kind \notin {"prepOn", "prepOff"}
       => u.runner /\ (u.prep \/ ~Backpressured(u))

\* execRealEntry(): a write or a delete counts, a gc step is raw, and an event that
\* issues nothing has no script.
ExecEntry(u, i, script) ==
  LET v    == [u EXCEPT !.entryFileOps = 0]
      done == IF script = <<>> THEN v ELSE CountFileOp(v, script[1])
      tape == IF script = <<>> THEN <<>> ELSE script[1].tape
  IN  [EnqueueBatch(done, i, tape, TRUE, done.entryFileOps) EXCEPT !.cursor = i + 1]

\* commit() of the two synthetic commands that the playground sends at boot.
Bracket(u, i, on) == [SetPrep(u, on) EXCEPT !.drained = i, !.cursor = i + 1]

\* One round of pump(): a command is started and left in flight; source that
\* does not compile is closed at once, and either way pump() returns.
PumpOnce(u) ==
  LET i == u.cursor
      e == u.entries[i + 1]
  IN  CASE e.kind = "churn"   -> ExecEntry(u, i, e.script)
        [] e.kind = "command" -> [u EXCEPT !.realCmd = i, !.entryFileOps = 0]
        [] e.kind = "garbled" ->
             [EnqueueBatch([u EXCEPT !.entryFileOps = 0], i, <<>>, TRUE, 0)
                EXCEPT !.cursor = i + 1, !.parked = TRUE]
        [] e.kind = "prepOn"  -> Bracket(u, i, TRUE)
        [] e.kind = "prepOff" -> Bracket(u, i, FALSE)

Pump(u) ==
  LET rounds == Len(u.entries) + 1
      after[n \in 0 .. rounds] ==
        IF n = 0 THEN u
        ELSE IF PumpGoesOn(after[n - 1]) THEN PumpOnce(after[n - 1])
        ELSE after[n - 1]
  IN  [after[rounds] EXCEPT !.parked = FALSE]

\* (fault) a step cut off by the ceiling starts over in the next frame
Restarted(step, played) == [step EXCEPT !.started = TRUE]

\* A step cut off by the ceiling is carried forward.
Carried(step, played) == [step EXCEPT !.ns = @ - played, !.started = TRUE]

\* One metering step with "budget" to spend: the first k steps of the queue are
\* finished, and unless MAX_OPS_PER_FRAME ran out the next one is begun.
Spend(u, budget) ==
  LET q          == u.queue
      begun(k)   == IF k > 0 /\ q[1].started THEN k - 1 ELSE k
      time(k)    == Unplayed(SubSeq(q, 1, k))
      finishes(k) == /\ budget # Infinity => time(k) <= budget
                     /\ begun(k) <= MAX_OPS_PER_FRAME
      k          == CHOOSE n \in 0 .. Len(q) :
                      finishes(n) /\ \A m \in n + 1 .. Len(q) : ~finishes(m)
      begins     == k < Len(q) /\ begun(k) < MAX_OPS_PER_FRAME
      closed     == {n \in 1 .. k : q[n].last}
  IN  [u EXCEPT
         !.playback    = @ + IF begins THEN budget ELSE time(k),
         !.queue       = IF begins
                         THEN <<Carried(q[k + 1], budget - time(k))>> \o SubSeq(q, k + 2, Len(q))
                         ELSE SubSeq(q, k + 1, Len(q)),
         !.drained     = IF closed = {} THEN @ ELSE q[Max(closed)].entry,
         !.dispFileOps = @ + Credits(SubSeq(q, 1, k))]

Budget(u) ==
  IF u.prep \/ u.limits.playLimit = Infinity THEN Infinity
  ELSE u.limits.playLimit - u.playback

\* (fault) the pump is not run again
NotReleased(u) == u

\* What was played released backpressure.
Released(u) == Pump(u)

\* drain()
Drain(u) ==
  IF u.queue = <<>> \/ (Budget(u) # Infinity /\ Budget(u) <= 0) THEN u
  ELSE LET v == Spend(u, Budget(u))
       IN  IF <<v.playback, v.drained>> = <<u.playback, u.drained>> THEN v ELSE Released(v)

AckOf(u) ==
  [epoch |-> u.epoch, round |-> u.limits.round, playback |-> u.playback,
   cursor |-> u.cursor, drained |-> u.drained, fileOps |-> u.dispFileOps]

-----------------------------------------------------------------------------
(* Handlers *)

\* The worker goes on as v; a command that pump() started gets its fiber.
Become(v) ==
  /\ w' = v
  /\ fibers' = IF v.realCmd # Idle /\ v.realCmd # w.realCmd
               THEN fibers \cup {[epoch  |-> v.epoch, index |-> v.realCmd,
                                  script |-> v.entries[v.realCmd + 1].script]}
               ELSE fibers

Receives(type) ==
  /\ inbox # <<>>
  /\ Head(inbox).type = type
  /\ inbox' = Tail(inbox)
  /\ UNCHANGED <<plan, epoch, sent, acked>>

HandleGrant ==
  /\ Receives("GRANT")
  /\ LET v == Drain(Pump([w EXCEPT !.limits = Head(inbox).grant]))
     IN  IF Head(inbox).epoch = w.epoch
         THEN Become(v) /\ outbox' = Append(outbox, AckOf(v))
         ELSE UNCHANGED <<w, fibers, outbox>>

HandleEntries ==
  /\ Receives("ENTRIES")
  /\ IF Head(inbox).epoch = w.epoch /\ Head(inbox).from = Len(w.entries)
     THEN Become(Pump([w EXCEPT !.entries = @ \o Head(inbox).list]))
     ELSE UNCHANGED <<w, fibers>>
  /\ UNCHANGED outbox

\* handleReset(): everything but the runner and the fibers is void.
HandleReset ==
  /\ Receives("RESET")
  /\ w' = Fresh(Head(inbox).epoch, w.runner)
  /\ UNCHANGED <<fibers, outbox>>

RunnerLands ==
  /\ ~w.runner
  /\ Become(Pump([w EXCEPT !.runner = TRUE]))
  /\ UNCHANGED <<plan, epoch, sent, acked, inbox, outbox>>

Resumed(f, script) == (fibers \ {f}) \cup {[f EXCEPT !.script = script]}

\* The next operation of the command in flight.
CommandOp ==
  \E f \in fibers :
    /\ f.epoch = w.epoch
    /\ f.script # <<>>
    /\ LET op == Head(f.script)
       IN  /\ w' = CASE op.does \in {"io", "raw"} ->
                            EnqueueBatch(CountFileOp(w, op), f.index, op.tape, FALSE, 0)
                     [] op.does = "throw"   -> BumpFileOp(w)
                     [] op.does = "format"  -> EnqueueBatch(DeviceReset(BumpFileOp(w)), f.index,
                                                            op.tape, FALSE, 0)
                     [] op.does = "prepOn"  -> SetPrep(w, TRUE)
                     [] op.does = "prepOff" -> SetPrep(w, FALSE)
           /\ fibers' = Resumed(f, IF op.does = "throw" THEN <<>> ELSE Tail(f.script))
    /\ UNCHANGED <<plan, epoch, sent, acked, inbox, outbox>>

\* The timeout of check() finds the body settled: finish().
CommandQuiesced ==
  \E f \in fibers :
    /\ f.epoch = w.epoch
    /\ f.script = <<>>
    /\ LET u == EnqueueBatch(w, f.index, <<>>, TRUE, w.entryFileOps)
           v == Drain(Pump([u EXCEPT !.realCmd = Idle, !.cursor = f.index + 1]))
       IN  /\ w' = v
           /\ fibers' = (fibers \ {f}) \cup
                IF v.realCmd = Idle THEN {}
                ELSE {[epoch  |-> v.epoch, index |-> v.realCmd,
                       script |-> v.entries[v.realCmd + 1].script]}
           /\ outbox' = Append(outbox, AckOf(v))
    /\ UNCHANGED <<plan, epoch, sent, acked, inbox>>

\* (fault) guard() lets a fiber of an earlier epoch through
NotRefused(u, f, op) == EnqueueBatch(CountFileOp(u, op), f.index, op.tape, FALSE, 0)

\* guard() throws, but the operation has counted itself before.
Refused(u, f, op) == CountFileOp(u, op)

\* A fiber of an earlier epoch goes on: setPrep() asks nobody, any other
\* operation counts itself, if it counts, and is then refused by guard().
StaleOp ==
  \E f \in fibers :
    /\ f.epoch # w.epoch
    /\ IF f.script = <<>> THEN UNCHANGED w /\ fibers' = fibers \ {f}
       ELSE LET op == Head(f.script)
            IN  IF op.does \in {"prepOn", "prepOff"}
                THEN /\ w' = SetPrep(w, op.does = "prepOn")
                     /\ fibers' = Resumed(f, Tail(f.script))
                ELSE /\ w' = Refused(w, f, op)
                     /\ fibers' = fibers \ {f}
    /\ UNCHANGED <<plan, epoch, sent, acked, inbox, outbox>>

-----------------------------------------------------------------------------
(* The coordinator and the proxy *)

Post(m) ==
  /\ Len(inbox) < MaxMail
  /\ inbox' = Append(inbox, m)
  /\ UNCHANGED <<plan, outbox, w, fibers>>

SendEntries ==
  /\ sent < Len(plan)
  /\ sent' = sent + 1
  /\ Post([type |-> "ENTRIES", epoch |-> epoch, from |-> sent,
           list |-> <<plan[sent + 1]>>])
  /\ UNCHANGED <<epoch, acked>>

\* A grant never takes back what the session acknowledged.
SendGrant ==
  /\ Len(outbox) < MaxMail
  /\ \E limit \in acked.cursor .. sent, ahead \in 0 .. MaxChunks, ungated \in BOOLEAN :
       /\ ungated => ahead = 0
       /\ Post([type |-> "GRANT", epoch |-> epoch,
                grant |-> [rule |-> IF ungated THEN "step" ELSE "race", round |-> 0,
                           entryLimit |-> limit,
                           playLimit |-> IF ungated THEN Infinity ELSE acked.playback + ahead,
                           scale |-> 1]])
  /\ UNCHANGED <<epoch, sent, acked>>

NothingAcked ==
  [round |-> -1, playback |-> 0, cursor |-> 0, drained |-> -1, fileOps |-> 0]

SendReset ==
  /\ epoch < MaxEpoch
  /\ epoch' = epoch + 1
  /\ sent' = 0
  /\ acked' = NothingAcked
  /\ Post([type |-> "RESET", epoch |-> epoch'])

MaxMerge(a, m) ==
  LET larger(x, y) == IF x >= y THEN x ELSE y
  IN  [field \in DOMAIN a |-> larger(a[field], m[field])]

ReceiveAck ==
  /\ outbox # <<>>
  /\ acked' = IF Head(outbox).epoch = epoch THEN MaxMerge(acked, Head(outbox)) ELSE acked
  /\ outbox' = Tail(outbox)
  /\ UNCHANGED <<plan, epoch, sent, inbox, w, fibers>>

-----------------------------------------------------------------------------
Init ==
  /\ plan \in Plans
  /\ epoch = 0
  /\ sent = 0
  /\ acked = NothingAcked
  /\ inbox = <<>>
  /\ outbox = <<>>
  /\ \E runner \in BOOLEAN : w = Fresh(0, runner)
  /\ fibers = {}

Worker ==
  \/ HandleGrant
  \/ HandleEntries
  \/ HandleReset
  \/ RunnerLands
  \/ CommandOp
  \/ CommandQuiesced
  \/ StaleOp

Coordinator == SendEntries \/ SendGrant \/ SendReset \/ ReceiveAck

Next == Worker \/ Coordinator

Spec == Init /\ [][Next]_vars
-----------------------------------------------------------------------------
(* Properties *)

\* The queue holds, in order and after the tape of each, the markers of exactly
\* the entries that are executed and not drained; what is left of it is what was
\* executed and not played.  (As long as no bracket or format cuts the tape.)
TapeInOrder ==
  /\ {w.queue[k].entry : k \in {l \in DOMAIN w.queue : w.queue[l].last}}
       = w.drained + 1 .. w.cursor - 1
  /\ \A k, l \in DOMAIN w.queue :
       k < l => /\ w.queue[k].entry <= w.queue[l].entry
                /\ w.queue[k].last => w.queue[k].entry < w.queue[l].entry
  /\ Unplayed(w.queue) = w.executed - w.playback

\* Every file operation that ran is displayed, or waits on the tape for its entry
\* to be played, or belongs to the command in flight: none is lost or counted twice.
OpsConserved ==
  LET flying == IF w.realCmd = Idle THEN 0 ELSE w.entryFileOps
  IN  w.dispFileOps + Credits(w.queue) + flying = w.execFileOps

\* I3: an entry is begun only while what is executed and not played is below both
\* caps, so without the newest entry's steps the queue is below them for good.
TapeIsBounded ==
  \A k \in DOMAIN w.queue : w.queue[k].entry < Last(w.queue).entry =>
    /\ Unplayed(SubSeq(w.queue, 1, k)) < TAPE_CAP_FRAMES
    /\ k < BACKLOG_CAP

\* The boot bracket is instant: what runs between its two ends never waits on the tape.
BracketIsInstant ==
  \A on, off \in DOMAIN plan : plan[on].kind = "prepOn" /\ plan[off].kind = "prepOff" =>
    \A k \in DOMAIN w.queue : w.queue[k].entry + 1 \notin on .. off

\* The file operations among the entries after j that are drained up to d.
IsFileOp(e)       == e.script # <<>> /\ Counts(e.script[1])
FileOpsPast(j, d) == Cardinality({i \in j + 1 .. d + 1 : IsFileOp(plan[i])})

\* What boot did is never added to what the page displays, the proxy's maximum of the
\* acked counters (section 9): once the end of the bracket is acked, the displayed count
\* moves only to be exactly the number of later file operations that were played.  (Up to
\* then it may stand at what an ack of the open bracket carried: prep(false) zeroes the
\* worker's counter, and the maximum keeps the old one.)
BootIsNotAdded ==
  [][\A j \in DOMAIN plan :
       /\ plan[j].kind = "prepOff"
       /\ acked'.cursor >= j
       /\ acked'.fileOps # acked.fileOps
       => acked'.fileOps = FileOpsPast(j, acked'.drained)]_acked

\* I5: the tape is of this epoch, whatever a fiber of an earlier one still does.
TapeIsOfTheEpoch == \A k \in DOMAIN w.queue : w.queue[k].entry < Len(w.entries)

\* Lockstep's worker, of which the queue, the fibers and the counters are not seen.
OnTheField == "worker"
OnField(x) == [s \in {OnTheField} |-> x]
Abstract(list) ==
  [i \in DOMAIN list |-> [kind |-> list[i].kind, end |-> OnField(list[i].end)]]
Seen(m) ==
  IF m.type = "ENTRIES"
  THEN [type |-> "ENTRIES", epoch |-> m.epoch, from |-> m.from, list |-> Abstract(m.list)]
  ELSE m
SeenAck(a) ==
  [type |-> "GRANT_ACK", epoch |-> a.epoch,
   ack |-> [round |-> a.round, playback |-> a.playback, cursor |-> a.cursor,
            drained |-> a.drained]]
SeenMail(box) == [i \in DOMAIN box |-> Seen(box[i])]
SeenAcks(box) == [i \in DOMAIN box |-> SeenAck(box[i])]
Field == INSTANCE Lockstep WITH
  Session <- {OnTheField}, Modes <- {"race"}, InitScale <- 1, Scales <- {1},
  UserOps <- {}, Building <- {}, ExecBound <- {OnTheField}, Costs <- {},
  RACE_LEAD_BOUND_FRAMES <- 2, MaxEntries <- 0, MaxRound <- 0, IdleRounds <- FALSE,
  MaxInFlight <- MaxMail,
  mode <- "race", running <- TRUE, scale <- 1, sequence <- <<>>, round <- 0,
  lastComputedRound <- 0, sharedIndex <- 0, baseline <- <<>>, cached <- <<>>,
  shipped <- <<>>, acked <- <<>>, epoch <- 0,
  toWorker <- OnField(SeenMail(inbox)),
  toMain <- OnField(SeenAcks(outbox)),
  wEpoch <- OnField(w.epoch),
  ready <- OnField(w.runner),
  entries <- OnField(Abstract(w.entries)),
  cursor <- OnField(w.cursor),
  busy <- OnField(w.realCmd # Idle),
  executed <- OnField(w.executed),
  playback <- OnField(w.playback),
  drained <- OnField(w.drained),
  limits <- OnField(w.limits)

\* The steps that an entry queues as it is closed; a command has queued its tape before.
ClosingSteps(e) ==
  IF e.kind = "churn" /\ e.script # <<>> THEN Len(e.script[1].tape) + 1 ELSE 1

\* This step never fills the queue up to BACKLOG_CAP.
RoomInBacklog ==
  Len(w.queue) + SumFunction([i \in w.cursor + 1 .. w'.cursor |-> ClosingSteps(w'.entries[i])])
    < BACKLOG_CAP

\* The worker implements Lockstep's: every step of it is one of Worker's there or
\* changes nothing that is seen, as long as the source compiles and the queue stays
\* below BACKLOG_CAP: Lockstep has neither.  (Nor has it brackets and formats.)
ImplementsFieldWorker ==
  [][(\A i \in DOMAIN plan : plan[i].kind # "garbled") /\ RoomInBacklog
       => Field!Worker(OnTheField) \/ Coordinator]_<<Field!worker, outbox>>
=============================================================================
