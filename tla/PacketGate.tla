----------------------------- MODULE PacketGate -----------------------------
(***************************************************************************)
(* The packet side of LiveDetectionPipeline (src/detection/                *)
(* live_pipeline.py): ML is run only on rows whose source the rule layer   *)
(* has flagged, and rows seen too early wait in a short bounded queue.     *)
(*                                                                         *)
(* Two kinds of threads meet here without a lock:                          *)
(*   - the worker runs _process_features for every batch of Zeek rows;     *)
(*   - packet threads run process_packet_features for every batch of       *)
(*     completed packet flows (the capture's monitor, and stop()'s flush). *)
(* One action below is one access to the shared attributes                 *)
(* _flagged_sources and _pending_packet_features, in program order.        *)
(*                                                                         *)
(* Every row is queued at most once, so a Python list of (created_at,      *)
(* frame) pairs is the set of its rows, with queuedAt (created_at) and     *)
(* place (its frame's position in append order) kept beside it. A frame is *)
(* the set of rows of one place.                                           *)
(***************************************************************************)
EXTENDS Naturals, FiniteSets

CONSTANTS
  Rows,           \* packet-flow rows that may complete
  Sources,        \* source IPs
  SrcOf,          \* the source IP of each row
  PacketThreads,  \* threads that call process_packet_features
  MaxRows,        \* _pending_packet_max_rows
  TTL,            \* _pending_packet_ttl_seconds
  Overlap,        \* TRUE: handlers interleave; FALSE: one ends before another begins
  CleanStop,      \* TRUE: stop() joined every thread before the next start()
  MaxTime,        \* bound: last value of the clock
  MaxBatches,     \* bound: Zeek batches
  MaxSessions     \* bound: start() calls

ASSUME RowAssumption    == SrcOf \in [Rows -> Sources] /\ IsFiniteSet(Rows)
ASSUME LimitAssumption  == MaxRows \in Nat /\ TTL \in Nat
ASSUME BoundAssumption  == MaxTime \in Nat /\ MaxBatches \in Nat /\ MaxSessions \in Nat
ASSUME SwitchAssumption == Overlap \in BOOLEAN /\ CleanStop \in BOOLEAN

VARIABLES
  now,        \* time.monotonic()
  session,    \* number of the current start()
  flagged,    \* _flagged_sources
  pending,    \* rows of the list _pending_packet_features refers to
  queuedAt,   \* created_at of a queued row
  place,      \* append order of a queued row's frame
  appends,    \* number of appends so far
  worker,     \* the worker's position and locals
  packet,     \* each packet thread's position and locals
  batches,    \* Zeek batches processed
  seenIn,     \* history: session in which a row completed, 0 before
  ruled,      \* history: sources the rule layer named in this session
  scored,     \* history: how often a row was scored
  released    \* history: rows dropped on purpose (TTL, bound, reset, model error)

shared  == <<flagged, pending, queuedAt, place, appends>>
history == <<seenIn, ruled, scored, released>>
vars    == <<now, session, shared, worker, packet, batches, history>>

WorkerPcs == {"idle", "flush", "expire", "assignFresh", "begin", "iterate",
              "score", "keep", "assignKept"}
PacketPcs == {"idle", "expire", "assignFresh", "score", "mask", "queue",
              "queueFresh", "append", "sum", "trim", "pop"}

(* The locals of a thread inside its handler. *)
WorkerLocals == [pc : WorkerPcs, fresh : SUBSET Rows, list : SUBSET Rows, same : BOOLEAN,
                 index : Nat, frame : SUBSET Rows, kept : SUBSET Rows]
PacketLocals == [pc : PacketPcs, rows : SUBSET Rows, fresh : SUBSET Rows, total : Nat]

IdleWorker == [pc |-> "idle", fresh |-> {}, list |-> {}, same |-> FALSE,
               index |-> 0, frame |-> {}, kept |-> {}]
IdlePacket == [pc |-> "idle", rows |-> {}, fresh |-> {}, total |-> 0]

Init ==
  /\ now = 0 /\ session = 1 /\ batches = 0 /\ appends = 0
  /\ flagged = {} /\ pending = {} /\ ruled = {} /\ released = {}
  /\ queuedAt = [r \in Rows |-> 0]
  /\ place    = [r \in Rows |-> 0]
  /\ seenIn   = [r \in Rows |-> 0]
  /\ scored   = [r \in Rows |-> 0]
  /\ worker = IdleWorker
  /\ packet = [t \in PacketThreads |-> IdlePacket]

Quiet == worker.pc = "idle" /\ \A t \in PacketThreads : packet[t].pc = "idle"

(* A handler may begin beside others only where handlers overlap. *)
MayEnter == Overlap \/ Quiet

OfFlagged(rows) == {r \in rows : SrcOf[r] \in flagged}
Fresh(rows)     == {r \in rows : queuedAt[r] + TTL >= now}

(* Mutants of StillWaiting: rows left out are lost, all rows stay queued. *)
StillWaitingNone(rows) == {}
StillWaitingAll(rows)  == rows

(* The rows that go on waiting, by the flagged set of this moment. *)
StillWaiting(rows) == rows \ OfFlagged(rows)

(* Rows of the frame at a 0-based index of a list, {} past its end. *)
FrameAt(rows, index) ==
  {r \in rows : Cardinality({place[q] : q \in {q \in rows : place[q] < place[r]}}) = index}

(* list.pop(0) takes the frame at index 0. *)
Oldest(rows) == FrameAt(rows, 0)

(* The list object the worker's for loop walks: the attribute's own list   *)
(* until another thread rebinds the attribute.                             *)
Walked == IF worker.same THEN pending ELSE worker.list

(* The attribute is rebound to a new list: a loop over the old list keeps it. *)
Detached == [worker EXCEPT !.list = Walked, !.same = FALSE]

(* _emit_scored_ml: every row of the frame is predicted and scored, or the *)
(* model fails and one ml_inference_error stands for all of them.          *)
Score(rows) ==
  \/ /\ scored' = [r \in Rows |-> IF r \in rows THEN scored[r] + 1 ELSE scored[r]]
     /\ UNCHANGED released
  \/ /\ rows # {}
     /\ released' = released \cup rows
     /\ UNCHANGED scored

-----------------------------------------------------------------------------
(* The worker: _process_features                                           *)

WorkerAt(pc) == worker.pc = pc

(* rule_detector.process and _remember_flagged_sources: a batch flags any  *)
(* set of sources.                                                         *)
RuleBatch ==
  /\ WorkerAt("idle") /\ MayEnter
  /\ batches < MaxBatches
  /\ batches' = batches + 1
  /\ \E named \in SUBSET Sources :
       /\ flagged' = flagged \cup named
       /\ ruled' = ruled \cup named
  /\ worker' = [worker EXCEPT !.pc = "flush"]
  /\ UNCHANGED <<now, session, pending, queuedAt, place, appends, packet,
                 seenIn, scored, released>>

(* _flush_pending_for_flagged_sources, the early return. *)
FlushNothing ==
  /\ WorkerAt("flush")
  /\ pending = {} \/ flagged = {}
  /\ worker' = IdleWorker
  /\ UNCHANGED <<now, session, shared, packet, batches, history>>

FlushSome ==
  /\ WorkerAt("flush")
  /\ pending # {} /\ flagged # {}
  /\ worker' = [worker EXCEPT !.pc = "expire"]
  /\ UNCHANGED <<now, session, shared, packet, batches, history>>

(* _expire_pending_packet_features evaluates its comprehension ... *)
WorkerExpire ==
  /\ WorkerAt("expire")
  /\ worker' = [worker EXCEPT !.pc = "assignFresh", !.fresh = Fresh(pending)]
  /\ released' = released \cup (pending \ Fresh(pending))
  /\ UNCHANGED <<now, session, shared, packet, batches, seenIn, ruled, scored>>

(* ... and then rebinds the attribute to it. *)
WorkerAssignFresh ==
  /\ WorkerAt("assignFresh")
  /\ pending' = worker.fresh
  /\ worker' = [worker EXCEPT !.pc = "begin", !.fresh = {}]
  /\ UNCHANGED <<now, session, flagged, queuedAt, place, appends, packet, batches, history>>

(* The for loop takes the list the attribute refers to now. *)
WorkerBegin ==
  /\ WorkerAt("begin")
  /\ worker' = [worker EXCEPT !.pc = "iterate", !.same = TRUE, !.list = {},
                              !.index = 0, !.kept = {}]
  /\ UNCHANGED <<now, session, shared, packet, batches, history>>

(* Mutant of WorkerNextFrame: the loop does not advance. *)
WorkerNextFrameStays ==
  /\ WorkerAt("iterate")
  /\ FrameAt(Walked, worker.index) # {}
  /\ worker' = [worker EXCEPT !.pc = "score", !.frame = FrameAt(Walked, worker.index)]
  /\ UNCHANGED <<now, session, shared, packet, batches, history>>

WorkerNextFrame ==
  /\ WorkerAt("iterate")
  /\ FrameAt(Walked, worker.index) # {}
  /\ worker' = [worker EXCEPT !.pc = "score", !.index = @ + 1,
                              !.frame = FrameAt(Walked, worker.index)]
  /\ UNCHANGED <<now, session, shared, packet, batches, history>>

WorkerScore ==
  /\ WorkerAt("score")
  /\ Score(OfFlagged(worker.frame))
  /\ worker' = [worker EXCEPT !.pc = "keep"]
  /\ UNCHANGED <<now, session, shared, packet, batches, seenIn, ruled>>

(* The flagged set is read again for the rows that stay in the queue. *)
WorkerKeep ==
  /\ WorkerAt("keep")
  /\ worker' = [worker EXCEPT !.pc = "iterate", !.frame = {},
                              !.kept = @ \cup StillWaiting(worker.frame)]
  /\ UNCHANGED <<now, session, shared, packet, batches, history>>

WorkerLastFrame ==
  /\ WorkerAt("iterate")
  /\ FrameAt(Walked, worker.index) = {}
  /\ worker' = [worker EXCEPT !.pc = "assignKept"]
  /\ UNCHANGED <<now, session, shared, packet, batches, history>>

(* Mutant of WorkerAssignKept: the replayed rows stay queued. *)
WorkerAssignKeptForgets ==
  /\ WorkerAt("assignKept")
  /\ worker' = IdleWorker
  /\ UNCHANGED <<now, session, shared, packet, batches, history>>

(* self._pending_packet_features = remaining. The rule events themselves   *)
(* are then deduplicated and emitted (module AlertDedup).                  *)
WorkerAssignKept ==
  /\ WorkerAt("assignKept")
  /\ pending' = worker.kept
  /\ worker' = IdleWorker
  /\ UNCHANGED <<now, session, flagged, queuedAt, place, appends, packet, batches, history>>

-----------------------------------------------------------------------------
(* A packet thread: process_packet_features                                *)

PacketAt(t, pc) == packet[t].pc = pc
PacketGoes(t, next) == packet' = [packet EXCEPT ![t] = next]

PacketBatch(t) ==
  /\ PacketAt(t, "idle") /\ MayEnter
  /\ \E rows \in SUBSET {r \in Rows : seenIn[r] = 0} :
       /\ rows # {}
       /\ seenIn' = [r \in Rows |-> IF r \in rows THEN session ELSE seenIn[r]]
       /\ PacketGoes(t, [packet[t] EXCEPT !.pc = "expire", !.rows = rows])
  /\ UNCHANGED <<now, session, shared, worker, batches, ruled, scored, released>>

(* _expire_pending_packet_features, on arrival and again when queueing. *)
PacketExpire(t, from, to) ==
  /\ PacketAt(t, from)
  /\ PacketGoes(t, [packet[t] EXCEPT !.pc = to, !.fresh = Fresh(pending)])
  /\ released' = released \cup (pending \ Fresh(pending))
  /\ UNCHANGED <<now, session, flagged, pending, place, appends, worker, batches,
                 seenIn, ruled, scored>>

PacketAssign(t, from, to) ==
  /\ PacketAt(t, from)
  /\ pending' = packet[t].fresh
  /\ worker' = Detached
  /\ PacketGoes(t, [packet[t] EXCEPT !.pc = to, !.fresh = {}])
  /\ UNCHANGED <<now, session, flagged, queuedAt, place, appends, batches, history>>

PacketArrive(t)       == PacketExpire(t, "expire", "assignFresh") /\ UNCHANGED queuedAt
PacketAssignFresh(t)  == PacketAssign(t, "assignFresh", "score")
PacketAssignQueue(t)  == PacketAssign(t, "queueFresh", "append")

(* The first read of _flagged_sources picks the rows to score now ... *)
PacketScore(t) ==
  /\ PacketAt(t, "score")
  /\ Score(OfFlagged(packet[t].rows))
  /\ PacketGoes(t, [packet[t] EXCEPT !.pc = "mask"])
  /\ UNCHANGED <<now, session, shared, worker, batches, seenIn, ruled>>

(* ... a second read, after the models ran, picks the rows to queue. *)
PacketMask(t) ==
  /\ PacketAt(t, "mask")
  /\ LET late == StillWaiting(packet[t].rows)
     IN  PacketGoes(t, IF late = {} THEN IdlePacket
                       ELSE [packet[t] EXCEPT !.pc = "queue", !.rows = late])
  /\ UNCHANGED <<now, session, shared, worker, batches, history>>

(* _queue_pending_packet_features reads the clock once, for created_at and *)
(* for the expiry that precedes the append.                                *)
PacketQueue(t) ==
  /\ PacketExpire(t, "queue", "queueFresh")
  /\ queuedAt' = [r \in Rows |-> IF r \in packet[t].rows THEN now ELSE queuedAt[r]]

(* list.append changes the list in place: a running loop sees the frame. *)
PacketAppend(t) ==
  /\ PacketAt(t, "append")
  /\ pending' = pending \cup packet[t].rows
  /\ appends' = appends + 1
  /\ place' = [r \in Rows |-> IF r \in packet[t].rows THEN appends + 1 ELSE place[r]]
  /\ PacketGoes(t, [packet[t] EXCEPT !.pc = "sum", !.rows = {}])
  /\ UNCHANGED <<now, session, flagged, queuedAt, worker, batches, history>>

PacketSum(t) ==
  /\ PacketAt(t, "sum")
  /\ PacketGoes(t, [packet[t] EXCEPT !.pc = "trim", !.total = Cardinality(pending)])
  /\ UNCHANGED <<now, session, shared, worker, batches, history>>

(* Mutant of PacketTrim: one row too many stays. *)
PacketTrimLate(t) ==
  /\ PacketAt(t, "trim")
  /\ PacketGoes(t, IF packet[t].total > MaxRows + 1 /\ pending # {}
                   THEN [packet[t] EXCEPT !.pc = "pop"] ELSE IdlePacket)
  /\ UNCHANGED <<now, session, shared, worker, batches, history>>

(* while total > max_rows and the list is not empty ... *)
PacketTrim(t) ==
  /\ PacketAt(t, "trim")
  /\ PacketGoes(t, IF packet[t].total > MaxRows /\ pending # {}
                   THEN [packet[t] EXCEPT !.pc = "pop"] ELSE IdlePacket)
  /\ UNCHANGED <<now, session, shared, worker, batches, history>>

(* ... the oldest frame is popped, in place. A total that another thread   *)
(* made stale may fall below 0 in the code; it ends the loop as 0 does.    *)
PacketPop(t) ==
  /\ PacketAt(t, "pop")
  /\ pending # {}
  /\ pending' = pending \ Oldest(pending)
  /\ released' = released \cup Oldest(pending)
  /\ PacketGoes(t, [packet[t] EXCEPT !.pc = "trim",
                      !.total = IF @ > Cardinality(Oldest(pending))
                                THEN @ - Cardinality(Oldest(pending)) ELSE 0])
  /\ UNCHANGED <<now, session, flagged, queuedAt, place, appends, worker, batches,
                 seenIn, ruled, scored>>

(* The list was emptied since the test: pop raises IndexError, which       *)
(* LiveMonitoringService._on_packet_flows turns into self.error.           *)
PacketPopFails(t) ==
  /\ PacketAt(t, "pop")
  /\ pending = {}
  /\ PacketGoes(t, IdlePacket)
  /\ UNCHANGED <<now, session, shared, worker, batches, history>>

-----------------------------------------------------------------------------
(* Mutant of Reset: the flags survive. *)
ResetKeepsFlags ==
  /\ session < MaxSessions
  /\ CleanStop => Quiet
  /\ session' = session + 1
  /\ ruled' = {}
  /\ released' = released \cup pending
  /\ pending' = {}
  /\ UNCHANGED <<now, flagged, queuedAt, place, appends, worker, packet, batches,
                 seenIn, scored>>

(* LiveDetectionPipeline.reset, called by start(). Both collections are    *)
(* cleared in place.                                                       *)
Reset ==
  /\ session < MaxSessions
  /\ CleanStop => Quiet
  /\ session' = session + 1
  /\ flagged' = {} /\ ruled' = {}
  /\ released' = released \cup pending
  /\ pending' = {}
  /\ UNCHANGED <<now, queuedAt, place, appends, worker, packet, batches, seenIn, scored>>

Tick ==
  /\ now < MaxTime
  /\ now' = now + 1
  /\ UNCHANGED <<session, shared, worker, packet, batches, history>>

WorkerStep ==
  \/ FlushNothing \/ FlushSome \/ WorkerExpire \/ WorkerAssignFresh \/ WorkerBegin
  \/ WorkerNextFrame \/ WorkerScore \/ WorkerKeep \/ WorkerLastFrame \/ WorkerAssignKept

PacketStep(t) ==
  \/ PacketArrive(t) \/ PacketAssignFresh(t) \/ PacketScore(t) \/ PacketMask(t)
  \/ PacketQueue(t) \/ PacketAssignQueue(t) \/ PacketAppend(t) \/ PacketSum(t)
  \/ PacketTrim(t) \/ PacketPop(t) \/ PacketPopFails(t)

Next ==
  \/ RuleBatch \/ WorkerStep
  \/ \E t \in PacketThreads : PacketBatch(t) \/ PacketStep(t)
  \/ Reset \/ Tick

Spec == Init /\ [][Next]_vars

(* Threads that are inside a handler keep running. *)
FairSpec == Spec /\ WF_vars(WorkerStep) /\ \A t \in PacketThreads : WF_vars(PacketStep(t))

-----------------------------------------------------------------------------
(* Invariants                                                              *)

(* Every variable keeps the shape its attribute or local has in the code. *)
TypeOK ==
  /\ now \in Nat /\ session \in Nat /\ batches \in Nat /\ appends \in Nat
  /\ flagged \subseteq Sources /\ ruled \subseteq Sources
  /\ pending \subseteq Rows /\ released \subseteq Rows
  /\ queuedAt \in [Rows -> Nat] /\ place \in [Rows -> Nat]
  /\ seenIn \in [Rows -> Nat] /\ scored \in [Rows -> Nat]
  /\ worker \in WorkerLocals
  /\ packet \in [PacketThreads -> PacketLocals]

(* "a packet seen before its source is flagged is not silently discarded"  *)
(* (live_pipeline.py:36-38): once no handler runs, every row that          *)
(* completed has been scored, still waits, or was dropped for a stated     *)
(* reason: its age, the queue bound, a reset or a reported model error.    *)
NotSilentlyDiscarded ==
  Quiet => \A r \in Rows : seenIn[r] # 0 =>
             scored[r] > 0 \/ r \in pending \/ r \in released

(* A row waits only while its source is unflagged: once no handler runs,   *)
(* every queued row of a flagged source has been replayed                  *)
(* (process_packet_features, live_pipeline.py:217-218).                    *)
FlaggedRowsReplayed ==
  Quiet => \A r \in pending : SrcOf[r] \notin flagged

(* A row has one fate. Neither a replay nor an arrival puts it through the  *)
(* models twice, a row that was scored does not go on waiting for another  *)
(* replay, and one that was dropped for its age, the bound or a reset is     *)
(* never scored all the same.                                              *)
OneFate ==
  /\ \A r \in Rows : scored[r] <= 1
  /\ Quiet => \A r \in pending : scored[r] = 0
  /\ \A r \in released : scored[r] = 0

(* The queue is "short, bounded" (live_pipeline.py:36-37) whenever no      *)
(* handler runs.                                                           *)
QueueBounded ==
  Quiet => Cardinality(pending) <= MaxRows

-----------------------------------------------------------------------------
(* Action and temporal properties                                          *)

(* The gate (live_pipeline.py:20-21, 207-208): the models judge a row only *)
(* after the rule layer named its source, in the monitoring session the    *)
(* row was captured in; a flag or a row of an earlier session never leads  *)
(* to a score in a later one.                                              *)
ScoresOnlyRuled ==
  \A r \in Rows : scored'[r] > scored[r] => SrcOf[r] \in ruled /\ seenIn[r] = session
GateHolds == [][ScoresOnlyRuled]_vars

(* Rows that lie in the queue or with the thread they came to, and have not  *)
(* been judged or given up.                                                *)
InHand ==
  {r \in pending \cup UNION {packet[t].rows : t \in PacketThreads} :
     scored[r] = 0 /\ r \notin released}

(* With handlers in turn the pipeline keeps its promise to each row at       *)
(* every step (live_pipeline.py:36-38): no assignment, expiry, pop or reset  *)
(* drops a row unaccounted, and no row comes back that was judged or given  *)
(* up.                                                                     *)
Life == INSTANCE RowLife WITH completed <- {r \in Rows : seenIn[r] # 0},
                              waiting   <- InHand,
                              judged    <- {r \in Rows : scored[r] > 0},
                              givenUp   <- released
KeepsRows == Life!LifeSpec

(* Every handler returns, although another thread may extend, shorten or   *)
(* replace the list that its loops test and walk.                          *)
HandlersReturn ==
  /\ worker.pc # "idle" ~> worker.pc = "idle"
  /\ \A t \in PacketThreads : packet[t].pc # "idle" ~> packet[t].pc = "idle"
=============================================================================
