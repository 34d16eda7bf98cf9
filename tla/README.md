# Formal model of AI Unidirectional Threat Detection

TLA+ modules, TLC runs and TLAPS proofs about this repository: a launcher brings
up a backend and a dashboard; the backend starts a Zeek sensor and a packet
capture; rule detectors flag sources, machine-learning models judge the packet
flows of flagged sources only, and a user may block a judged source on the host
firewall; events go to websocket clients, and the dashboard shows Zeek's log and
answers questions about it.

Paths are relative to the repository; line numbers are those of the modelled
commit. `PROJECT.json` maps every definition to the lines it stands for.

## The system

| Component | State | Operations | Talks to |
|---|---|---|---|
| `LiveDetectionPipeline` (`src/detection/live_pipeline.py`) | `_flagged_sources`, `_pending_packet_features` | `_process_features`, `process_packet_features`, `reset` | called by the Zeek worker and by packet threads, **no lock**; emits events through a callback |
| `LiveThreatDetector` (`src/detection/live_detector.py`) | `_history`, `_row_count` | `process`, `reset` | called by the pipeline on the worker |
| `AlertDeduplicator` (`src/detection/alert_dedup.py`) | `_last_seen` | `is_duplicate` | called by the pipeline on the worker |
| detectors (`src/detection/*.py`) | none | `detect_*`, `run_rule_detectors` | live: the worker; offline: dashboard and `/api/analyze` |
| `threat_score.py` | none | `calculate_threat_score`, `calculate_threat_evidence` | called after every batch of predictions |
| `LiveMonitoringService` (`backend/live_service.py`) | `worker`, `packet_capture`, `stop_event`, `latest_ml` | `start`, `stop`, `status`, `confirm_response`, `_on_event` | event loop, pool threads, worker, packet threads |
| `HostFirewall`, `ThreatResponsePolicy` (`src/response`) | firewall rules, audit file | `block`, `unblock` | called by `confirm_response` |
| `LivePacketCapture`, `CICFlowExtractor` | `_sniffer`, `_monitor_thread`, `_flows` (under a lock) | `start`, `stop`, `_on_packet`, `_emit_completed` | sniffer thread, monitor thread, the thread that stops |
| `LiveZeekReader` (`src/ingest/live_zeek_reader.py`) | `_offset`, `_partial_line` | `read_new`, `run` | reads the file Zeek writes and `clear_logs` removes |
| `ZeekManager` (`src/zeek/manager.py`) | `process` | `start`, `verify_live_capture`, `stop` | Zeek processes |
| `ZeekInstaller` (`src/zeek/installer.py`) | none | `ensure` | package managers |
| `WebSocketManager`, endpoints (`backend/main.py`) | `connections` | `connect`, `broadcast`, `disconnect` | clients |
| `ThreatAnalysisStore` (`backend/services.py`) | last analysis | `set`, `get` | event loop, pool threads |
| `RealDataProvider` (`dashboard.py`) | cached flows, mtime, refresh time | `refresh`, `get_*` | Flask threads, under a lock |
| Chat memory (`dashboard.py`) | SQLite turns and bubbles, sessions in the process | `answer_group_chat`, `append_display_turns` | Flask threads without a lock, an external model |
| Launcher (`app.py`) | child processes | `main`, `shutdown` | backend, dashboard |
| Page, feature arithmetic, model runtime, training, setup scripts | | | not modelled, see below |

What is hard here: threads share collections and attributes without a lock and
read them several times per call; `stop` gives up on threads after a timeout;
steps of a start fail half way and are taken back; files and processes outlive
the program that made them and change under a reader; broadcasts, requests and
retries overlap.

What makes each part correct:

* **Pipeline.** The models never judge an unflagged source; a row that comes
  before its source is flagged is scored later, once, or given up for a stated
  reason; the queue stays bounded; nothing leaks into the next session.
* **Rule window and deduplication.** The detectors see exactly the latest rows;
  an alert is repeated once per window, neither more nor less often.
* **Verdicts.** What the dashboard's detectors would name in rows that the worker's
  window holds together, the worker has flagged; more traffic takes no threshold
  back; one refresh shows one consistent picture.
* **Scoring and response.** Score, confidence and source belong to one
  prediction; a rule is added only for a source that earned it; the audit file
  never claims more than was done.
* **Sensor.** After `stop` nothing runs; a start is all or nothing; one Zeek and
  one worker at most; every call returns.
* **Capture.** Every packet is in one emitted flow; a flow is one stream; idle
  flows leave; nothing comes after `stop`.
* **Logs, hub, chat.** Each record is delivered once and in order; a changed log
  is shown; a client misses no analysis; an answered question is kept once and
  remembered.
* **Launcher.** Whatever ends, the children on the launcher's list end; a Zeek the
  installer reports is one the backend finds, if it may be executed.

## Modules

| Module | Models | Kind |
|---|---|---|
| `PacketGate`, `MCPacketGate`, `PacketGateProofs` | the pipeline's packet side: flags, queue, flush, expiry, bound, reset | component, TLC, TLAPS |
| `RowLife` | what the pipeline promises a row: it waits until it is judged or given up | abstract specification |
| `RollingWindow` | `LiveThreatDetector`'s window | component |
| `RuleStage` | the worker's rule stage over `RollingWindow`, with the deduplicator | composition |
| `FlowVerdicts` | both sets of detectors, the dashboard's labels and views | a growing log with two readers, pure algorithms over it |
| `RuleStageProofs` | `RollingWindow`, `RuleStage` and `FlowVerdicts` | TLAPS |
| `ThreatScore`, `MCThreatScore`, `ThreatScoreProofs` | the scoring loop beside the maximum | component, TLC, TLAPS |
| `ChatMemory`, `ChatMemoryProofs` | chat sessions, saved turns, bubbles | component, TLAPS |
| `MCRules` | `RuleStage`, `FlowVerdicts`, `ThreatScore` and `ChatMemory` for TLC | TLC |
| `ResponseGate`, `MCResponseGate`, `ResponseGateProofs` | displayed evidence, confirmation, firewall, audit | component, TLC, TLAPS |
| `SensorLifecycle` | `start` and `stop` of the service over `ZeekManager`, capture and worker | component |
| `Installer` | `ZeekInstaller.ensure`, `ZeekManager._find_zeek` | component |
| `Launcher` | `app.py`, over `Installer` | composition |
| `Deployment`, `MCDeployment`, `DeploymentProofs` | `Launcher` and `SensorLifecycle`: the backend child is the process the sensor's calls run in | composition, TLC, TLAPS |
| `FlowLedger` | what the capture promises: each packet handed on once | abstract specification |
| `FlowCapture`, `MCFlowCapture`, `FlowCaptureProofs` | sniffer, monitor, `stop`, flow extractor; implements `FlowLedger` | component, TLC, TLAPS |
| `ConnLog` | `conn.log`, its writer and remover, the tail and the dashboard's cache | component |
| `EventHub` | websockets, broadcasts, the analysis store | component |
| `MCWeb`, `WebProofs` | `ConnLog` and `EventHub` | TLC, TLAPS |

`MCRules` and `MCWeb` run components that share no state: a behaviour is one of
one of them, chosen by `part`. That is no composition; it shows of each component
what a run of its own would show.

### PacketGate

`flagged` and `pending` are the two shared attributes. The worker and every
packet thread carry a program counter and the locals of their handler; one
action is one access to a shared attribute, in the order of the code.

* A row is queued at most once, so the list of `(created_at, frame)` pairs is
  the set `pending` of its rows, with `queuedAt` and `place` (append order)
  beside it; a frame is the set of rows with one place. A frame whose flagged
  rows have left keeps its place and its `created_at`, as in the code (190).
* Rebinding the attribute and changing the list in place differ when a loop runs
  over the list: `worker.same` says whether the worker's `for` still walks the
  attribute's own list; `Detached` gives the worker its own copy when another
  thread rebinds it. The loop walks by index, so a `pop(0)` under it skips a frame.
* A list comprehension reads its list in one step; the read and the assignment
  are separate actions (`WorkerExpire`, `WorkerAssignFresh`). A mask over
  `_flagged_sources` and the scoring that follows are one action (`Score` touches
  no shared pipeline state); the second mask is an action of its own. `reset`'s
  two `clear()` calls are one action.
* `Score` scores all rows of the frame or fails (`ml_inference_error`, for the two
  exceptions that `_score_row` catches). Another exception leaves the handler in the
  middle of a batch and is not an outcome of `Score`. On a packet thread
  `_on_packet_flows` (`live_service.py:118-125`) takes it down as the service's error:
  the rows of that handler that were not scored or queued yet are gone. On the worker
  it ends the thread (`WorkerFails` of `SensorLifecycle`); if it ends a flush, the
  assignment at 191 is never made and rows that were scored stay in the queue until
  the next `reset`. So `KeepsRows` and `OneFate` speak of models that fail as expected.
* Which sources a batch flags is chosen freely; `FlowVerdicts` says which.
* `Overlap = FALSE` lets one handler end before another begins: what the tests
  exercise. With it `Life` instantiates `RowLife`: rows in the queue or with their
  thread and not yet judged are `waiting`. It implies `NotSilentlyDiscarded`: at rest
  the rows `waiting` are in the queue. `Overlap = TRUE` is what the threads do.
  `CleanStop = TRUE` says that `reset` runs only after every handler of the last
  session returned; see `ResetsFindQuiet` below for when the lifecycle grants that.

### RollingWindow, RuleStage, FlowVerdicts, ThreatScore

Rows are numbered in arrival order, a frame is an interval, `_append`'s loop
takes one action per frame. `RuleStage` extends it: the detectors report any
sequence of signatures over the window (`Report`), and the alerts pass
`is_duplicate` one at a time while the clock may move. The deduplicator survives
`reset`, as it does in the code. The window is cleared only between batches.

`FlowVerdicts` defines each detector as a set of pairs or hosts over a sequence of
flows, thresholds as constants (`ThresholdAssumption`: the dashboard's are no less
than the worker's). Zeek appends rows (`FlowLogged`, `QueryLogged`) and two readers
take them, each in its own time. `WorkerJudges` takes the next rows as a batch, judges
`LastRows`, the window that `RollingWindow` shows to be the last `max_rows` rows, and
adds what the live detectors name to the flags (a flood names only the senders of the
latest batch, 145-152). `Refresh` labels all rows anew. The two do
not see the same rows, and `OfflineIsFlagged` says how far they agree: in any stretch of
judged rows that fits the window beside one batch. A scan or a beacon that is spread
over more than `max_rows` rows (1000) is named by the page and never flagged; of a flood
the page marks every sender, the worker those of the batches judged while the flood was
in the window. That is what the code does, and no property denies it. The coefficient of
variation is compared squared, in integers. The list is one loop over the log with a
strict comparison, a recursive function here (`Group`). The detail page and the
banner sort by time first and take `max()`: the sort is stated as an order of the
rows (`NewestFirst`: newest first, rows of one time as in the log) and `max()` as the
first row in that order that has the highest score (`Worst`). So with equal scores
list and detail page may show different labels; the property asks for equal scores
and for labels that some flow of that score has.

A confidence in `ThreatScore` is a natural number (finer than two decimals),
`Round` an operator: for TLC the nearest multiple of five units, for the proofs any
monotone, idempotent map that keeps 0. With five units no confidence lies halfway
between two scores, where `round(x, 2)` goes by the binary value of `x`.

### ResponseGate

`latest` holds the two entries of `latest_ml` that a block depends on. Emitters
are the threads that run `_emit_scored_ml` (the worker and the capture's monitor),
one action per write in `_on_event`; clients are the API threads in
`confirm_response`, one action per read. The firewall keeps a number of DROP rules
per IP: `iptables -I` adds one, `-D` removes one and fails without one. A command
and an audit write may fail; a crash forgets everything but firewall and audit
file. `score / 100 >= 0.92` is `score >= Threshold`. A new session (`Restart`) may begin with
emitters still at work, since `stop` gives up on its threads after a time limit.
`crossed` is a history variable: the emitters that began a batch while another was at
one, or were at one when a session began.

### SensorLifecycle, Installer, Launcher, Deployment

`svc` holds the service's attributes and what of it still runs, `zeek` the process
that `ZeekManager` knows and those that live; objects are numbered, 0 is None.
`start` runs on the event loop, `stop` in pool threads and at shutdown in the
lifespan; one action is one access to an attribute or one wait. Every wait has a
branch for its time limit: `Joined` (3 s on the worker), `StopCapture` (the
monitor's join, a sniffer that had not come up), `Kill` and `KillLate` (5 s, then
SIGKILL, then 2 s). A step of a start may raise and the rollback `Undo` may itself
fail. If the monitor's thread cannot be started after the sniffer was
(`live_packet_capture.py:127-132`), the service drops the capture unstopped and
takes the start back (`Sniff`, third branch). `turns` chooses between calls in turn
and calls that overlap. `past` is history: what outlived its stop and which failures
happened that the code has no answer to.

What the code does under these, and what the properties therefore except: a worker
that dies by an exception leaves Zeek and capture running, and the next start raises
"Zeek is already running."; if that Zeek has died too, the start succeeds and drops
the old capture unstopped. A capture that started half leaves its sniffer running. A
rollback whose sniffer stop raises leaves Zeek running. Calls that overlap can
orphan a Zeek, and a `stop` whose `self.worker` became None under it raises. Such
states are reachable in the runs; the properties say what holds with calls in turn
and name each exception.

`Installer` abstracts a host to its platform, tools, `PATH` and privileges, and a
command to what it may leave behind (a zeek binary in a place, or nothing) and
whether it returned 0. A binary that is there at first may lack the execute bit
(`plain`): `shutil.which` and the manager's last look (`manager.py:100`) skip it, the
installer's `is_file()` (78, 191) does not. So a host whose only zeek lies in a standard
place and is not executable passes the preflight and has no sensor; `ZeekIsFound`
excepts just that (`Unusable`). `Launcher` is `main` statement by statement, with restarts
inside the virtual environment and with privileges, a Ctrl+C at any moment, and
children that answer, crash, take too long or cannot be started. `listed` is the list
`processes`, which a child enters one statement after it was started; the shutdown knows
the listed ones only, and its last wait for a killed child may time out and end it (178).
`Deployment` joins it with the
sensor: calls are served while the backend child is up, a backend told to end
finishes its calls and stops the sensor once more (`LifespanStops`), and one that
is killed loses its threads but not Zeek, which has a session of its own.

### FlowCapture and FlowLedger

A section under `_lock` is one action, the monitor's look at the stop event before
it (`Look`) another; the callback takes time. A packet is a 5-tuple with a kernel
time stamp; it waits on `wire` until the sniffer delivers it. `flows` is `_flows`; a
row keeps the packets its features are computed from. `Clock` is the wall clock,
which may be set back. `Start` may fail, also half way: the sniffer comes up, the
monitor does not, and nobody stops it. The sniffer may end by itself, `stop` may
come at any moment, also before the sniffer is up. `Ledger` instantiates
`FlowLedger` with the packets that the extractor or a thread holds as `waiting` and
those in rows handed on as `delivered`.

### ConnLog, EventHub, ChatMemory

A log has `size` units: the header, then two halves of each record, so that a
read may cut one (byte offsets are abstracted to that; the header is written at
once). `gen` numbers the files that had the name; each `exists()`, `stat()`,
`open()` is an action, and Zeek and `clear_logs` act in between. The tail takes a
recreated log that is already as long for the old one; `readPast.missed` records
it. `out` keeps the record numbers handed on per file, `out[0]` what was put together
from two files. The provider's accesses under its lock follow `_ensure_fresh` and `refresh`.

In `EventHub` an action is what a coroutine does between two awaits. A send waits
while the client's buffer is full and fails when it is gone; broadcasts run over a
copy of the list (`connections`, a set with each client's `place` in it) and overlap.
One slow client stalls its broadcast, and broadcasts may overtake each other: neither
is excluded by a property, since the code promises no order. Between `accept` and the
"connected" message `stream` awaits the snapshot's send (`main.py:164`), to a client
whose buffer is still empty; the model takes that send as not suspending. So "connected
first" in `NoAnalysisMissed` is a consequence of this assumption about the server library.

In `ChatMemory` an action is what a request does between two calls of the database
or of Gemini. A reply without text is answered with 502 but its turn was saved
before (1014, 1196); a model that rejects the thinking setting costs a question if
another one switched the setting off at the same time. Any attempt may fail for
another reason (`Fails`), also one under a session whose setting would be rejected.
A saved history that cannot be parsed is not modelled.

## Runs

| Run | Instance | Shows |
|---|---|---|
| `gate_turns` | 3 rows of 2 sources, queue of 2 rows, TTL 1, clock to 2, 2 Zeek batches, 2 sessions, handlers in turn | implements `RowLife`, so that no row is silently discarded; none is left under a flagged source, each has one fate; the queue is bounded |
| `gate_overlap` | 2 rows, queue of 1, worker and one packet thread interleaved, 2 sessions, fair | the gate holds, every handler returns |
| `response` | worker and monitor as emitters, 2 clients, 2 batches of 1 or 2 predictions, 2 requests, 1 restart or crash | a rule is added only for a judged IP in a process that reached the threshold; score and target belong together when nobody crossed; the audit never overstates |
| `rules` | stage: window of 3, batches of 1 to 4 rows, 7 rows per session, 2 signatures, window of 2 s in 4 s. Verdicts: logs of up to 5 rows over 6 flows for a worker with a window of 4 rows and batches of 1 or 2, of up to 4 rows and one DNS row for the page. Score: batches of up to 3 predictions, 11 confidences, 2 sources. Chat: 3 questions about 2 sources, 2 at a time, 2 attempts, 1 restart | exact window, spaced and never starved alerts; the dashboard's verdicts on a stretch within the window are the worker's too, none taken back, one picture per refresh; both scores agree, one winner; answers kept once and remembered |
| `capture` | 2 opposite 5-tuples and junk, both modes, 3 packets, or 2 and a clock step back, clock to 2, idle time 1, fair | implements `FlowLedger`; flows are streams, cut at silences; `stop` is clean; idle flows leave |
| `web` | 2 files of the name, 5 units (header and 2 records); 2 clients, 2 events, buffer of 1; fair | records in order and all of them; a stamped or resting log is shown; no analysis is missed; dead clients are dropped; broadcasts end |
| `deployment` | 9 hosts, zeek in any one place or none, executable or not, with up to one press of Ctrl+C and one crash; 1 start and 1 stop (and the lifespan's) overlapping, with a Ctrl+C; 2 starts and 1 stop in turn; fair | a returned stop leaves nothing, a start is all or nothing, one of each, resets find quiet and an orderly end stops Zeek, these with calls in turn; calls return, Zeek is found, children end |
| `gate_discard` | as `gate_turns`, interleaved, 1 session | **violated**: rows are lost |
| `response_target` | 1 emitter, 1 client | **violated**: an IP that never won a score is blocked, with its batch's new score |
| `score_strongest` | batches of up to 2 | **violated**: the winner may be the weaker one |
| `deploy_stop` | as `deployment` | **violated**: Ctrl+C may leave Zeek capturing |
| `logs_stale` | 1 file of 4 units | **violated**: unread records are taken for shown |

Bounds. Three rows of two sources are the least with a frame that the mask splits,
two frames in the queue and an overflow; two batches flag before and after; two
sessions show what survives a reset; a TTL of one tick in a clock of two has every
row fresh, at the limit and too old. Batches of four in a window of three are larger
than the window, larger than the overflow and equal to it. The six flows hold a scan
just below and at each set's limit, an even and an uneven series, two senders to one
host, a transfer and a refused connection; every detector fires in some log of four
and stays silent in another. A log of five rows is one row longer than the worker's
window, so that a row leaves it, and a batch of two puts a stretch of three in it
whole. No property is about both readers, and neither writes what the other reads: a
log has one of them. Three predictions make every order of a weaker, an equal and a
stronger event, five units to a score every rounding up and down. The response
batches hold a winner above the threshold, one below, a benign prediction and
mixtures in both orders. Three packets in two directions make a flow, its answer and
a packet after the cut; a clock of two with an idle time of one has flows at, below
and past the limit, and one step back puts them out of order. Five units cut each of
two records; two files are a rotation, to a shorter, an equal and a longer log. Two
clients and two events are a broadcast that finds one gone while another broadcast
runs. Three questions are a pair about one source and a stranger. Two starts and a
stop are a session after a session; one start against one stop and the lifespan's is
every pair of calls that overlap. Every bound is a constant in a guard and named as
one. Clocks, batches, packets, events and calls run out, so the runs do not check
for deadlock: the system is idle there, not stuck; that calls, handlers and
broadcasts come to an end is stated as liveness instead.

Symmetry. `rules` permutes the two questions about one source. No liveness is
checked in that run.

Fairness. Asked of what the scheduler or a time limit ends, and of nothing else:
a thread's steps inside a handler or a call (`FairSpec` of `PacketGate`,
`Served`), the launcher's main thread (`MainRuns`), the capture's monitor and the
thread that stops (`MonitorStep`, `StopStep`), the tail's poll and the page that
asks again (`TailStep`, `AskStep`) and the passing of the TTL (`Expire`), the event
loop (`LoopStep`). A connected client reads, or leaves, or its ping goes unanswered
and the server drops it, so one of `ClientReads` and `ClientLeaves` happens.
Packets, batches, requests, writes, crashes, interruptions and the clock are not
fair; nor is the worker's end, which `stop` does not rely on.

### What the violated runs say

* `gate_discard`: `process_packet_features` masks twice (226, 229). A source
  flagged in between is in neither mask. The flush's assignment (191) also drops
  what was appended while it walked. Comment at 36-38: a packet seen early "is
  not silently discarded". The other promises of handlers in turn
  (`FlaggedRowsReplayed`, `OneFate`, `QueueBounded`, `KeepsRows`) fail under interleaving from
  the same cause and have no run of their own; a row queued just after the flush
  for its source waits for the next batch, at most until its TTL.
* `response_target`: each prediction writes `source_ip` (`live_service.py:80`), the
  `threat_score` event writes the score (91) and only then the target (95). In the trace
  one batch has `a` at 95 and then a benign `b`: between 91 and 95 the batch's own new
  score stands beside `b`, the source of its last prediction, and a block of `b` passes.
  The predictions of a next batch open the same window for the score of the last one.
  Comment at 93-94: "The score and response target must come from the same winning
  prediction."
* `score_strongest`: the exact confidence is compared with the rounded score
  (`threat_score.py:52, 63`). In the trace two confidences round down to one score and
  the weaker, later one replaces the stronger, like 0.12344 and then 0.12342 (both
  12.34). Rounding up errs the other way: 0.99999 does not replace 0.99996, whose score is
  100. Docstring at 28: "the strongest malicious prediction".
* `deploy_stop`: `shutdown` kills a backend that has not ended after five seconds
  (`app.py:172-178`), before its lifespan stopped Zeek, which runs in a session of
  its own (`manager.py:379`). `app.py:215`: "Press Ctrl+C to stop everything."
* `logs_stale`: `refresh` reads the log first and looks up its mtime at the end
  (`dashboard.py:545, 635`); what was appended in between is taken for shown.
  Docstring at 455-456: "Cache refreshes when conn.log's mtime changes or the TTL
  expires."

## Proofs

All for arbitrary constants: any rows, sources, 5-tuples, callers, clients, files,
questions, limits. What the state variables range over is proved too, as a theorem
of its own or as part of the invariants below.

* **The gate** (`GateSafe`, from `SessionInvariant`). *If sessions are separated
  by clean stops, a row is scored only after the rules named its source in the
  session the row was captured in*, whatever the threads interleave. `GateHolds`
  is not inductive because a row may sit in the queue, in the worker's frame, in
  its list of kept rows or in a packet thread's locals before. The invariant says
  that all rows held anywhere were captured in the current session, that idle
  threads hold none (so that `reset` clears everything) and that `flagged` is
  within `ruled`.
* **Handlers in turn** (`PipelineKeepsRows`, `NothingLost`, `FlaggedReplayed`,
  `OneFateSafe`, `QueueSafe`, from `TurnInvariant`), for `~Overlap` and `CleanStop`,
  which is the contract the tests exercise; with `Overlap` it is refuted by
  `gate_discard`. `TurnInv` says for each position of a handler which rows of the
  queue and of its locals are still unjudged: behind the loop's index they are kept
  or judged, before it untouched (`LoopAt`, `FrameOut`); a row that completed is
  judged, queued or with its thread (`NotLost`). So the unjudged rows are exactly
  the `waiting` ones of `RowLife` (`InHandIs`) and each step completes, judges or
  gives up some of them, or none.
* **Handlers that overlap** (`ArrivalsOnceSafe`). A first part of what is left of the
  contract when handlers interleave: between clean stops a packet thread judges a
  row on arrival or queues it, never both, although it reads the flags twice with
  the models' run in between. `ArrivalInv` says that the rows of a thread are in
  nobody else's hands; flags are only added while the thread runs.
* **The sensor** (`CleanSafe`, `OneOfEachSafe`, `ResetsSafe`, from
  `SensorInvariant`), for any callers and number of calls, in the whole
  deployment with its crashes and interruptions. With calls in turn at most one
  caller is under way (`OneCall`), and the invariant says for each of its
  positions what runs (`OfCall`), how the service's attributes relate to what
  lives (`OfService`) and what holds between calls (`AtRest`). `ResetsSafe`
  discharges `CleanStop`, the gate's hypothesis, for calls in turn, with the
  exceptions `ResetFindsQuiet` names: threads `stop` gave up on, and the capture of
  a session whose worker died.
* **Sessions** (`AllOrNothingSafe`, `OrderlyEndSafe`, from `SessionInvariant`).
  `BuiltInv` adds what a start has built or taken back at each of its positions, as
  long as nothing failed that the code has no answer to; `OneBackend` ties the
  calls to the launcher's child, and `LastCall` says that the lifespan's stop comes
  after all other calls.
* **The children** (`NoChildLeftSafe`). `ShutdownInv`: whom a finished step of the
  shutdown waited for has ended, a child that runs is on the list, about to be, or was
  told to end (`ListedOrEnding`), and nobody starts a child afterwards, whichever
  failure, crash or interruption led there. Excepted are a Ctrl+C in the shutdown itself
  and a last wait that times out, which both leave `main` by an exception.
* **Why the calls end** (`HandlersAdvance`, `CallsAdvance`, `BroadcastsAdvance`). The
  steps that the liveness properties rest on, without fairness. A variant counts the
  steps a handler or a call has left (`WorkerLeft`, `PacketLeft`, `Left`): each step of
  its own lowers it, no step of anybody else changes it, and it is bounded, by the
  rows there are or by 16. Both hold with overlap and after unclean stops too;
  `LoopInv` keeps the loops' indices in bounds. A broadcast always has a next client
  until it is done, gets no new ones and takes one off with each send. What is left
  to fairness is that a thread that can run does, and that a client reads or leaves.
* **The path of Zeek** (`ZeekFoundSafe`). `FoundInv`: from the installer's answer on,
  each restart of the launcher keeps a Zeek where `ZeekManager` looks and takes it, or
  one in a standard place that lacks the execute bit (`Unusable`).
* **The capture implements the ledger** (`CaptureKeepsLedger`). `PlacesInvariant`:
  a packet is in one place (wire, one direction of one flow, one row one thread
  holds, rows handed on), so that a step of the capture is a `Receive`, a
  `Deliver` or a stutter of `FlowLedger`. From the same facts `StreamSafe`: a flow
  holds each packet on the side of its direction.
* **After stop** (`StopSafe`, from `EndInvariant`). What each position of `stop`
  has ended: past the join the monitor is gone unless it was given up, past the
  flush nothing is tracked unless the sniffer came up late.
* **Rows and silences** (`RowsSafe`). While the clock was not set back a flow's first
  and last times are those of its packets and the wire holds later ones only
  (`TimesInv`); the rows of one stream lie in an order with a silence between any
  two (`CutInv`). Excepted are a packet that lagged on the wire when a row was cut, and a
  stop that gave up on the monitor and left a sniffer behind: two threads then cut rows.
* **Blocks only judged sources** (`BlocksSafe`, from `JudgedInvariant`). The
  displayed source was predicted, a displayed score at the threshold was reached,
  and a client past its comparison carries both facts.
* **Score and target** (`PairSafe`). An emitter that did not cross another, of this session
  or the one before, works on `latest` alone between its first and its last write.
* **Audit** (`AuditSafe`). A client between a successful command and its audit line
  owes one. Lines and owing clients (`Owed`) together are never more than the
  commands that succeeded: a failed write or a crash only forgives a debt.
* **Scoring** (`ScoresSafe`, `WinnerSafe`, `OfferSafe`). The loop's score is the
  rounded maximum of the events so far and is itself rounded; by monotonicity
  comparing an exact confidence with it decides as if both were rounded. `OneWinner`
  has the target too: what is offered has a source, and it is the winner's.
  `StrongestSafe` is what is left of the docstring that `score_strongest` refutes: no
  event is stronger than the winner up to the rounding, and none at all if the
  confidences are rounded themselves.
* **Window** (`CountSafe`, `WindowSafe`). `CountIsLength` is the sum the loop works
  with; the invariant adds that frames lie in order and that their union is one
  interval, so that no step needs an induction over the history.
* **Deduplication** (`SpacedSafe`, `StarvedSafe`). `_last_seen` is the latest
  emission of each signature. `StageRefinesWindow`: every step of the rule stage is
  a step of the window or a stutter; `StageJudgesRecent` is carried over by it.
* **Verdicts** (`FlaggedSafe`, `FlagsSafe`, from `VerdictInvariant`). The detectors
  are monotone: what they find in some rows they find in any larger stretch around them
  (`ScansGrow`, `FloodsGrow`, `LiveBeaconsGrow`, `TransfersGrow`, by cardinalities of
  images and shifts, `OfWithin`, `ShiftIsNoLess`), and what the dashboard asks for is no
  less than what the worker asks for (`OfflineIsLive`). A stretch that fits the window
  beside a batch lies within the window of the batch that has its last row
  (`LastRowsHold`, `StretchWithin`), so the worker has seen all of it at once; that is
  `VerdictInv`'s half about flags, for every window and batch size.
* **One picture** (`PageSafe`). The list's recursive function is defined for every
  prefix of the log and each value follows from the one before; that is shown by
  looking at the first prefix for which it would fail, since the library's induction
  theorems cannot be used. The loop's invariant then says of each prefix that count,
  flagged count and score are those of the source's rows in it. `NewestFirst` has a
  first row in every set of rows, so that `max()` returns one and the banner's row
  is a row of the log; a score is 0 exactly for a benign label.
* **The dashboard's cache** (`StampedSafe`, `ShownAdvances`, from
  `ShownInvariant`). What is shown, what was parsed and the log are in the order in
  which they were read, and a stamp that was not raced is of what is shown.
* **The tail** (`RecordsSafe`, from `TailInvariant`). Of the file it reads the tail
  has handed on as many records as its offset ends (`HandedSoFar`), and
  `_partial_line` holds the half at the offset, of the same file unless it was taken
  for its predecessor (`HalfKept`).
* **The event loop** (`AnalysesSafe`, `DeadSafe`, from `HubInvariant`). An event of a
  client that is there is in its inbox or still to be sent by the event's
  broadcast, never both (`SentOnce`); whom a broadcast found gone it keeps until it
  drops them (`TaskOf`).
* **The chat** (`KeptSafe`, `AskedSafe`, `RejectedSafe`, from `ChatInvariant`).
  Nothing of a question is written before it is sent, shown before it is answered, or
  written twice (`Written`); what was answered alone is in whatever is written of its
  source later (`Kept`); two requests in work at once have met (`Meet`).

Assumptions, all `ASSUME`d by name and evaluated by the runs: `MaxRows >= 1` (the
constructor refuses less), natural limits and bounds, thresholds of the dashboard no
less than the worker's, flows with whole-number times and a banner that looks at one
flow at least, `NoIP` and `NoSource` outside the addresses, a positive threshold,
finitely many clients, `Reverse` an involution on 5-tuples, a positive idle time,
callers of `start` and `stop` apart and the lifespan one of the latter, `Round` as
said above.

Every invariant, action property and refinement that a passing run checks is a
theorem. Only model-checked is liveness under fairness (`HandlersReturn`,
`CallsReturn`, `LauncherEnds`, `IdleFlowsLeave`, `RecordsArrive`, `RestingLogShown`,
`BroadcastsEnd`), which needs ENABLED and is out of the proof system's reach, and
the counterexamples of the violated runs.

## Not modelled

* Feature arithmetic (`flow_features.py` and the columns of `cicflow_features.py`
  beyond times and directions): column computations without state.
* The model runtime and estimators: a prediction is any label and confidence.
* Of the detectors, the web attack gate (it needs HTTP columns that `conn.log`
  does not have) and the character statistics that make a domain suspicious;
  `detect_c2`, `detect_encrypted_traffic` and `follow()` are called by nothing.
* The dashboard page: JavaScript polling and drawing. The server blocks only the
  source it displays itself, which is in `ResponseGate`. The dashboard's host names
  and its second candidate directory for logs.
* `GET /api/threats` in a pool thread beside `set` on the event loop may pair the
  path of one analysis with the threats of another; nothing promises the pair.
* Repeated blocks add rules one by one; nothing promises that one unblock undoes
  several.
* Training, data set and setup scripts; formatting of events, the command line.

## Plan

1. *Done:* everything above.
2. *Done:* `RowLife` and the proof that the pipeline with handlers in turn
   implements it; proofs of every invariant that the passing runs check.
3. What else is left of the pipeline's contract when handlers overlap beside
   `ArrivalsOnceSafe`, as a specification weaker than `RowLife`, and its proof.
4. The page's two globals as a client of `ResponseGate` and `EventHub`.
