---------------------------- MODULE FlowCapture ----------------------------
(***************************************************************************)
(* One LivePacketCapture and its CICFlowExtractor                           *)
(* (src/ingest/live_packet_capture.py, src/features/cicflow_features.py):   *)
(* the sniffer thread adds packets to flows, the monitor thread takes the   *)
(* flows that were idle for idle_timeout and calls back with their rows,    *)
(* and the thread that calls stop flushes the rest. A section under _lock   *)
(* is one action; the callback (the models, module PacketGate) takes time.  *)
(*                                                                         *)
(* A packet is [id, key, ts]; ids are given in capture order, which is the  *)
(* order in which the sniffer delivers. Sizes, flags and header lengths are *)
(* left out; a row keeps the packets its features are computed from.        *)
(***************************************************************************)
EXTENDS Integers, FiniteSets, Sequences

CONSTANTS
  Keys,        \* 5-tuples
  Junk,        \* what has no IP header, or cannot be parsed
  Reverse,     \* the 5-tuple of the opposite direction
  IdleTimeout, \* idle_timeout
  MaxPackets,  \* bound: packets captured
  Limits,      \* bound: how many packets there may be with how many clock steps
  MaxWire,     \* bound: packets on the wire at once
  MaxTime,     \* bound: last value of the clock
  MaxSteps     \* bound: how often the clock is set back

ASSUME KeyAssumption  == Junk \notin Keys /\ Reverse \in [Keys -> Keys] /\ \A k \in Keys : Reverse[Reverse[k]] = k
ASSUME TimeAssumption == IdleTimeout \in Nat \ {0} /\ MaxPackets \in Nat /\ MaxWire \in Nat
                         /\ MaxTime \in Nat /\ MaxSteps \in Nat
ASSUME LimitAssumption == Limits \subseteq [packets : 0..MaxPackets, steps : 0..MaxSteps]

Packets == [id : 1..MaxPackets, key : Keys \cup {Junk}, ts : 0..MaxTime]
Flow    == [first : Nat, last : Nat, fwd : SUBSET Packets, bwd : SUBSET Packets]
Rows    == [key : Keys, first : Nat, last : Nat, fwd : SUBSET Packets, bwd : SUBSET Packets]
Threads == {"monitor", "stopper"}

VARIABLES
  unidirectional, \* chosen once
  limit,   \* a member of Limits, chosen once
  now,     \* time.time()
  wire,    \* packets captured and not yet given to _on_packet
  count,   \* packets captured so far
  flows,   \* _flows: a flow for every key, without packets when there is none
  sniffer, \* the AsyncSniffer: none, starting, running, ended
  pc,      \* positions of the monitor and of stop
  held,    \* rows a thread is about to call back with
  rows,    \* history: rows the callback was given
  past     \* history: what happened that a property excepts

mode   == <<unidirectional, limit>>
thread == <<pc, held>>
vars   == <<mode, now, wire, count, flows, sniffer, thread, rows, past>>

NoFlow    == [first |-> 0, last |-> 0, fwd |-> {}, bwd |-> {}]
Tracked   == {k \in Keys : flows[k].fwd # {}}
PacketsOf(f) == f.fwd \cup f.bwd

Init ==
  /\ unidirectional \in BOOLEAN /\ limit \in Limits
  /\ now = 0 /\ wire = <<>> /\ count = 0
  /\ flows = [k \in Keys |-> NoFlow]
  /\ sniffer = "none"
  /\ pc = [monitor |-> "none", stopper |-> "idle"]
  /\ held = [t \in Threads |-> {}]
  /\ rows = {}
  /\ past = [setBack |-> 0, lagged |-> FALSE, leaked |-> FALSE, gaveUp |-> FALSE]

At(t, at)   == pc[t] = at
Goes(t, to) == pc' = [pc EXCEPT ![t] = to]
StopEvent   == ~At("stopper", "idle")

-----------------------------------------------------------------------------
(* start, and the sniffer thread                                           *)

(* The sniffer may fail to start, or the monitor's thread may when the       *)
(* sniffer is under way; then there is no monitor, and the service drops the *)
(* capture: nobody stops that sniffer.                                     *)
Start ==
  /\ sniffer = "none"
  /\ \/ sniffer' = "starting" /\ Goes("monitor", "waiting")
     \/ sniffer' \in {"starting", "ended"} /\ UNCHANGED pc
  /\ UNCHANGED <<mode, now, wire, count, flows, held, rows, past>>

(* AsyncSniffer's thread opens its socket and sets running; it may end by  *)
(* itself, when the interface goes away.                                   *)
Sniffing ==
  /\ \/ sniffer = "starting" /\ sniffer' = "running"
     \/ sniffer = "running" /\ sniffer' = "ended"
  /\ UNCHANGED <<mode, now, wire, count, flows, thread, rows, past>>

(* The kernel stamps a packet and queues it for the sniffer. *)
Capture ==
  /\ sniffer = "running" /\ count < limit.packets /\ Len(wire) < MaxWire
  /\ count' = count + 1
  /\ \E k \in Keys \cup {Junk} : wire' = Append(wire, [id |-> count + 1, key |-> k, ts |-> now])
  /\ UNCHANGED <<mode, now, flows, sniffer, thread, rows, past>>

(* _FlowState.add *)
Forward(f, p)  == [f EXCEPT !.fwd = @ \cup {p}, !.last = p.ts]
Backward(f, p) == [f EXCEPT !.bwd = @ \cup {p}, !.last = p.ts]
Opened(p)      == [first |-> p.ts, last |-> p.ts, fwd |-> {p}, bwd |-> {}]

(* Mutant of Added: a packet always goes to its own direction's flow. *)
AddedApart(p) ==
  IF p.key \in Tracked THEN [flows EXCEPT ![p.key] = Forward(@, p)]
  ELSE [flows EXCEPT ![p.key] = Opened(p)]

(* add_packet: its own flow, else the reverse one in bidirectional mode,   *)
(* else a new one.                                                         *)
Added(p) ==
  IF p.key \in Tracked THEN [flows EXCEPT ![p.key] = Forward(@, p)]
  ELSE IF ~unidirectional /\ Reverse[p.key] \in Tracked
       THEN [flows EXCEPT ![Reverse[p.key]] = Backward(@, p)]
  ELSE [flows EXCEPT ![p.key] = Opened(p)]

(* _on_packet; what cannot be parsed is dropped and capture goes on. *)
OnPacket ==
  /\ sniffer = "running" /\ wire # <<>>
  /\ wire' = Tail(wire)
  /\ flows' = IF Head(wire).key = Junk THEN flows ELSE Added(Head(wire))
  /\ UNCHANGED <<mode, now, count, sniffer, thread, rows, past>>

-----------------------------------------------------------------------------
(* The monitor thread                                                      *)

Row(k)    == [key |-> k, first |-> flows[k].first, last |-> flows[k].last,
              fwd |-> flows[k].fwd, bwd |-> flows[k].bwd]
Without(ks) == [k \in Keys |-> IF k \in ks THEN NoFlow ELSE flows[k]]

(* Mutant of Completed: idle since the first packet. *)
CompletedByAge == {k \in Tracked : now - flows[k].first >= IdleTimeout}

(* pop_completed compares the wall clock with the packets' timestamps. *)
Completed == {k \in Tracked : now - flows[k].last >= IdleTimeout}

(* _monitor: wait(poll_interval) was not cut short by the stop event. *)
Look ==
  /\ At("monitor", "waiting") /\ ~StopEvent
  /\ Goes("monitor", "looking")
  /\ UNCHANGED <<mode, now, wire, count, flows, sniffer, held, rows, past>>

(* Mutant of Pop: the flows stay. *)
PopKeeps ==
  /\ At("monitor", "looking")
  /\ Completed # {}
  /\ held' = [held EXCEPT !["monitor"] = {Row(k) : k \in Completed}]
  /\ Goes("monitor", "popped")
  /\ past' = [past EXCEPT !.lagged = @ \/ wire # <<>>]
  /\ UNCHANGED <<mode, now, wire, count, flows, sniffer, rows>>

(* _emit_completed, when there is something to emit, *)
Pop ==
  /\ At("monitor", "looking")
  /\ Completed # {}
  /\ held' = [held EXCEPT !["monitor"] = {Row(k) : k \in Completed}]
  /\ flows' = Without(Completed)
  /\ Goes("monitor", "popped")
  /\ past' = [past EXCEPT !.lagged = @ \/ wire # <<>>]
  /\ UNCHANGED <<mode, now, wire, count, sniffer, rows>>

(* and when there is nothing. *)
PopNothing ==
  /\ At("monitor", "looking") /\ Completed = {}
  /\ Goes("monitor", "waiting")
  /\ UNCHANGED <<mode, now, wire, count, flows, sniffer, held, rows, past>>

CallBack(t) ==
  /\ At(t, "popped")
  /\ rows' = rows \cup held[t]
  /\ held' = [held EXCEPT ![t] = {}]
  /\ Goes(t, "calling")
  /\ UNCHANGED <<mode, now, wire, count, flows, sniffer, past>>

(* Mutant of MonitorReturns: the loop ends with the first rows. *)
MonitorReturnsOnce ==
  /\ At("monitor", "calling")
  /\ Goes("monitor", "ended")
  /\ UNCHANGED <<mode, now, wire, count, flows, sniffer, held, rows, past>>

MonitorReturns ==
  /\ At("monitor", "calling")
  /\ Goes("monitor", "waiting")
  /\ UNCHANGED <<mode, now, wire, count, flows, sniffer, held, rows, past>>

MonitorEnds ==
  /\ At("monitor", "waiting") /\ StopEvent
  /\ Goes("monitor", "ended")
  /\ UNCHANGED <<mode, now, wire, count, flows, sniffer, held, rows, past>>

-----------------------------------------------------------------------------
(* stop                                                                    *)

Stop ==
  /\ At("stopper", "idle") /\ ~At("monitor", "none")
  /\ Goes("stopper", "sniffer")
  /\ UNCHANGED <<mode, now, wire, count, flows, sniffer, held, rows, past>>

(* A running sniffer is stopped and joined; one whose thread has not set    *)
(* running yet is dropped and will run on. Its stop may raise: no join, no  *)
(* flush, the service notes the error.                                     *)
StopSniffer ==
  /\ At("stopper", "sniffer")
  /\ \/ Goes("stopper", "join") /\ sniffer' = (IF sniffer = "running" THEN "ended" ELSE sniffer)
        /\ past' = [past EXCEPT !.leaked = @ \/ sniffer = "starting"]
     \/ sniffer = "ended" /\ Goes("stopper", "raised") /\ UNCHANGED <<sniffer, past>>
  /\ UNCHANGED <<mode, now, wire, count, flows, held, rows>>

(* Mutant of JoinMonitor: stop does not wait. *)
JoinNobody ==
  /\ At("stopper", "join")
  /\ Goes("stopper", "flush")
  /\ UNCHANGED <<mode, now, wire, count, flows, sniffer, held, rows, past>>

(* The monitor ended, or the join's time is up. *)
JoinMonitor ==
  /\ At("stopper", "join")
  /\ past' = [past EXCEPT !.gaveUp = @ \/ ~At("monitor", "ended")]
  /\ Goes("stopper", "flush")
  /\ UNCHANGED <<mode, now, wire, count, flows, sniffer, held, rows>>

Flush ==
  /\ At("stopper", "flush")
  /\ held' = [held EXCEPT !["stopper"] = {Row(k) : k \in Tracked}]
  /\ flows' = Without(Tracked)
  /\ Goes("stopper", IF Tracked = {} THEN "done" ELSE "popped")
  /\ UNCHANGED <<mode, now, wire, count, sniffer, rows, past>>

StopReturns ==
  /\ At("stopper", "calling")
  /\ Goes("stopper", "done")
  /\ UNCHANGED <<mode, now, wire, count, flows, sniffer, held, rows, past>>

-----------------------------------------------------------------------------
(* The wall clock goes on, or is set back. *)
Clock ==
  /\ \/ now < MaxTime /\ now' = now + 1 /\ UNCHANGED past
     \/ now > 0 /\ past.setBack < limit.steps /\ now' = now - 1
        /\ past' = [past EXCEPT !.setBack = @ + 1]
  /\ UNCHANGED <<mode, wire, count, flows, sniffer, thread, rows>>

MonitorStep == Look \/ Pop \/ PopNothing \/ CallBack("monitor") \/ MonitorReturns \/ MonitorEnds
StopStep    == StopSniffer \/ JoinMonitor \/ Flush \/ CallBack("stopper") \/ StopReturns

Next == Start \/ Sniffing \/ Capture \/ OnPacket \/ MonitorStep \/ Stop \/ StopStep \/ Clock

Spec == Init /\ [][Next]_vars

(* The two threads run on; packets, the clock and the user's stop need not. *)
FairSpec == Spec /\ WF_vars(MonitorStep) /\ WF_vars(StopStep)

-----------------------------------------------------------------------------
TypeOK ==
  /\ unidirectional \in BOOLEAN /\ limit \in Limits
  /\ now \in 0..MaxTime /\ count \in 0..MaxPackets
  /\ wire \in Seq(Packets)
  /\ flows \in [Keys -> Flow]
  /\ sniffer \in {"none", "starting", "running", "ended"}
  /\ pc \in [monitor : {"none", "waiting", "looking", "popped", "calling", "ended"},
             stopper : {"idle", "sniffer", "join", "flush", "popped", "calling", "done", "raised"}]
  /\ held \in [Threads -> SUBSET Rows]
  /\ rows \subseteq Rows

(* Packets that the extractor or a thread holds, and that were handed on. *)
InRows(some) == UNION {PacketsOf(r) : r \in some}
Waiting   == (UNION {PacketsOf(flows[k]) : k \in Keys}) \cup (UNION {InRows(held[t]) : t \in Threads})
Delivered == InRows(rows)

(* The capture keeps the ledger: no packet in two rows, none taken back,   *)
(* none handed on twice, by whichever of the two threads                   *)
(* (cicflow_features.py:224-240, live_packet_capture.py:64-71, 148-152).    *)
Ledger == INSTANCE FlowLedger WITH waiting <- Waiting, delivered <- Delivered
KeepsLedger == Ledger!LedgerSpec

(* A flow is one stream: in unidirectional mode never a packet of the       *)
(* opposite direction (cicflow_features.py:147-149); otherwise each packet  *)
(* on its side, and never two flows open for the two directions of one.     *)
OneStream ==
  /\ \A r \in rows \cup {Row(k) : k \in Tracked} :
       /\ \A p \in r.fwd : p.key = r.key
       /\ \A p \in r.bwd : ~unidirectional /\ p.key = Reverse[r.key]
  /\ ~unidirectional => \A k \in Tracked : Reverse[k] # k => Reverse[k] \notin Tracked

(* A stream is cut in two rows only where it was silent for idle_timeout   *)
(* (cicflow_features.py:237), unless packets waited while the monitor       *)
(* looked at the clock, the clock was set back, or a stop left both the      *)
(* sniffer and the monitor behind.                                         *)
CutWhereSilent ==
  past.setBack = 0 /\ ~past.lagged /\ ~(past.leaked /\ past.gaveUp) =>
    \A r, s \in rows :
      r # s /\ r.first <= s.first /\ s.key \in {r.key} \cup (IF unidirectional THEN {} ELSE {Reverse[r.key]}) =>
        s.first - r.last >= IdleTimeout

Duration(r) == IF r.last > r.first THEN r.last - r.first ELSE 0
(* np.diff over the timestamps in the order of the list, summed up. *)
IatTotal(ps) ==
  IF Cardinality(ps) < 2 THEN 0
  ELSE LET newest == CHOOSE p \in ps : \A q \in ps : q.id <= p.id
           oldest == CHOOSE p \in ps : \A q \in ps : p.id <= q.id
       IN  newest.ts - oldest.ts

(* The features of a row agree with each other: its duration is the sum of *)
(* the gaps between its packets, and neither direction's gaps exceed it     *)
(* (cicflow_features.py:244-253), unless the clock was set back.            *)
FeaturesAgree ==
  past.setBack = 0 => \A r \in rows :
    /\ Duration(r) = IatTotal(PacketsOf(r))
    /\ IatTotal(r.fwd) \in 0..Duration(r) /\ IatTotal(r.bwd) \in 0..Duration(r)

(* The rows are the streams that were on the wire, cut at silences, and what *)
(* each says of its own times fits together.                               *)
RowsAreStreams == CutWhereSilent /\ FeaturesAgree

(* Once stop returned, the capture is silent: nothing is left to emit and   *)
(* no callback comes any more (live_packet_capture.py:134-154), unless the   *)
(* sniffer had not come up yet or the join gave up on the monitor.          *)
SilentAfterStop ==
  At("stopper", "done") /\ ~past.leaked =>
    /\ Tracked = {} /\ held["stopper"] = {}
    /\ ~past.gaveUp => At("monitor", "ended")

(* The callback is not entered by two threads at once (it changes the       *)
(* pipeline without a lock), unless the join gave up on the monitor.        *)
CallbacksAlone ==
  At("monitor", "calling") /\ At("stopper", "calling") => past.gaveUp

(* What a stop makes of the callback: alone in it while it flushes, and     *)
(* silent once it returned.                                                *)
StopIsClean == SilentAfterStop /\ CallbacksAlone

(* A flow that is idle leaves the extractor, or a packet or the clock       *)
(* changes that, or the capture is stopped.                                *)
IdleFlowsLeave ==
  \A k \in Keys :
    (k \in Completed /\ ~At("monitor", "none")) ~> (k \notin Completed \/ StopEvent)
=============================================================================
