-------------------------- MODULE FlowCaptureProofs --------------------------
(***************************************************************************)
(* Whatever the keys, limits and clock: the capture keeps the ledger, so    *)
(* that each packet is handed on at most once and none is taken back. The   *)
(* argument is that a packet is in one place only, the wire, one flow or    *)
(* the rows of one thread, and that new packets have new ids.               *)
(***************************************************************************)
EXTENDS FlowCapture, FiniteSetTheorems, WellFoundedInduction, TLAPS

(* The wire holds the youngest packets in order; all others are older. *)
WireInOrder ==
  /\ Len(wire) <= count
  /\ \A i \in DOMAIN wire : wire[i].id = count - Len(wire) + i

OthersAreOlder ==
  /\ \A k \in Keys : \A p \in PacketsOf(flows[k]) : p.id <= count - Len(wire)
  /\ \A t \in Threads : \A r \in held[t] : \A p \in PacketsOf(r) : p.id <= count - Len(wire)
  /\ \A r \in rows : \A p \in PacketsOf(r) : p.id <= count - Len(wire)

(* A key without packets in its own direction has none at all. *)
NoHalfFlow == \A k \in Keys : flows[k].fwd = {} => flows[k].bwd = {}

HeldToCallBack == \A t \in Threads : held[t] # {} => pc[t] = "popped"

(* A packet is in one place. *)
Apart ==
  /\ \A j, k \in Keys : j # k => PacketsOf(flows[j]) \cap PacketsOf(flows[k]) = {}
  /\ \A t \in Threads : \A r \in held[t] : \A k \in Keys : PacketsOf(r) \cap PacketsOf(flows[k]) = {}
  /\ \A r \in held["monitor"] : \A s \in held["stopper"] : PacketsOf(r) \cap PacketsOf(s) = {}

(* There is no monitor before there is a sniffer. *)
NotStarted == sniffer = "none" => pc["monitor"] = "none"

PlacesInv == TypeOK /\ WireInOrder /\ OthersAreOlder /\ NoHalfFlow /\ HeldToCallBack /\ Apart

-----------------------------------------------------------------------------
(* Rows are made of typed flows. *)
LEMMA RowTyped ==
  ASSUME flows \in [Keys -> Flow], NEW k \in Keys
  PROVE  Row(k) \in Rows /\ PacketsOf(Row(k)) = PacketsOf(flows[k])
BY DEF Row, Rows, Flow, PacketsOf

(* Adding a packet keeps the flows typed. *)
LEMMA AddedTyped ==
  ASSUME flows \in [Keys -> Flow], NEW p \in Packets, p.key # Junk
  PROVE  Added(p) \in [Keys -> Flow]
<1>1. p.key \in Keys /\ p.ts \in Nat
  BY TimeAssumption DEF Packets
<1>2. Reverse[p.key] \in Keys
  BY <1>1, KeyAssumption
<1>3. \A f \in Flow : Forward(f, p) \in Flow /\ Backward(f, p) \in Flow
  BY <1>1 DEF Flow, Forward, Backward
<1>4. Opened(p) \in Flow
  BY <1>1 DEF Flow, Opened
<1>5. QED
  BY <1>1, <1>2, <1>3, <1>4 DEF Added

LEMMA NoFlowTyped == NoFlow \in Flow
BY DEF NoFlow, Flow

(* Initial state and every step keep the types. *)
LEMMA TypeInit == Init => TypeOK
<1> SUFFICES ASSUME Init PROVE TypeOK
  OBVIOUS
<1>1. flows \in [Keys -> Flow]
  BY NoFlowTyped DEF Init
<1>2. now \in 0..MaxTime /\ count \in 0..MaxPackets
  BY TimeAssumption DEF Init
<1>3. QED
  BY <1>1, <1>2 DEF Init, TypeOK, Threads

LEMMA TypeNext == TypeOK /\ [Next]_vars => TypeOK'
<1> SUFFICES ASSUME TypeOK, [Next]_vars PROVE TypeOK'
  OBVIOUS
<1> USE DEF TypeOK, mode, thread, Goes, At, StopEvent
<1>1. CASE Start
  BY <1>1 DEF Start
<1>2. CASE Sniffing
  BY <1>2 DEF Sniffing
<1>3. CASE Capture
  <2>1. limit.packets \in 0..MaxPackets
    BY LimitAssumption
  <2>2. count' \in 1..MaxPackets
    BY <1>3, <2>1, TimeAssumption DEF Capture
  <2>3. PICK k \in Keys \cup {Junk} : wire' = Append(wire, [id |-> count + 1, key |-> k, ts |-> now])
    BY <1>3 DEF Capture
  <2>4. [id |-> count + 1, key |-> k, ts |-> now] \in Packets
    BY <1>3, <2>2 DEF Capture, Packets
  <2>5. wire' \in Seq(Packets)
    BY <2>3, <2>4
  <2>6. QED
    BY <1>3, <2>2, <2>5, TimeAssumption DEF Capture
<1>4. CASE OnPacket
  <2>1. Head(wire) \in Packets /\ wire' \in Seq(Packets)
    BY <1>4 DEF OnPacket
  <2>2. flows' \in [Keys -> Flow]
    BY <1>4, <2>1, AddedTyped DEF OnPacket
  <2>3. QED
    BY <1>4, <2>1, <2>2 DEF OnPacket
<1>5. CASE Pop
  <2>1. {Row(k) : k \in Completed} \subseteq Rows
    BY RowTyped DEF Completed, Tracked
  <2>2. flows' \in [Keys -> Flow]
    BY <1>5, NoFlowTyped DEF Pop, Without
  <2>3. QED
    BY <1>5, <2>1, <2>2 DEF Pop, Threads
<1>6. ASSUME NEW t \in Threads, CallBack(t) PROVE TypeOK'
  BY <1>6 DEF CallBack, Threads
<1>7. CASE Look \/ PopNothing \/ MonitorReturns
  BY <1>7 DEF Look, PopNothing, MonitorReturns
<1>8. CASE MonitorEnds
  BY <1>8 DEF MonitorEnds
<1>9. CASE Stop
  BY <1>9 DEF Stop
<1>10. CASE StopSniffer
  BY <1>10 DEF StopSniffer
<1>11. CASE JoinMonitor
  BY <1>11 DEF JoinMonitor
<1>12. CASE Flush
  <2>1. {Row(k) : k \in Tracked} \subseteq Rows
    BY RowTyped DEF Tracked
  <2>2. flows' \in [Keys -> Flow]
    BY <1>12, NoFlowTyped DEF Flush, Without
  <2>3. QED
    BY <1>12, <2>1, <2>2 DEF Flush, Threads
<1>13. CASE StopReturns
  BY <1>13 DEF StopReturns
<1>14. CASE Clock
  BY <1>14, TimeAssumption DEF Clock
<1>15. CASE UNCHANGED vars
  BY <1>15 DEF vars
<1>16. QED
  BY <1>1, <1>2, <1>3, <1>4, <1>5, <1>6, <1>7, <1>8, <1>9, <1>10, <1>11, <1>12, <1>13, <1>14, <1>15
  DEF Next, MonitorStep, StopStep, Threads

(* Types of the flows, the rows and the threads' positions, for every set   *)
(* of keys and every bound.                                                *)
THEOREM TypeCorrect == Spec => []TypeOK
BY TypeInit, TypeNext, PTL DEF Spec
-----------------------------------------------------------------------------
(* Steps that touch neither packets nor rows keep them where they are. *)
LEMMA PlacesKept ==
  ASSUME PlacesInv, TypeOK', UNCHANGED <<wire, count, flows, held, rows>>,
         \A t \in Threads : held[t] # {} => pc'[t] = "popped"
  PROVE  PlacesInv'
BY DEF PlacesInv, WireInOrder, OthersAreOlder, NoHalfFlow, HeldToCallBack, Apart

LEMMA PlacesInit == Init => PlacesInv
<1> SUFFICES ASSUME Init PROVE PlacesInv
  OBVIOUS
<1>1. TypeOK
  BY TypeInit
<1>2. \A k \in Keys : PacketsOf(flows[k]) = {} /\ flows[k].bwd = {}
  BY DEF Init, NoFlow, PacketsOf
<1>3. \A t \in Threads : held[t] = {}
  BY DEF Init
<1>4. WireInOrder
  BY DEF Init, WireInOrder
<1>5. QED
  BY <1>1, <1>2, <1>3, <1>4
  DEF Init, PlacesInv, OthersAreOlder, NoHalfFlow, HeldToCallBack, Apart, Threads

(* Where a packet goes when it is added: to one flow, and no other changes. *)
LEMMA AddedPackets ==
  ASSUME TypeOK, NoHalfFlow, NEW p \in Packets, p.key # Junk
  PROVE  \E k \in Keys :
           /\ PacketsOf(Added(p)[k]) = PacketsOf(flows[k]) \cup {p}
           /\ \A j \in Keys : j # k => Added(p)[j] = flows[j]
           /\ Added(p)[k].fwd # {}
<1>1. p.key \in Keys /\ Reverse[p.key] \in Keys /\ flows \in [Keys -> Flow]
  BY KeyAssumption DEF Packets, TypeOK
<1>2. CASE p.key \in Tracked
  <2>1. Added(p)[p.key] = Forward(flows[p.key], p)
    BY <1>1, <1>2 DEF Added
  <2>2. PacketsOf(Added(p)[p.key]) = PacketsOf(flows[p.key]) \cup {p} /\ Added(p)[p.key].fwd # {}
    BY <1>1, <2>1 DEF Forward, PacketsOf, Flow
  <2>3. \A j \in Keys : j # p.key => Added(p)[j] = flows[j]
    BY <1>1, <1>2 DEF Added
  <2>4. QED
    BY <1>1, <2>2, <2>3
<1>3. CASE p.key \notin Tracked /\ ~unidirectional /\ Reverse[p.key] \in Tracked
  <2> DEFINE k == Reverse[p.key]
  <2>1. Added(p)[k] = Backward(flows[k], p)
    BY <1>1, <1>3 DEF Added
  <2>2. PacketsOf(Added(p)[k]) = PacketsOf(flows[k]) \cup {p} /\ Added(p)[k].fwd # {}
    BY <1>1, <1>3, <2>1 DEF Backward, PacketsOf, Flow, Tracked
  <2>3. \A j \in Keys : j # k => Added(p)[j] = flows[j]
    BY <1>1, <1>3 DEF Added
  <2>4. QED
    BY <1>1, <2>2, <2>3
<1>4. CASE p.key \notin Tracked /\ ~(~unidirectional /\ Reverse[p.key] \in Tracked)
  <2>1. Added(p)[p.key] = Opened(p)
    BY <1>1, <1>4 DEF Added
  <2>2. PacketsOf(flows[p.key]) = {}
    BY <1>1, <1>4 DEF Tracked, NoHalfFlow, PacketsOf
  <2>3. PacketsOf(Added(p)[p.key]) = {p} /\ Added(p)[p.key].fwd # {}
    BY <2>1 DEF Opened, PacketsOf
  <2>4. \A j \in Keys : j # p.key => Added(p)[j] = flows[j]
    BY <1>1, <1>4 DEF Added
  <2>5. QED
    BY <1>1, <2>2, <2>3, <2>4
<1>5. QED
  BY <1>2, <1>3, <1>4

(* The first packet of the wire is younger than all that was handed over. *)
LEMMA HeadIsNext ==
  ASSUME TypeOK, WireInOrder, wire # <<>>
  PROVE  /\ Head(wire) \in Packets /\ Head(wire).id = count - Len(wire) + 1
         /\ Len(Tail(wire)) = Len(wire) - 1
         /\ \A i \in DOMAIN Tail(wire) : Tail(wire)[i].id = count - Len(Tail(wire)) + i
<1>1. wire \in Seq(Packets) /\ Len(wire) \in Nat /\ Len(wire) > 0 /\ count \in Nat
  BY TimeAssumption DEF TypeOK
<1>2. Head(wire) = wire[1] /\ 1 \in DOMAIN wire
  BY <1>1
<1>3. ASSUME NEW i \in DOMAIN Tail(wire)
      PROVE Tail(wire)[i].id = count - Len(Tail(wire)) + i
  <2>1. i + 1 \in DOMAIN wire /\ Tail(wire)[i] = wire[i + 1] /\ i \in Nat
    BY <1>1
  <2>2. wire[i + 1].id = count - Len(wire) + (i + 1)
    BY <2>1 DEF WireInOrder
  <2>3. QED
    BY <1>1, <2>1, <2>2
<1>4. QED
  BY <1>1, <1>2, <1>3 DEF WireInOrder

LEMMA CapturePlaces == PlacesInv /\ TypeOK' /\ Capture => PlacesInv'
<1> SUFFICES ASSUME PlacesInv, TypeOK', Capture PROVE PlacesInv'
  OBVIOUS
<1>1. PICK p : /\ wire' = Append(wire, p) /\ p.id = count + 1
  BY DEF Capture
<1>2. wire \in Seq(Packets) /\ Len(wire) \in Nat /\ count \in Nat /\ count' = count + 1
  BY TimeAssumption DEF PlacesInv, TypeOK, Capture
<1>3. Len(wire') = Len(wire) + 1 /\ count' - Len(wire') = count - Len(wire)
  BY <1>1, <1>2
<1>4. ASSUME NEW i \in DOMAIN wire' PROVE wire'[i].id = count' - Len(wire') + i
  <2>1. CASE i = Len(wire) + 1
    BY <1>1, <1>2, <1>3, <2>1
  <2>2. CASE i # Len(wire) + 1
    <3>1. i \in DOMAIN wire /\ wire'[i] = wire[i]
      BY <1>1, <1>2, <2>2
    <3>2. QED
      BY <1>2, <1>3, <3>1 DEF PlacesInv, WireInOrder
  <2>3. QED
    BY <2>1, <2>2
<1>5. WireInOrder'
  BY <1>2, <1>3, <1>4 DEF PlacesInv, WireInOrder
<1>6. QED
  BY <1>3, <1>5 DEF Capture, thread, PlacesInv, OthersAreOlder, NoHalfFlow, HeldToCallBack, Apart

LEMMA OnPacketPlaces == PlacesInv /\ TypeOK' /\ OnPacket => PlacesInv'
<1> SUFFICES ASSUME PlacesInv, TypeOK', OnPacket PROVE PlacesInv'
  OBVIOUS
<1> USE DEF PlacesInv
<1>1. wire # <<>> /\ wire' = Tail(wire) /\ count' = count /\ UNCHANGED <<held, pc, rows>>
  BY DEF OnPacket, thread
<1>2. /\ Head(wire) \in Packets /\ Head(wire).id = count - Len(wire) + 1
      /\ Len(wire') = Len(wire) - 1 /\ count \in Nat /\ Len(wire) \in Nat
  BY <1>1, HeadIsNext, TimeAssumption DEF TypeOK
<1>3. WireInOrder'
  BY <1>1, <1>2, HeadIsNext DEF WireInOrder
<1>4. count' - Len(wire') = count - Len(wire) + 1
  BY <1>1, <1>2
<1>5. \A p \in Packets : p.id <= count - Len(wire) => p.id <= count' - Len(wire') /\ p # Head(wire)
  BY <1>2, <1>4 DEF Packets
<1>6. CASE Head(wire).key = Junk
  <2>1. flows' = flows
    BY <1>6 DEF OnPacket
  <2>2. OthersAreOlder'
    <3>1. \A k \in Keys : PacketsOf(flows[k]) \subseteq Packets
      BY DEF TypeOK, Flow, PacketsOf
    <3>2. \A t \in Threads : \A r \in held[t] : PacketsOf(r) \subseteq Packets
      BY DEF TypeOK, Rows, PacketsOf
    <3>3. \A r \in rows : PacketsOf(r) \subseteq Packets
      BY DEF TypeOK, Rows, PacketsOf
    <3>4. QED
      BY <1>1, <1>5, <2>1, <3>1, <3>2, <3>3 DEF OthersAreOlder
  <2>3. QED
    BY <1>1, <1>3, <2>1, <2>2 DEF NoHalfFlow, HeldToCallBack, Apart
<1>7. CASE Head(wire).key # Junk
  <2> DEFINE p == Head(wire)
  <2>1. flows' = Added(p)
    BY <1>7 DEF OnPacket
  <2>2. PICK k \in Keys : /\ PacketsOf(flows'[k]) = PacketsOf(flows[k]) \cup {p}
                          /\ \A j \in Keys : j # k => flows'[j] = flows[j]
                          /\ flows'[k].fwd # {}
    BY <1>2, <1>7, <2>1, AddedPackets
  <2>3. \A j \in Keys : PacketsOf(flows[j]) \subseteq Packets
    BY DEF TypeOK, Flow, PacketsOf
  <2>4. \A t \in Threads : \A r \in held[t] : PacketsOf(r) \subseteq Packets
    BY DEF TypeOK, Rows, PacketsOf
  <2>5. \A r \in rows : PacketsOf(r) \subseteq Packets
    BY DEF TypeOK, Rows, PacketsOf
  <2>6. p.id <= count' - Len(wire')
    BY <1>2, <1>4
  <2>7. \A j \in Keys : p \notin PacketsOf(flows[j])
    BY <1>5, <2>3 DEF OthersAreOlder
  <2>8. \A t \in Threads : \A r \in held[t] : p \notin PacketsOf(r)
    BY <1>5, <2>4 DEF OthersAreOlder
  <2>9. OthersAreOlder'
    <3>1. ASSUME NEW j \in Keys, NEW q \in PacketsOf(flows'[j]) PROVE q.id <= count' - Len(wire')
      <4>1. q \in PacketsOf(flows[j]) \/ q = p
        BY <2>2, <3>1
      <4>2. QED
        BY <1>5, <2>3, <2>6, <4>1 DEF OthersAreOlder
    <3>2. \A t \in Threads : \A r \in held'[t] : \A q \in PacketsOf(r) : q.id <= count' - Len(wire')
      BY <1>1, <1>5, <2>4 DEF OthersAreOlder
    <3>3. \A r \in rows' : \A q \in PacketsOf(r) : q.id <= count' - Len(wire')
      BY <1>1, <1>5, <2>5 DEF OthersAreOlder
    <3>4. QED
      BY <3>1, <3>2, <3>3 DEF OthersAreOlder
  <2>10. NoHalfFlow'
    BY <2>2 DEF NoHalfFlow
  <2>11. Apart'
    <3>1. ASSUME NEW i \in Keys, NEW j \in Keys, i # j
          PROVE PacketsOf(flows'[i]) \cap PacketsOf(flows'[j]) = {}
      <4>1. PacketsOf(flows[i]) \cap PacketsOf(flows[j]) = {}
        BY <3>1 DEF Apart
      <4>2. QED
        BY <2>2, <2>7, <3>1, <4>1
    <3>2. ASSUME NEW t \in Threads, NEW r \in held'[t], NEW j \in Keys
          PROVE PacketsOf(r) \cap PacketsOf(flows'[j]) = {}
      <4>1. PacketsOf(r) \cap PacketsOf(flows[j]) = {} /\ p \notin PacketsOf(r)
        BY <1>1, <2>8 DEF Apart
      <4>2. QED
        BY <2>2, <4>1
    <3>3. QED
      BY <1>1, <3>1, <3>2 DEF Apart
  <2>12. QED
    BY <1>1, <1>3, <2>9, <2>10, <2>11 DEF HeldToCallBack
<1>8. QED
  BY <1>6, <1>7
(* Taking flows out moves their packets to the rows of one thread. *)
LEMMA TakenPlaces ==
  ASSUME PlacesInv, TypeOK', NEW t \in Threads, NEW ks \in SUBSET Keys, held[t] = {},
         held' = [held EXCEPT ![t] = {Row(k) : k \in ks}], flows' = Without(ks),
         UNCHANGED <<wire, count, rows>>,
         \A u \in Threads : held'[u] # {} => pc'[u] = "popped"
  PROVE  PlacesInv'
<1> USE DEF PlacesInv
<1>1. /\ held'[t] = {Row(k) : k \in ks}
      /\ \A u \in Threads : u # t => held'[u] = held[u]
  BY DEF TypeOK
<1>2. \A r \in held'[t] : \E k \in ks : PacketsOf(r) = PacketsOf(flows[k])
  BY <1>1, RowTyped DEF TypeOK
<1>3. \A k \in Keys : \/ k \in ks /\ PacketsOf(flows'[k]) = {} /\ flows'[k].bwd = {}
                      \/ k \notin ks /\ flows'[k] = flows[k]
  BY DEF Without, NoFlow, PacketsOf
<1>4. WireInOrder'
  BY DEF WireInOrder
<1>5. OthersAreOlder'
  <2>1. \A k \in Keys : \A p \in PacketsOf(flows'[k]) : p.id <= count' - Len(wire')
    BY <1>3 DEF OthersAreOlder
  <2>2. ASSUME NEW u \in Threads, NEW r \in held'[u], NEW p \in PacketsOf(r)
        PROVE p.id <= count' - Len(wire')
    <3>1. CASE u = t
      BY <1>2, <2>2, <3>1 DEF OthersAreOlder
    <3>2. CASE u # t
      BY <1>1, <2>2, <3>2 DEF OthersAreOlder
    <3>3. QED
      BY <3>1, <3>2
  <2>3. QED
    BY <2>1, <2>2 DEF OthersAreOlder
<1>6. NoHalfFlow'
  BY <1>3 DEF NoHalfFlow
<1>7. Apart'
  <2>1. ASSUME NEW i \in Keys, NEW j \in Keys, i # j
        PROVE PacketsOf(flows'[i]) \cap PacketsOf(flows'[j]) = {}
    BY <1>3, <2>1 DEF Apart
  <2>2. ASSUME NEW u \in Threads, NEW r \in held'[u], NEW j \in Keys
        PROVE PacketsOf(r) \cap PacketsOf(flows'[j]) = {}
    <3>1. CASE u # t
      BY <1>1, <1>3, <2>2, <3>1 DEF Apart
    <3>2. CASE u = t
      <4>1. PICK k \in ks : PacketsOf(r) = PacketsOf(flows[k])
        BY <1>2, <2>2, <3>2
      <4>2. QED
        BY <1>3, <4>1 DEF Apart
    <3>3. QED
      BY <3>1, <3>2
  <2>3. ASSUME NEW r \in held'["monitor"], NEW s \in held'["stopper"]
        PROVE PacketsOf(r) \cap PacketsOf(s) = {}
    <3>1. CASE t = "monitor"
      <4>1. PICK k \in ks : PacketsOf(r) = PacketsOf(flows[k])
        BY <1>2, <3>1
      <4>2. s \in held["stopper"] /\ "stopper" \in Threads
        BY <1>1, <3>1 DEF Threads
      <4>3. QED
        BY <4>1, <4>2 DEF Apart
    <3>2. CASE t = "stopper"
      <4>1. PICK k \in ks : PacketsOf(s) = PacketsOf(flows[k])
        BY <1>2, <3>2
      <4>2. r \in held["monitor"] /\ "monitor" \in Threads
        BY <1>1, <3>2 DEF Threads
      <4>3. QED
        BY <4>1, <4>2 DEF Apart
    <3>3. QED
      BY <3>1, <3>2 DEF Threads
  <2>4. QED
    BY <2>1, <2>2, <2>3 DEF Apart
<1>8. QED
  BY <1>4, <1>5, <1>6, <1>7 DEF HeldToCallBack

LEMMA PopPlaces == PlacesInv /\ TypeOK' /\ Pop => PlacesInv'
<1> SUFFICES ASSUME PlacesInv, TypeOK', Pop PROVE PlacesInv'
  OBVIOUS
<1>1. Completed \subseteq Keys /\ "monitor" \in Threads
  BY DEF Completed, Tracked, Threads
<1>2. held["monitor"] = {}
  BY <1>1 DEF PlacesInv, HeldToCallBack, Pop, At
<1>3. \A u \in Threads : held'[u] # {} => pc'[u] = "popped"
  BY DEF PlacesInv, TypeOK, HeldToCallBack, Pop, Goes, Threads
<1>4. QED
  BY <1>1, <1>2, <1>3, TakenPlaces DEF Pop

LEMMA FlushPlaces == PlacesInv /\ TypeOK' /\ Flush => PlacesInv'
<1> SUFFICES ASSUME PlacesInv, TypeOK', Flush PROVE PlacesInv'
  OBVIOUS
<1>1. Tracked \subseteq Keys /\ "stopper" \in Threads
  BY DEF Tracked, Threads
<1>2. held["stopper"] = {}
  BY <1>1 DEF PlacesInv, HeldToCallBack, Flush, At
<1>3. \A u \in Threads : held'[u] # {} => pc'[u] = "popped"
  BY DEF PlacesInv, TypeOK, HeldToCallBack, Flush, Goes, Threads
<1>4. QED
  BY <1>1, <1>2, <1>3, TakenPlaces DEF Flush

LEMMA CallBackPlaces ==
  ASSUME PlacesInv, TypeOK', NEW t \in Threads, CallBack(t)
  PROVE  PlacesInv'
<1> USE DEF PlacesInv
<1>1. /\ held'[t] = {} /\ \A u \in Threads : u # t => held'[u] = held[u] /\ pc'[u] = pc[u]
      /\ rows' = rows \cup held[t] /\ UNCHANGED <<wire, count, flows>>
  BY DEF CallBack, TypeOK, Goes, Threads
<1>2. OthersAreOlder'
  BY <1>1 DEF OthersAreOlder
<1>3. HeldToCallBack'
  BY <1>1 DEF HeldToCallBack
<1>4. Apart'
  <2>1. \A u \in Threads : held'[u] \subseteq held[u]
    BY <1>1
  <2>2. held'["monitor"] \subseteq held["monitor"] /\ held'["stopper"] \subseteq held["stopper"]
    BY <2>1 DEF Threads
  <2>3. QED
    BY <1>1, <2>1, <2>2 DEF Apart
<1>5. QED
  BY <1>1, <1>2, <1>3, <1>4 DEF WireInOrder, NoHalfFlow

LEMMA NotStartedNext == TypeOK /\ NotStarted /\ [Next]_vars => NotStarted'
<1> SUFFICES ASSUME TypeOK, NotStarted, [Next]_vars PROVE NotStarted'
  OBVIOUS
<1> USE DEF TypeOK, NotStarted, mode, thread, At, Goes
<1>1. CASE Start \/ Sniffing \/ Capture \/ OnPacket \/ Clock \/ UNCHANGED vars
  BY <1>1 DEF Start, Sniffing, Capture, OnPacket, Clock, vars
<1>2. CASE MonitorStep
  BY <1>2 DEF MonitorStep, Pop, CallBack, Look, PopNothing, MonitorReturns, MonitorEnds
<1>3. CASE Stop \/ StopStep
  BY <1>3 DEF Stop, StopStep, StopSniffer, JoinMonitor, Flush, CallBack, StopReturns
<1>4. QED
  BY <1>1, <1>2, <1>3 DEF Next

(* The invariant: all other steps keep packets and rows where they are. *)
LEMMA PlacesNext == PlacesInv /\ NotStarted /\ [Next]_vars => PlacesInv'
<1> SUFFICES ASSUME PlacesInv, NotStarted, [Next]_vars PROVE PlacesInv'
  OBVIOUS
<1>1. TypeOK'
  BY TypeNext DEF PlacesInv
<1> DEFINE Still == UNCHANGED <<wire, count, flows, held, rows>>
              /\ \A t \in Threads : held[t] # {} => pc'[t] = "popped"
<1> USE DEF mode, thread, At, Goes
<1>2. ASSUME UNCHANGED pc \/ \E t \in Threads : pc[t] # "popped" /\ \E to : pc' = [pc EXCEPT ![t] = to]
      PROVE \A t \in Threads : held[t] # {} => pc'[t] = "popped"
  BY <1>2 DEF PlacesInv, TypeOK, HeldToCallBack, Threads
<1>3. CASE Start \/ Sniffing \/ Clock \/ Look \/ PopNothing \/ MonitorReturns \/ MonitorEnds \/ Stop
           \/ StopSniffer \/ JoinMonitor \/ StopReturns \/ UNCHANGED vars
  <2>1. UNCHANGED <<wire, count, flows, held, rows>>
    BY <1>3 DEF Start, Sniffing, Clock, Look, PopNothing, MonitorReturns, MonitorEnds, Stop, StopSniffer,
                JoinMonitor, StopReturns, vars
  <2>2. \A t \in Threads : held[t] # {} => pc'[t] = "popped"
    <3>1. CASE Start
      BY <3>1 DEF Start, NotStarted, PlacesInv, TypeOK, HeldToCallBack, Threads
    <3>2. CASE Sniffing \/ Clock \/ UNCHANGED vars
      BY <1>2, <3>2 DEF Sniffing, Clock, vars
    <3>3. CASE Look \/ PopNothing \/ MonitorReturns \/ MonitorEnds
      BY <1>2, <3>3 DEF Look, PopNothing, MonitorReturns, MonitorEnds, Threads
    <3>4. CASE Stop \/ StopSniffer \/ JoinMonitor \/ StopReturns
      BY <1>2, <3>4 DEF Stop, StopSniffer, JoinMonitor, StopReturns, Threads
    <3>5. QED
      BY <1>3, <3>1, <3>2, <3>3, <3>4
  <2>3. QED
    BY <1>1, <2>1, <2>2, PlacesKept
<1>4. ASSUME NEW t \in Threads, CallBack(t) PROVE PlacesInv'
  BY <1>1, <1>4, CallBackPlaces
<1>5. CASE Capture \/ OnPacket \/ Pop \/ Flush
  BY <1>1, <1>5, CapturePlaces, OnPacketPlaces, PopPlaces, FlushPlaces
<1>6. QED
  BY <1>3, <1>4, <1>5 DEF Next, MonitorStep, StopStep, Threads

(* Every packet is in one place, and every row a thread holds is about to be *)
(* handed on, for every set of keys and every bound                        *)
(* (live_packet_capture.py:57-71, 134-154; cicflow_features.py:191-240).    *)
THEOREM PlacesInvariant == Spec => [](PlacesInv /\ NotStarted)
<1>1. Init => PlacesInv /\ NotStarted
  BY PlacesInit DEF Init, NotStarted
<1>2. PlacesInv /\ NotStarted /\ [Next]_vars => (PlacesInv /\ NotStarted)'
  BY PlacesNext, NotStartedNext DEF PlacesInv
<1>3. QED
  BY <1>1, <1>2, PTL DEF Spec

-----------------------------------------------------------------------------
(* The refinement *)

(* What waits and what was delivered, packet by packet, before and after a *)
(* step.                                                                  *)
LEMMA IsHeld ==
  ASSUME NEW p
  PROVE  /\ p \in Waiting <=> \/ \E k \in Keys : p \in PacketsOf(flows[k])
                           \/ \E t \in Threads : \E r \in held[t] : p \in PacketsOf(r)
         /\ p \in Delivered <=> \E r \in rows : p \in PacketsOf(r)
<1>1. p \in UNION {PacketsOf(flows[k]) : k \in Keys} <=> \E k \in Keys : p \in PacketsOf(flows[k])
  OBVIOUS
<1>2. ASSUME NEW t \in Threads
      PROVE p \in InRows(held[t]) <=> \E r \in held[t] : p \in PacketsOf(r)
  BY DEF InRows
<1>3. p \in UNION {InRows(held[t]) : t \in Threads} <=> \E t \in Threads : p \in InRows(held[t])
  OBVIOUS
<1>4. p \in Waiting <=> \/ p \in UNION {PacketsOf(flows[k]) : k \in Keys}
                      \/ p \in UNION {InRows(held[t]) : t \in Threads}
  BY DEF Waiting
<1>5. p \in Delivered <=> \E r \in rows : p \in PacketsOf(r)
  BY DEF Delivered, InRows, PacketsOf
<1>6. QED
  BY <1>1, <1>2, <1>3, <1>4, <1>5

LEMMA IsHeldNext ==
  ASSUME NEW p
  PROVE  /\ p \in Waiting' <=> \/ \E k \in Keys : p \in PacketsOf(flows'[k])
                           \/ \E t \in Threads : \E r \in held'[t] : p \in PacketsOf(r)
         /\ p \in Delivered' <=> \E r \in rows' : p \in PacketsOf(r)
<1>1. p \in UNION {PacketsOf(flows'[k]) : k \in Keys} <=> \E k \in Keys : p \in PacketsOf(flows'[k])
  OBVIOUS
<1>2. ASSUME NEW t \in Threads
      PROVE p \in InRows(held'[t]) <=> \E r \in held'[t] : p \in PacketsOf(r)
  BY DEF InRows
<1>3. p \in UNION {InRows(held'[t]) : t \in Threads} <=> \E t \in Threads : p \in InRows(held'[t])
  OBVIOUS
<1>4. p \in Waiting' <=> \/ p \in UNION {PacketsOf(flows'[k]) : k \in Keys}
                      \/ p \in UNION {InRows(held'[t]) : t \in Threads}
  BY DEF Waiting
<1>5. p \in Delivered' <=> \E r \in rows' : p \in PacketsOf(r)
  BY DEF Delivered, InRows, PacketsOf
<1>6. QED
  BY <1>1, <1>2, <1>3, <1>4, <1>5

LEMMA LedgerInit == Init => Ledger!LedgerInit
<1> SUFFICES ASSUME Init PROVE Ledger!LedgerInit
  OBVIOUS
<1>1. \A k \in Keys : PacketsOf(flows[k]) = {}
  BY DEF Init, NoFlow, PacketsOf
<1>2. \A t \in Threads : held[t] = {}
  BY DEF Init
<1>3. QED
  BY <1>1, <1>2 DEF Init, Ledger!LedgerInit, Waiting, Delivered, InRows

(* A step that leaves flows and rows alone does not show in the ledger. *)
LEMMA LedgerStill ==
  ASSUME UNCHANGED <<flows, held, rows>>
  PROVE  UNCHANGED Ledger!ledger
BY DEF Ledger!ledger, Waiting, Delivered, InRows, PacketsOf

(* Taking flows out moves packets within what waits. *)
LEMMA LedgerTaken ==
  ASSUME PlacesInv, NEW t \in Threads, NEW ks \in SUBSET Keys, held[t] = {},
         held' = [held EXCEPT ![t] = {Row(k) : k \in ks}], flows' = Without(ks), rows' = rows
  PROVE  UNCHANGED Ledger!ledger
<1> USE DEF PlacesInv
<1>1. /\ held'[t] = {Row(k) : k \in ks}
      /\ \A u \in Threads : u # t => held'[u] = held[u]
  BY DEF TypeOK
<1>2. \A k \in Keys : PacketsOf(Row(k)) = PacketsOf(flows[k])
  BY RowTyped DEF TypeOK
<1>3. \A k \in Keys : \/ k \in ks /\ PacketsOf(flows'[k]) = {}
                      \/ k \notin ks /\ flows'[k] = flows[k]
  BY DEF Without, NoFlow, PacketsOf
<1>4. ASSUME NEW p \in Waiting PROVE p \in Waiting'
  <2>1. CASE \E k \in Keys : p \in PacketsOf(flows[k])
    <3>1. PICK k \in Keys : p \in PacketsOf(flows[k])
      BY <2>1
    <3>2. CASE k \in ks
      <4>1. Row(k) \in held'[t] /\ p \in PacketsOf(Row(k))
        BY <1>1, <1>2, <3>1, <3>2
      <4>2. QED
        BY <4>1, IsHeldNext
    <3>3. CASE k \notin ks
      <4>1. p \in PacketsOf(flows'[k])
        BY <1>3, <3>1, <3>3
      <4>2. QED
        BY <4>1, IsHeldNext
    <3>4. QED
      BY <3>2, <3>3
  <2>2. CASE \E u \in Threads : \E r \in held[u] : p \in PacketsOf(r)
    <3>1. PICK u \in Threads : \E r \in held[u] : p \in PacketsOf(r)
      BY <2>2
    <3>2. u # t /\ held'[u] = held[u]
      BY <1>1, <3>1
    <3>3. QED
      BY <3>1, <3>2, IsHeldNext
  <2>3. QED
    BY <1>4, <2>1, <2>2, IsHeld
<1>5. ASSUME NEW p \in Waiting' PROVE p \in Waiting
  <2>1. CASE \E k \in Keys : p \in PacketsOf(flows'[k])
    BY <1>3, <2>1, IsHeld
  <2>2. CASE \E u \in Threads : \E r \in held'[u] : p \in PacketsOf(r)
    <3>0. PICK u \in Threads : \E r \in held'[u] : p \in PacketsOf(r)
      BY <2>2
    <3>1. PICK r \in held'[u] : p \in PacketsOf(r)
      BY <3>0
    <3>2. CASE u = t
      <4>1. PICK k \in ks : r = Row(k)
        BY <1>1, <3>1, <3>2
      <4>2. p \in PacketsOf(flows[k])
        BY <1>2, <3>1, <4>1
      <4>3. QED
        BY <4>2, IsHeld
    <3>3. CASE u # t
      BY <1>1, <3>0, <3>3, IsHeld
    <3>4. QED
      BY <3>2, <3>3
  <2>3. QED
    BY <1>5, <2>1, <2>2, IsHeldNext
<1>6. Waiting' = Waiting
  BY <1>4, <1>5
<1>7. Delivered' = Delivered
  BY DEF Delivered, InRows, PacketsOf
<1>8. QED
  BY <1>6, <1>7 DEF Ledger!ledger

(* A packet that is added is received, once. *)
LEMMA LedgerReceives == PlacesInv /\ OnPacket => Ledger!LedgerNext \/ UNCHANGED Ledger!ledger
<1> SUFFICES ASSUME PlacesInv, OnPacket PROVE Ledger!LedgerNext \/ UNCHANGED Ledger!ledger
  OBVIOUS
<1> USE DEF PlacesInv
<1> DEFINE p == Head(wire)
<1>1. held' = held /\ rows' = rows
  BY DEF OnPacket, thread
<1>2. p \in Packets /\ p.id = count - Len(wire) + 1 /\ count \in Nat /\ Len(wire) \in Nat
  BY HeadIsNext, TimeAssumption DEF OnPacket, TypeOK
<1>3. CASE p.key = Junk
  <2>1. flows' = flows
    BY <1>3 DEF OnPacket
  <2>2. QED
    BY <1>1, <2>1, LedgerStill
<1>4. CASE p.key # Junk
  <2>1. flows' = Added(p)
    BY <1>4 DEF OnPacket
  <2>2. PICK k \in Keys : /\ PacketsOf(flows'[k]) = PacketsOf(flows[k]) \cup {p}
                          /\ \A j \in Keys : j # k => flows'[j] = flows[j]
    BY <1>2, <1>4, <2>1, AddedPackets
  <2>3. ~(p.id <= count - Len(wire))
    BY <1>2
  <2>4. p \notin Waiting \cup Delivered
    BY <2>3, IsHeld DEF OthersAreOlder
  <2>5. Waiting' = Waiting \cup {p}
    <3>1. ASSUME NEW q PROVE q \in Waiting' <=> q \in Waiting \cup {p}
      <4>1. (\E j \in Keys : q \in PacketsOf(flows'[j])) <=> q = p \/ \E j \in Keys : q \in PacketsOf(flows[j])
        BY <2>2
      <4>2. QED
        BY <1>1, <4>1, IsHeld, IsHeldNext
    <3>2. QED
      BY <3>1
  <2>6. Delivered' = Delivered
    BY <1>1 DEF Delivered, InRows, PacketsOf
  <2>7. Ledger!Receive(p)
    BY <2>4, <2>5, <2>6 DEF Ledger!Receive
  <2>8. QED
    BY <1>2, <2>7 DEF Ledger!LedgerNext
<1>5. QED
  BY <1>3, <1>4

(* A callback delivers what its thread holds, and nobody else does. *)
LEMMA LedgerDelivers ==
  ASSUME PlacesInv, NEW t \in Threads, CallBack(t)
  PROVE  Ledger!LedgerNext \/ UNCHANGED Ledger!ledger
<1> USE DEF PlacesInv
<1> DEFINE some == InRows(held[t])
<1>1. /\ held'[t] = {} /\ \A u \in Threads : u # t => held'[u] = held[u]
      /\ rows' = rows \cup held[t] /\ flows' = flows
  BY DEF CallBack, TypeOK
<1>2. some \subseteq Waiting
  BY IsHeld DEF InRows
<1>3. \A k \in Keys : PacketsOf(flows[k]) \cap some = {}
  BY DEF Apart, InRows
<1>4. \A u \in Threads : u # t => \A r \in held[u] : PacketsOf(r) \cap some = {}
  BY DEF Apart, InRows, Threads
<1>5. Waiting' = Waiting \ some
  <2>1. ASSUME NEW q PROVE q \in Waiting' <=> q \in Waiting /\ q \notin some
    <3>1. q \in some <=> \E r \in held[t] : q \in PacketsOf(r)
      BY DEF InRows
    <3>2. (\E u \in Threads : \E r \in held'[u] : q \in PacketsOf(r))
            <=> (\E u \in Threads : u # t /\ \E r \in held[u] : q \in PacketsOf(r))
      BY <1>1
    <3>3. (\E k \in Keys : q \in PacketsOf(flows'[k])) <=> (\E k \in Keys : q \in PacketsOf(flows[k]))
      BY <1>1
    <3>4. q \in Waiting' => q \notin some
      BY <1>3, <1>4, <3>2, <3>3, IsHeldNext
    <3>5. QED
      BY <3>1, <3>2, <3>3, <3>4, IsHeld, IsHeldNext
  <2>2. QED
    BY <2>1
<1>6. Delivered' = Delivered \cup some
  BY <1>1 DEF Delivered, InRows, PacketsOf
<1>7. CASE some = {}
  BY <1>5, <1>6, <1>7 DEF Ledger!ledger
<1>8. CASE some # {}
  BY <1>2, <1>5, <1>6, <1>8 DEF Ledger!Deliver, Ledger!LedgerNext
<1>9. QED
  BY <1>7, <1>8

LEMMA LedgerNext ==
  PlacesInv /\ [Next]_vars => [Ledger!LedgerNext]_Ledger!ledger
<1> SUFFICES ASSUME PlacesInv, [Next]_vars PROVE Ledger!LedgerNext \/ UNCHANGED Ledger!ledger
  OBVIOUS
<1>1. CASE Start \/ Sniffing \/ Capture \/ Clock \/ Look \/ PopNothing \/ MonitorReturns \/ MonitorEnds \/ Stop
           \/ StopSniffer \/ JoinMonitor \/ StopReturns \/ UNCHANGED vars
  <2>1. UNCHANGED <<flows, held, rows>>
    BY <1>1 DEF Start, Sniffing, Capture, Clock, Look, PopNothing, MonitorReturns, MonitorEnds, Stop, StopSniffer,
                JoinMonitor, StopReturns, vars, thread
  <2>2. QED
    BY <2>1, LedgerStill
<1>2. CASE OnPacket
  BY <1>2, LedgerReceives
<1>3. CASE Pop
  <2>1. held["monitor"] = {} /\ "monitor" \in Threads /\ Completed \subseteq Keys
    BY <1>3 DEF PlacesInv, HeldToCallBack, Pop, At, Threads, Completed, Tracked
  <2>2. QED
    BY <1>3, <2>1, LedgerTaken DEF Pop
<1>4. CASE Flush
  <2>1. held["stopper"] = {} /\ "stopper" \in Threads /\ Tracked \subseteq Keys
    BY <1>4 DEF PlacesInv, HeldToCallBack, Flush, At, Threads, Tracked
  <2>2. QED
    BY <1>4, <2>1, LedgerTaken DEF Flush
<1>5. ASSUME NEW t \in Threads, CallBack(t) PROVE Ledger!LedgerNext \/ UNCHANGED Ledger!ledger
  BY <1>5, LedgerDelivers
<1>6. QED
  BY <1>1, <1>2, <1>3, <1>4, <1>5 DEF Next, MonitorStep, StopStep, Threads

(* The capture implements the ledger: whatever the 5-tuples, the mode, the   *)
(* idle time and the interleaving of sniffer, monitor and stop, every packet *)
(* it took is handed on at most once and is not dropped before              *)
(* (live_packet_capture.py:57-71, 134-154).                                *)
THEOREM CaptureKeepsLedger == Spec => KeepsLedger
<1>1. Init => Ledger!LedgerInit
  BY LedgerInit
<1>2. PlacesInv /\ NotStarted /\ [Next]_vars => [Ledger!LedgerNext]_Ledger!ledger
  BY LedgerNext
<1>3. QED
  BY <1>1, <1>2, PlacesInvariant, PTL DEF Spec, KeepsLedger, Ledger!LedgerSpec
-----------------------------------------------------------------------------
(* One flow, one stream *)

(* Its packets lie on the right sides. *)
Sided(fwd, bwd, key) ==
  /\ \A p \in fwd : p.key = key
  /\ \A p \in bwd : ~unidirectional /\ p.key = Reverse[key]

OneOpen == ~unidirectional => \A k \in Tracked : Reverse[k] # k => Reverse[k] \notin Tracked

StreamInv ==
  /\ TypeOK /\ OneOpen
  /\ \A k \in Keys : Sided(flows[k].fwd, flows[k].bwd, k)
  /\ \A t \in Threads : \A r \in held[t] : Sided(r.fwd, r.bwd, r.key)
  /\ \A r \in rows : Sided(r.fwd, r.bwd, r.key)

LEMMA StreamInit == Init => StreamInv
BY TypeInit DEF Init, StreamInv, OneOpen, Tracked, Sided, NoFlow

LEMMA StreamTaken ==
  ASSUME StreamInv, TypeOK', NEW t \in Threads, NEW ks \in SUBSET Keys,
         held' = [held EXCEPT ![t] = {Row(k) : k \in ks}], flows' = Without(ks),
         UNCHANGED <<rows, unidirectional>>
  PROVE  StreamInv'
<1> USE DEF StreamInv
<1>1. /\ held'[t] = {Row(k) : k \in ks}
      /\ \A u \in Threads : u # t => held'[u] = held[u]
  BY DEF TypeOK
<1>2. \A k \in Keys : Row(k).fwd = flows[k].fwd /\ Row(k).bwd = flows[k].bwd /\ Row(k).key = k
  BY DEF Row
<1>3. \A k \in Keys : \/ flows'[k].fwd = {} /\ flows'[k].bwd = {}
                      \/ flows'[k] = flows[k]
  BY DEF Without, NoFlow
<1>4. \A r \in held'[t] : Sided(r.fwd, r.bwd, r.key)
  BY <1>1, <1>2
<1>5. Tracked' \subseteq Tracked
  BY <1>3 DEF Tracked
<1>6. OneOpen'
  BY <1>5 DEF OneOpen
<1>7. QED
  BY <1>1, <1>3, <1>4, <1>6 DEF Sided

LEMMA StreamAdded == StreamInv /\ TypeOK' /\ OnPacket => StreamInv'
<1> SUFFICES ASSUME StreamInv, TypeOK', OnPacket PROVE StreamInv'
  OBVIOUS
<1> USE DEF StreamInv
<1> DEFINE p == Head(wire)
<1>1. UNCHANGED <<held, rows, unidirectional>>
  BY DEF OnPacket, thread, mode
<1>2. CASE p.key = Junk
  <2>1. flows' = flows
    BY <1>2 DEF OnPacket
  <2>2. QED
    BY <1>1, <2>1 DEF OneOpen, Tracked, Sided
<1>3. CASE p.key # Junk
  <2>0. p \in Packets
    BY DEF OnPacket, TypeOK
  <2>1. flows' = Added(p) /\ p \in Packets /\ p.key \in Keys /\ Reverse[p.key] \in Keys
    BY <1>3, <2>0, KeyAssumption DEF OnPacket, Packets
  <2>2. CASE p.key \in Tracked
    <3>1. /\ flows'[p.key].fwd = flows[p.key].fwd \cup {p} /\ flows'[p.key].bwd = flows[p.key].bwd
          /\ \A k \in Keys : k # p.key => flows'[k] = flows[k]
      BY <2>1, <2>2 DEF Added, Forward, TypeOK, Flow
    <3>2. (\A k \in Keys : Sided(flows[k].fwd, flows[k].bwd, k))'
      BY <1>1, <3>1 DEF Sided
    <3>3. Tracked' = Tracked
      BY <2>2, <3>1 DEF Tracked
    <3>4. QED
      BY <1>1, <3>2, <3>3 DEF OneOpen, Sided
  <2>3. CASE p.key \notin Tracked /\ ~unidirectional /\ Reverse[p.key] \in Tracked
    <3> DEFINE b == Reverse[p.key]
    <3>1. /\ flows'[b].bwd = flows[b].bwd \cup {p} /\ flows'[b].fwd = flows[b].fwd
          /\ \A k \in Keys : k # b => flows'[k] = flows[k]
      BY <2>1, <2>3 DEF Added, Backward, TypeOK, Flow
    <3>2. p.key = Reverse[b]
      BY <2>1, KeyAssumption
    <3>3. (\A k \in Keys : Sided(flows[k].fwd, flows[k].bwd, k))'
      BY <1>1, <2>3, <3>1, <3>2 DEF Sided
    <3>4. Tracked' = Tracked
      BY <2>1, <3>1 DEF Tracked
    <3>5. QED
      BY <1>1, <3>3, <3>4 DEF OneOpen, Sided
  <2>4. CASE p.key \notin Tracked /\ ~(~unidirectional /\ Reverse[p.key] \in Tracked)
    <3>1. /\ flows'[p.key].fwd = {p} /\ flows'[p.key].bwd = {}
          /\ \A k \in Keys : k # p.key => flows'[k] = flows[k]
      BY <2>1, <2>4 DEF Added, Opened, TypeOK
    <3>2. (\A k \in Keys : Sided(flows[k].fwd, flows[k].bwd, k))'
      BY <1>1, <3>1 DEF Sided
    <3>3. Tracked' = Tracked \cup {p.key}
      BY <2>1, <3>1 DEF Tracked
    <3>4. OneOpen'
      <4> SUFFICES ASSUME ~unidirectional, NEW k \in Tracked', Reverse[k] # k, Reverse[k] \in Tracked'
                   PROVE FALSE
        BY <1>1 DEF OneOpen
      <4>1. Reverse[p.key] \notin Tracked
        BY <2>4
      <4>2. CASE k \in Tracked
        <5>1. Reverse[k] \notin Tracked
          BY <4>2 DEF OneOpen
        <5>2. Reverse[k] = p.key
          BY <3>3, <5>1
        <5>3. Reverse[p.key] = k
          BY <4>2, <5>2, KeyAssumption DEF Tracked
        <5>4. QED
          BY <4>1, <4>2, <5>3
      <4>3. CASE k = p.key
        BY <3>3, <4>1, <4>3
      <4>4. QED
        BY <3>3, <4>2, <4>3
    <3>5. QED
      BY <1>1, <3>2, <3>4 DEF Sided
  <2>5. QED
    BY <2>2, <2>3, <2>4
<1>4. QED
  BY <1>2, <1>3

LEMMA StreamNext == StreamInv /\ [Next]_vars => StreamInv'
<1> SUFFICES ASSUME StreamInv, [Next]_vars PROVE StreamInv'
  OBVIOUS
<1>1. TypeOK'
  BY TypeNext DEF StreamInv
<1>2. CASE Start \/ Sniffing \/ Capture \/ Clock \/ Look \/ PopNothing \/ MonitorReturns \/ MonitorEnds \/ Stop
           \/ StopSniffer \/ JoinMonitor \/ StopReturns \/ UNCHANGED vars
  <2>1. UNCHANGED <<flows, held, rows, unidirectional>>
    BY <1>2 DEF Start, Sniffing, Capture, Clock, Look, PopNothing, MonitorReturns, MonitorEnds, Stop, StopSniffer,
                JoinMonitor, StopReturns, vars, thread, mode
  <2>2. QED
    BY <1>1, <2>1 DEF StreamInv, OneOpen, Tracked, Sided
<1>3. CASE OnPacket
  BY <1>1, <1>3, StreamAdded
<1>4. CASE Pop
  BY <1>1, <1>4, StreamTaken DEF Pop, mode, Threads, Completed, Tracked
<1>5. CASE Flush
  BY <1>1, <1>5, StreamTaken DEF Flush, mode, Threads, Tracked
<1>6. ASSUME NEW t \in Threads, CallBack(t) PROVE StreamInv'
  <2>1. /\ \A u \in Threads : held'[u] \subseteq held[u]
        /\ rows' = rows \cup held[t] /\ UNCHANGED <<flows, unidirectional>>
    BY <1>6 DEF CallBack, StreamInv, TypeOK, mode
  <2>2. QED
    BY <1>1, <2>1 DEF StreamInv, OneOpen, Tracked, Sided
<1>7. QED
  BY <1>2, <1>3, <1>4, <1>5, <1>6 DEF Next, MonitorStep, StopStep, Threads

(* In either mode and for every set of 5-tuples, a flow and each row made of *)
(* it is one stream: a packet on the side of its direction, none of the     *)
(* other direction in unidirectional mode (cicflow_features.py:147-149,      *)
(* 191-219), and one flow for both directions otherwise.                    *)
THEOREM StreamSafe == Spec => []OneStream
<1>1. StreamInv => OneStream
  <2> SUFFICES ASSUME StreamInv PROVE OneStream
    OBVIOUS
  <2>1. \A k \in Tracked : Row(k).key = k /\ Sided(Row(k).fwd, Row(k).bwd, k)
    BY DEF StreamInv, Row, Tracked
  <2>2. QED
    BY <2>1 DEF StreamInv, OneOpen, OneStream, Sided
<1>2. QED
  BY <1>1, StreamInit, StreamNext, PTL DEF Spec
-----------------------------------------------------------------------------
(* After stop *)

AfterJoin  == {"flush", "popped", "calling", "done"}
AfterFlush == {"popped", "calling", "done"}

EndInv ==
  /\ TypeOK
  /\ past \in [setBack : Nat, lagged : BOOLEAN, leaked : BOOLEAN, gaveUp : BOOLEAN]
  /\ NotStarted
  /\ pc["stopper"] \in AfterJoin => past.gaveUp \/ At("monitor", "ended")
  /\ ~At("stopper", "idle") => ~At("monitor", "none")
  /\ pc["stopper"] \in {"join"} \cup AfterJoin => past.leaked \/ sniffer = "ended"
  /\ pc["stopper"] \in AfterFlush => past.leaked \/ Tracked = {}
  /\ pc["stopper"] # "popped" => held["stopper"] = {}

LEMMA EndInit == Init => EndInv
BY TypeInit DEF Init, EndInv, NotStarted, At, Tracked, NoFlow, AfterJoin, AfterFlush, Threads

LEMMA EndNext == EndInv /\ [Next]_vars => EndInv'
<1> SUFFICES ASSUME EndInv, [Next]_vars PROVE EndInv'
  OBVIOUS
<1> USE DEF EndInv, At, Goes, AfterJoin, AfterFlush, Threads, mode
<1>1. TypeOK' /\ NotStarted'
  BY TypeNext, NotStartedNext
<1> USE <1>1
<1>2. CASE Start
  BY <1>2 DEF Start, NotStarted, TypeOK, Tracked
<1>3. CASE Sniffing \/ Capture
  BY <1>3 DEF Sniffing, Capture, thread, TypeOK, Tracked
<1>4. CASE OnPacket
  BY <1>4 DEF OnPacket, thread
<1>5. CASE Clock
  BY <1>5 DEF Clock, thread, TypeOK, Tracked
<1>6. CASE Pop
  <2>1. /\ pc["monitor"] = "looking" /\ pc'["monitor"] = "popped" /\ pc'["stopper"] = pc["stopper"]
        /\ held'["stopper"] = held["stopper"]
        /\ UNCHANGED sniffer /\ past' = [past EXCEPT !.lagged = @ \/ wire # <<>>]
    BY <1>6 DEF Pop, TypeOK
  <2>2. Tracked' \subseteq Tracked
    BY <1>6 DEF Pop, Without, NoFlow, Tracked
  <2>3. QED
    BY <2>1, <2>2
<1>7. CASE CallBack("monitor")
  BY <1>7 DEF CallBack, TypeOK, Tracked
<1>8. CASE Look \/ PopNothing \/ MonitorReturns \/ MonitorEnds
  BY <1>8 DEF Look, PopNothing, MonitorReturns, MonitorEnds, TypeOK, Tracked
<1>9. CASE Stop
  BY <1>9 DEF Stop, TypeOK, Tracked
<1>10. CASE StopSniffer
  BY <1>10 DEF StopSniffer, NotStarted, TypeOK, Tracked
<1>11. CASE JoinMonitor
  BY <1>11 DEF JoinMonitor, TypeOK, Tracked
<1>12. CASE Flush
  <2>1. Tracked' = {}
    BY <1>12 DEF Flush, Without, Tracked, NoFlow
  <2>2. held'["stopper"] = {Row(k) : k \in Tracked}
    BY <1>12 DEF Flush, TypeOK
  <2>3. QED
    BY <1>12, <2>1, <2>2 DEF Flush, TypeOK
<1>13. CASE CallBack("stopper")
  BY <1>13 DEF CallBack, TypeOK, Tracked
<1>14. CASE StopReturns
  BY <1>14 DEF StopReturns, TypeOK, Tracked
<1>15. CASE UNCHANGED vars
  BY <1>15 DEF vars, thread, Tracked
<1>16. QED
  BY <1>2, <1>3, <1>4, <1>5, <1>6, <1>7, <1>8, <1>9, <1>10, <1>11, <1>12, <1>13, <1>14, <1>15
     DEF Next, MonitorStep, StopStep

(* What a stop has ended by each of its positions, at every step.          *)
THEOREM EndInvariant == Spec => []EndInv
BY EndInit, EndNext, PTL DEF Spec

(* After any stop, at whatever moment it fell, nothing is left in the        *)
(* extractor and the monitor calls back no more, but for a sniffer that came *)
(* up late and a monitor that stop gave up on (134-154).                    *)
(* And two threads are never in the callback at once, unless stop gave up   *)
(* on the monitor (145-152).                                               *)
THEOREM StopSafe == Spec => []StopIsClean
<1>1. EndInv => SilentAfterStop
  BY DEF EndInv, SilentAfterStop, At, AfterJoin, AfterFlush
<1>2. EndInv => CallbacksAlone
  BY DEF EndInv, CallbacksAlone, At, AfterJoin
<1>3. EndInv => StopIsClean
  BY <1>1, <1>2 DEF StopIsClean
<1>4. QED
  BY <1>3, EndInvariant, PTL

-----------------------------------------------------------------------------
(* What rows say of their times *)

(* A flow's or a row's times are those of its oldest and newest packets,   *)
(* and its packets are stamped in the order they came.                     *)
Dated(f) ==
  /\ IsFiniteSet(PacketsOf(f))
  /\ \A p, q \in PacketsOf(f) : p.id <= q.id => p.ts <= q.ts
  /\ \E p \in PacketsOf(f) : f.first = p.ts /\ \A q \in PacketsOf(f) : p.id <= q.id
  /\ \E p \in PacketsOf(f) : f.last = p.ts /\ \A q \in PacketsOf(f) : q.id <= p.id

(* What is still to come is not stamped earlier than what came. *)
WireIsLater ==
  /\ \A i \in DOMAIN wire : wire[i].ts <= now
  /\ \A i, j \in DOMAIN wire : i <= j => wire[i].ts <= wire[j].ts
  /\ \A k \in Keys : \A p \in PacketsOf(flows[k]) :
       p.ts <= now /\ \A i \in DOMAIN wire : p.ts <= wire[i].ts

Closed == rows \cup held["monitor"] \cup held["stopper"]

TimesInv ==
  past.setBack = 0 =>
    /\ WireIsLater
    /\ \A k \in Tracked : Dated(flows[k])
    /\ \A r \in Closed : Dated(r)

(* Rows of one stream lie in some order with a silence between them. *)
SameStream(j, k) == j = k \/ (~unidirectional /\ j = Reverse[k])
Silence(from, to) == to - from >= IdleTimeout

(* A row that the monitor closed is followed by silence, until stop has     *)
(* flushed what was still open.                                            *)
SilentSince(r) ==
  /\ Silence(r.last, now)
  /\ \A i \in DOMAIN wire : wire[i].key # Junk /\ SameStream(wire[i].key, r.key) =>
       Silence(r.last, wire[i].ts)
  /\ \A k \in Tracked : SameStream(k, r.key) => Silence(r.last, flows[k].first)

CutApart(r, s) == r # s /\ SameStream(s.key, r.key) => Silence(r.last, s.first) \/ Silence(s.last, r.first)

Timely == past.setBack = 0 /\ ~past.lagged /\ ~(past.leaked /\ past.gaveUp)

CutInv ==
  Timely =>
    /\ \A r, s \in Closed : CutApart(r, s)
    /\ pc["stopper"] \notin AfterFlush => \A r \in Closed : SilentSince(r)

-----------------------------------------------------------------------------
(* Some packets have an oldest one and a newest one. *)
LEMMA OldestNewest ==
  ASSUME NEW ps \in SUBSET Packets, ps # {}
  PROVE  /\ \E p \in ps : \A q \in ps : p.id <= q.id
         /\ \E p \in ps : \A q \in ps : q.id <= p.id
<1> DEFINE R == OpToRel(<, Nat)
           low == {p.id : p \in ps}
           high == {MaxPackets - p.id : p \in ps}
<1>1. IsWellFoundedOn(R, Nat)
  BY NatLessThanWellFounded
<1>2. \A p \in ps : p.id \in Nat /\ MaxPackets - p.id \in Nat
  BY TimeAssumption DEF Packets
<1>3. low \in SUBSET Nat /\ low # {} /\ high \in SUBSET Nat /\ high # {}
  BY <1>2
<1>4. PICK m \in low : \A n \in low : ~(<<n, m>> \in R)
  BY <1>1, <1>3, WFMin
<1>5. PICK g \in high : \A n \in high : ~(<<n, g>> \in R)
  BY <1>1, <1>3, WFMin
<1>6. (\A n \in low : ~(n < m)) /\ (\A n \in high : ~(n < g))
  BY <1>3, <1>4, <1>5 DEF OpToRel
<1>7. PICK p \in ps : p.id = m
  BY <1>4
<1>8. PICK q \in ps : MaxPackets - q.id = g
  BY <1>5
<1>9. \A o \in ps : p.id <= o.id
  BY <1>2, <1>6, <1>7
<1>10. ASSUME NEW o \in ps PROVE o.id <= q.id
  <2>1. MaxPackets - o.id \in high
    OBVIOUS
  <2>2. ~(MaxPackets - o.id < MaxPackets - q.id)
    BY <1>6, <1>8, <2>1
  <2>3. QED
    BY <1>2, <2>2, TimeAssumption
<1>11. QED
  BY <1>9, <1>10

(* Of fewer than two packets any two are the same. *)
LEMMA FewerThanTwo ==
  ASSUME NEW ps, IsFiniteSet(ps), Cardinality(ps) < 2, NEW p \in ps, NEW q \in ps
  PROVE  p = q
<1> SUFFICES ASSUME p # q PROVE FALSE
  OBVIOUS
<1>1. /\ IsFiniteSet(ps \ {p}) /\ Cardinality(ps \ {p}) = Cardinality(ps) - 1
      /\ Cardinality(ps) \in Nat
  BY FS_RemoveElement, FS_CardinalityType
<1>2. /\ IsFiniteSet((ps \ {p}) \ {q})
      /\ Cardinality((ps \ {p}) \ {q}) = Cardinality(ps \ {p}) - 1
  BY <1>1, FS_RemoveElement
<1>3. Cardinality((ps \ {p}) \ {q}) \in Nat
  BY <1>2, FS_CardinalityType
<1>4. QED
  BY <1>1, <1>2, <1>3

(* The sum of the gaps is the span from the oldest to the newest packet.   *)
LEMMA GapsAreSpan ==
  ASSUME NEW ps \in SUBSET Packets, IsFiniteSet(ps),
         \A p, q \in ps : p.id <= q.id => p.ts <= q.ts,
         NEW oldest \in ps, \A q \in ps : oldest.id <= q.id,
         NEW newest \in ps, \A q \in ps : q.id <= newest.id
  PROVE  IatTotal(ps) = newest.ts - oldest.ts
<1> DEFINE n == CHOOSE p \in ps : \A q \in ps : q.id <= p.id
           o == CHOOSE p \in ps : \A q \in ps : p.id <= q.id
<1>1. n \in ps /\ o \in ps /\ (\A q \in ps : q.id <= n.id) /\ (\A q \in ps : o.id <= q.id)
  OBVIOUS
<1>2. \A p \in ps : p.ts \in Nat
  BY TimeAssumption DEF Packets
<1>3. n.ts = newest.ts /\ o.ts = oldest.ts
  <2>1. n.ts <= newest.ts /\ newest.ts <= n.ts /\ o.ts <= oldest.ts /\ oldest.ts <= o.ts
    BY <1>1
  <2>2. n.ts \in Nat /\ newest.ts \in Nat /\ o.ts \in Nat /\ oldest.ts \in Nat
    BY <1>1, <1>2
  <2>3. QED
    BY <2>1, <2>2
<1>4. CASE Cardinality(ps) < 2
  <2>1. newest = oldest
    BY <1>4, FewerThanTwo
  <2>2. QED
    BY <1>2, <1>4, <2>1 DEF IatTotal
<1>5. CASE ~(Cardinality(ps) < 2)
  <2>1. IatTotal(ps) = n.ts - o.ts
    BY <1>5 DEF IatTotal
  <2>2. QED
    BY <1>3, <2>1
<1>6. QED
  BY <1>4, <1>5

(* The features of a row that is dated well agree with each other. *)
LEMMA DatedAgrees ==
  ASSUME NEW r \in Rows, Dated(r)
  PROVE  /\ Duration(r) = IatTotal(PacketsOf(r))
         /\ IatTotal(r.fwd) \in 0..Duration(r) /\ IatTotal(r.bwd) \in 0..Duration(r)
         /\ r.first <= r.last
<1>1. PacketsOf(r) \in SUBSET Packets /\ r.fwd \subseteq PacketsOf(r) /\ r.bwd \subseteq PacketsOf(r)
  BY DEF Rows, PacketsOf
<1>2. PICK a \in PacketsOf(r) : r.first = a.ts /\ \A q \in PacketsOf(r) : a.id <= q.id
  BY DEF Dated
<1>3. PICK z \in PacketsOf(r) : r.last = z.ts /\ \A q \in PacketsOf(r) : q.id <= z.id
  BY DEF Dated
<1>4. \A p \in PacketsOf(r) : p.ts \in Nat /\ p.id \in Nat /\ r.first <= p.ts /\ p.ts <= r.last
  <2>1. \A p \in PacketsOf(r) : p.ts \in Nat /\ p.id \in Nat
    BY <1>1, TimeAssumption DEF Packets
  <2>2. QED
    BY <1>2, <1>3, <2>1 DEF Dated
<1>5. r.first \in Nat /\ r.last \in Nat /\ r.first <= r.last
  BY <1>2, <1>3, <1>4
<1>6. Duration(r) = r.last - r.first
  BY <1>5 DEF Duration
<1>7. IatTotal(PacketsOf(r)) = r.last - r.first
  <2>1. IsFiniteSet(PacketsOf(r)) /\ \A p, q \in PacketsOf(r) : p.id <= q.id => p.ts <= q.ts
    BY DEF Dated
  <2>2. QED
    BY <1>1, <1>2, <1>3, <2>1, GapsAreSpan
<1>8. ASSUME NEW ps \in SUBSET PacketsOf(r) PROVE IatTotal(ps) \in 0..(r.last - r.first)
  <2>1. IsFiniteSet(ps) /\ \A p, q \in ps : p.id <= q.id => p.ts <= q.ts
    BY FS_Subset DEF Dated
  <2>2. CASE ps = {}
    <3>1. IatTotal(ps) = 0
      BY <2>2, FS_EmptySet DEF IatTotal
    <3>2. QED
      BY <1>5, <3>1
  <2>3. CASE ps # {}
    <3>1. PICK o \in ps : \A q \in ps : o.id <= q.id
      BY <1>1, <2>3, OldestNewest
    <3>2. PICK n \in ps : \A q \in ps : q.id <= n.id
      BY <1>1, <2>3, OldestNewest
    <3>3. IatTotal(ps) = n.ts - o.ts
      BY <1>1, <2>1, <3>1, <3>2, GapsAreSpan
    <3>4. o.ts <= n.ts /\ o.ts \in Nat /\ n.ts \in Nat /\ r.first <= o.ts /\ n.ts <= r.last
      BY <1>4, <2>1, <3>1
    <3>5. QED
      BY <1>5, <3>3, <3>4
  <2>4. QED
    BY <2>2, <2>3
<1>9. QED
  BY <1>1, <1>5, <1>6, <1>7, <1>8

-----------------------------------------------------------------------------
(* What a property excepts stays on record, and without a step back the    *)
(* clock goes on.                                                          *)
LEMMA PastStays ==
  ASSUME EndInv, [Next]_vars
  PROVE  /\ past'.setBack = 0 => past.setBack = 0 /\ now <= now'
         /\ ~past'.lagged => ~past.lagged
         /\ past.leaked => past'.leaked
         /\ past.gaveUp => past'.gaveUp
<1>1. now \in Int /\ past.setBack \in Nat
  BY TimeAssumption DEF EndInv, TypeOK
<1>2. CASE Clock
  BY <1>1, <1>2 DEF Clock, EndInv
<1>3. CASE UNCHANGED <<now, past>>
  BY <1>1, <1>3
<1>4. CASE /\ UNCHANGED now
           /\ \/ past' = [past EXCEPT !.lagged = @ \/ wire # <<>>]
              \/ past' = [past EXCEPT !.leaked = @ \/ sniffer = "starting"]
              \/ past' = [past EXCEPT !.gaveUp = @ \/ ~At("monitor", "ended")]
  BY <1>1, <1>4 DEF EndInv
<1>5. QED
  BY <1>2, <1>3, <1>4
     DEF Next, MonitorStep, StopStep, Start, Sniffing, Capture, OnPacket, Pop, CallBack,
         Look, PopNothing, MonitorReturns, MonitorEnds, Stop, StopSniffer, JoinMonitor, Flush, StopReturns, vars

(* A packet joins the flow of its stream, or opens the first one.          *)
LEMMA AddedFlow ==
  ASSUME TypeOK, NoHalfFlow, NEW p \in Packets, p.key # Junk
  PROVE  \E k \in Keys :
           /\ \A j \in Keys : j # k => Added(p)[j] = flows[j]
           /\ Added(p)[k].fwd # {} /\ Added(p)[k].last = p.ts
           /\ \/ /\ k \in Tracked /\ SameStream(k, p.key)
                 /\ Added(p)[k].first = flows[k].first
                 /\ PacketsOf(Added(p)[k]) = PacketsOf(flows[k]) \cup {p}
              \/ /\ k = p.key /\ k \notin Tracked
                 /\ Added(p)[k].first = p.ts /\ PacketsOf(Added(p)[k]) = {p}
<1>1. p.key \in Keys /\ Reverse[p.key] \in Keys /\ flows \in [Keys -> Flow]
  BY KeyAssumption DEF Packets, TypeOK
<1>2. CASE p.key \in Tracked
  <2>1. Added(p)[p.key] = Forward(flows[p.key], p)
    BY <1>1, <1>2 DEF Added
  <2>2. /\ PacketsOf(Added(p)[p.key]) = PacketsOf(flows[p.key]) \cup {p} /\ Added(p)[p.key].fwd # {}
        /\ Added(p)[p.key].first = flows[p.key].first /\ Added(p)[p.key].last = p.ts
    BY <1>1, <2>1 DEF Forward, PacketsOf, Flow
  <2>3. \A j \in Keys : j # p.key => Added(p)[j] = flows[j]
    BY <1>1, <1>2 DEF Added
  <2>4. QED
    BY <1>1, <1>2, <2>2, <2>3 DEF SameStream
<1>3. CASE p.key \notin Tracked /\ ~unidirectional /\ Reverse[p.key] \in Tracked
  <2> DEFINE k == Reverse[p.key]
  <2>1. Added(p)[k] = Backward(flows[k], p)
    BY <1>1, <1>3 DEF Added
  <2>2. /\ PacketsOf(Added(p)[k]) = PacketsOf(flows[k]) \cup {p} /\ Added(p)[k].fwd # {}
        /\ Added(p)[k].first = flows[k].first /\ Added(p)[k].last = p.ts
    BY <1>1, <1>3, <2>1 DEF Backward, PacketsOf, Flow, Tracked
  <2>3. \A j \in Keys : j # k => Added(p)[j] = flows[j]
    BY <1>1, <1>3 DEF Added
  <2>4. QED
    BY <1>1, <1>3, <2>2, <2>3 DEF SameStream
<1>4. CASE p.key \notin Tracked /\ ~(~unidirectional /\ Reverse[p.key] \in Tracked)
  <2>1. Added(p)[p.key] = Opened(p)
    BY <1>1, <1>4 DEF Added
  <2>2. /\ PacketsOf(Added(p)[p.key]) = {p} /\ Added(p)[p.key].fwd # {}
        /\ Added(p)[p.key].first = p.ts /\ Added(p)[p.key].last = p.ts
    BY <2>1 DEF Opened, PacketsOf
  <2>3. \A j \in Keys : j # p.key => Added(p)[j] = flows[j]
    BY <1>1, <1>4 DEF Added
  <2>4. QED
    BY <1>1, <1>4, <2>2, <2>3
<1>5. QED
  BY <1>2, <1>3, <1>4

(* A younger packet stamped no earlier is the newest of what it joins.     *)
LEMMA DatedGrows ==
  ASSUME NEW f, NEW g, NEW p \in Packets, Dated(f), PacketsOf(f) \subseteq Packets,
         PacketsOf(g) = PacketsOf(f) \cup {p}, g.first = f.first, g.last = p.ts,
         \A q \in PacketsOf(f) : q.id < p.id /\ q.ts <= p.ts
  PROVE  Dated(g)
<1>1. \A q \in PacketsOf(g) : q.id \in Nat /\ q.ts \in Nat
  BY TimeAssumption DEF Packets
<1>2. IsFiniteSet(PacketsOf(g))
  BY FS_AddElement DEF Dated
<1>3. \A a, b \in PacketsOf(g) : a.id <= b.id => a.ts <= b.ts
  BY <1>1 DEF Dated
<1>4. \E a \in PacketsOf(g) : g.first = a.ts /\ \A q \in PacketsOf(g) : a.id <= q.id
  <2>1. PICK a \in PacketsOf(f) : f.first = a.ts /\ \A q \in PacketsOf(f) : a.id <= q.id
    BY DEF Dated
  <2>2. \A q \in PacketsOf(g) : a.id <= q.id
    BY <1>1, <2>1
  <2>3. QED
    BY <2>1, <2>2
<1>5. \E a \in PacketsOf(g) : g.last = a.ts /\ \A q \in PacketsOf(g) : q.id <= a.id
  BY <1>1
<1>6. QED
  BY <1>2, <1>3, <1>4, <1>5 DEF Dated

LEMMA DatedOpens ==
  ASSUME NEW g, NEW p \in Packets, PacketsOf(g) = {p}, g.first = p.ts, g.last = p.ts
  PROVE  Dated(g)
<1>1. p.id \in Nat /\ p.ts \in Nat
  BY TimeAssumption DEF Packets
<1>2. IsFiniteSet({p})
  BY FS_Singleton
<1>3. QED
  BY <1>1, <1>2 DEF Dated

(* The wire moves up by one packet.                                        *)
LEMMA WireMovesUp ==
  ASSUME TypeOK, wire # <<>>
  PROVE  /\ 1 \in DOMAIN wire /\ Head(wire) = wire[1] /\ Head(wire) \in Packets
         /\ \A i \in DOMAIN Tail(wire) : i + 1 \in DOMAIN wire /\ 1 <= i + 1 /\ Tail(wire)[i] = wire[i + 1]
BY DEF TypeOK

(* Packets keep the order of their stamps when one is handed over.         *)
LEMMA OnPacketTimes ==
  ASSUME PlacesInv, EndInv, TimesInv, [Next]_vars, OnPacket
  PROVE  TimesInv'
<1> SUFFICES ASSUME past'.setBack = 0
             PROVE  WireIsLater' /\ (\A k \in Tracked : Dated(flows[k]))' /\ (\A r \in Closed : Dated(r))'
  BY DEF TimesInv
<1> DEFINE p == Head(wire)
<1>1. /\ past.setBack = 0 /\ wire # <<>> /\ wire' = Tail(wire)
      /\ UNCHANGED <<now, held, rows>> /\ TypeOK /\ NoHalfFlow
  BY PastStays DEF OnPacket, thread, PlacesInv
<1>2. WireIsLater /\ (\A k \in Tracked : Dated(flows[k])) /\ \A r \in Closed : Dated(r)
  BY <1>1 DEF TimesInv
<1>3. /\ p \in Packets /\ p.id = count - Len(wire) + 1 /\ p = wire[1] /\ 1 \in DOMAIN wire
      /\ \A i \in DOMAIN wire' : i + 1 \in DOMAIN wire /\ 1 <= i + 1 /\ wire'[i] = wire[i + 1]
  BY <1>1, WireMovesUp, HeadIsNext DEF PlacesInv
<1>4. /\ \A k \in Keys : PacketsOf(flows[k]) \subseteq Packets
      /\ \A k \in Keys : \A q \in PacketsOf(flows[k]) : q.id < p.id /\ q.ts <= p.ts
  <2>1. \A k \in Keys : PacketsOf(flows[k]) \subseteq Packets
    BY <1>1 DEF TypeOK, Flow, PacketsOf
  <2>2. count - Len(wire) \in Int
    BY <1>1, TimeAssumption DEF TypeOK
  <2>3. ASSUME NEW k \in Keys, NEW q \in PacketsOf(flows[k]) PROVE q.id < p.id /\ q.ts <= p.ts
    <3>1. q.id <= count - Len(wire) /\ q.id \in Nat
      BY <2>1 DEF PlacesInv, OthersAreOlder, Packets
    <3>2. QED
      BY <1>2, <1>3, <2>2, <3>1 DEF WireIsLater
  <2>4. QED
    BY <2>1, <2>3
<1>5. /\ \A i \in DOMAIN wire' : wire'[i].ts <= now /\ p.ts <= wire'[i].ts
      /\ \A i, j \in DOMAIN wire' : i <= j => wire'[i].ts <= wire'[j].ts
      /\ p.ts <= now
  <2>1. \A i, j \in DOMAIN wire' : i <= j => i + 1 <= j + 1
    BY <1>1 DEF TypeOK
  <2>2. QED
    BY <1>2, <1>3, <2>1 DEF WireIsLater
<1>6. (\A r \in Closed : Dated(r))'
  BY <1>1, <1>2 DEF Closed, Dated, PacketsOf
<1>7. CASE p.key = Junk
  <2>1. flows' = flows
    BY <1>7 DEF OnPacket
  <2>2. WireIsLater'
    BY <1>1, <1>2, <1>3, <1>5, <2>1 DEF WireIsLater
  <2>3. QED
    BY <1>2, <1>6, <2>1, <2>2 DEF Tracked, Dated, PacketsOf
<1>8. CASE p.key # Junk
  <2>1. flows' = Added(p)
    BY <1>8 DEF OnPacket
  <2>2. PICK k \in Keys :
          /\ \A j \in Keys : j # k => flows'[j] = flows[j]
          /\ flows'[k].fwd # {} /\ flows'[k].last = p.ts
          /\ \/ /\ k \in Tracked /\ SameStream(k, p.key)
                /\ flows'[k].first = flows[k].first
                /\ PacketsOf(flows'[k]) = PacketsOf(flows[k]) \cup {p}
             \/ /\ k = p.key /\ k \notin Tracked
                /\ flows'[k].first = p.ts /\ PacketsOf(flows'[k]) = {p}
    BY <1>1, <1>3, <1>8, <2>1, AddedFlow
  <2>3. \A j \in Keys : \A q \in PacketsOf(flows'[j]) : q = p \/ q \in PacketsOf(flows[j])
    BY <2>2
  <2>4. WireIsLater'
    <3>1. ASSUME NEW j \in Keys, NEW q \in PacketsOf(flows'[j])
          PROVE  q.ts <= now /\ \A i \in DOMAIN wire' : q.ts <= wire'[i].ts
      <4>1. q = p \/ q \in PacketsOf(flows[j])
        BY <2>3
      <4>2. QED
        BY <1>2, <1>3, <1>5, <4>1 DEF WireIsLater
    <3>2. (\A j \in Keys : \A q \in PacketsOf(flows[j]) :
             q.ts <= now /\ \A i \in DOMAIN wire : q.ts <= wire[i].ts)'
      BY <1>1, <3>1 DEF PacketsOf
    <3>3. QED
      BY <1>1, <1>5, <3>2 DEF WireIsLater
  <2>5. Dated(flows'[k])
    BY <1>2, <1>3, <1>4, <2>2, DatedGrows, DatedOpens
  <2>6. \A j \in Keys : j # k /\ flows'[j].fwd # {} => Dated(flows'[j])
    BY <1>2, <2>2 DEF Tracked
  <2>7. QED
    BY <1>6, <2>4, <2>5, <2>6 DEF Tracked, Dated, PacketsOf
<1>9. QED
  BY <1>7, <1>8

(* The kernel stamps with the clock. *)
LEMMA CaptureTimes ==
  ASSUME PlacesInv, EndInv, TimesInv, [Next]_vars, Capture
  PROVE  TimesInv'
<1> SUFFICES ASSUME past'.setBack = 0
             PROVE  WireIsLater' /\ (\A k \in Tracked : Dated(flows[k]))' /\ (\A r \in Closed : Dated(r))'
  BY DEF TimesInv
<1>1. /\ past.setBack = 0 /\ UNCHANGED <<now, flows, held, rows>> /\ TypeOK
  BY PastStays DEF Capture, thread, PlacesInv
<1>2. WireIsLater /\ (\A k \in Tracked : Dated(flows[k])) /\ \A r \in Closed : Dated(r)
  BY <1>1 DEF TimesInv
<1>3. PICK p : wire' = Append(wire, p) /\ p.ts = now
  BY DEF Capture
<1>4. wire \in Seq(Packets) /\ Len(wire) \in Nat /\ now \in Nat
  BY <1>1, TimeAssumption DEF TypeOK
<1>5. \A i \in DOMAIN wire' :
        \/ i \in DOMAIN wire /\ wire'[i] = wire[i]
        \/ i = Len(wire) + 1 /\ wire'[i] = p
  BY <1>3, <1>4
<1>6. /\ \A i \in DOMAIN wire' : wire'[i].ts <= now
      /\ \A i, j \in DOMAIN wire' : i <= j => wire'[i].ts <= wire'[j].ts
  <2>1. \A i \in DOMAIN wire' : wire'[i].ts <= now
    BY <1>2, <1>3, <1>4, <1>5 DEF WireIsLater
  <2>2. ASSUME NEW i \in DOMAIN wire', NEW j \in DOMAIN wire', i <= j
        PROVE  wire'[i].ts <= wire'[j].ts
    <3>1. CASE j \in DOMAIN wire
      <4>1. i \in DOMAIN wire /\ wire'[i] = wire[i] /\ wire'[j] = wire[j]
        BY <1>4, <1>5, <2>2, <3>1
      <4>2. QED
        BY <1>2, <2>2, <3>1, <4>1 DEF WireIsLater
    <3>2. CASE wire'[j] = p
      BY <1>3, <2>1, <3>2
    <3>3. QED
      BY <1>5, <3>1, <3>2
  <2>3. QED
    BY <2>1, <2>2
<1>7. \A k \in Keys : \A q \in PacketsOf(flows[k]) :
         q.ts <= now /\ \A i \in DOMAIN wire' : q.ts <= wire'[i].ts
  BY <1>2, <1>3, <1>5 DEF WireIsLater
<1>8. WireIsLater'
  BY <1>1, <1>6, <1>7 DEF WireIsLater, PacketsOf
<1>9. QED
  BY <1>1, <1>2, <1>8 DEF Closed, Tracked, Dated, PacketsOf

(* Flows that are taken out become rows with the same times.               *)
LEMMA TakenTimes ==
  ASSUME PlacesInv, EndInv, TimesInv, [Next]_vars, NEW t \in Threads, NEW ks \in SUBSET Tracked,
         held' = [held EXCEPT ![t] = {Row(k) : k \in ks}], flows' = Without(ks),
         UNCHANGED <<now, wire, rows>>
  PROVE  TimesInv'
<1> SUFFICES ASSUME past'.setBack = 0
             PROVE  WireIsLater' /\ (\A k \in Tracked : Dated(flows[k]))' /\ (\A r \in Closed : Dated(r))'
  BY DEF TimesInv
<1>1. past.setBack = 0 /\ TypeOK
  BY PastStays DEF PlacesInv
<1>2. WireIsLater /\ (\A k \in Tracked : Dated(flows[k])) /\ \A r \in Closed : Dated(r)
  BY <1>1 DEF TimesInv
<1>3. \A k \in Keys : (PacketsOf(flows'[k]) = {} /\ flows'[k].fwd = {}) \/ flows'[k] = flows[k]
  BY DEF Without, NoFlow, PacketsOf
<1>4. WireIsLater'
  <2>1. \A k \in Keys : PacketsOf(flows'[k]) \subseteq PacketsOf(flows[k])
    BY <1>3
  <2>2. QED
    BY <1>2, <2>1 DEF WireIsLater, PacketsOf
<1>5. \A k \in Keys : flows'[k].fwd # {} => Dated(flows'[k])
  BY <1>2, <1>3 DEF Tracked
<1>6. \A k \in ks : Dated(Row(k))
  BY <1>2 DEF Row, Dated, PacketsOf, Tracked
<1>7. \A r \in Closed' : r \in Closed \/ \E k \in ks : r = Row(k)
  BY <1>1 DEF Closed, TypeOK, Threads
<1>8. \A r \in Closed' : Dated(r)
  BY <1>2, <1>6, <1>7
<1>9. QED
  BY <1>4, <1>5, <1>8 DEF Tracked, Dated, PacketsOf

(* Calling back moves rows from a thread to the callback.                  *)
LEMMA ClosedStays ==
  ASSUME TypeOK, NEW t \in Threads, CallBack(t)
  PROVE  Closed' = Closed /\ UNCHANGED <<now, wire, flows, past, unidirectional>>
BY DEF TypeOK, CallBack, Closed, Threads, mode

LEMMA TimesInit == Init => TimesInv
BY DEF Init, TimesInv, WireIsLater, Closed, Tracked, NoFlow, PacketsOf, Threads

LEMMA TimesNext == PlacesInv /\ EndInv /\ TimesInv /\ [Next]_vars => TimesInv'
<1> SUFFICES ASSUME PlacesInv, EndInv, TimesInv, [Next]_vars PROVE TimesInv'
  OBVIOUS
<1>1. CASE Capture
  BY <1>1, CaptureTimes
<1>2. CASE OnPacket
  BY <1>2, OnPacketTimes
<1>3. CASE Pop
  <2>1. Completed \in SUBSET Tracked /\ "monitor" \in Threads
    BY DEF Completed, Threads
  <2>2. QED
    BY <1>3, <2>1, TakenTimes DEF Pop
<1>4. CASE Flush
  <2>1. "stopper" \in Threads
    BY DEF Threads
  <2>2. QED
    BY <1>4, <2>1, TakenTimes DEF Flush
<1>5. ASSUME Closed' = Closed, UNCHANGED <<wire, flows>> PROVE TimesInv'
  <2> SUFFICES ASSUME past'.setBack = 0
               PROVE  WireIsLater' /\ (\A k \in Tracked : Dated(flows[k]))' /\ (\A r \in Closed : Dated(r))'
    BY DEF TimesInv
  <2>1. past.setBack = 0 /\ now <= now' /\ TypeOK /\ TypeOK'
    BY PastStays, TypeNext DEF PlacesInv
  <2>2. WireIsLater /\ (\A k \in Tracked : Dated(flows[k])) /\ \A r \in Closed : Dated(r)
    BY <2>1 DEF TimesInv
  <2>3. now \in Nat /\ now' \in Nat
    BY <2>1, TimeAssumption DEF TypeOK
  <2>4. /\ \A i \in DOMAIN wire : wire[i].ts \in Nat
        /\ \A k \in Keys : \A p \in PacketsOf(flows[k]) : p.ts \in Nat
    <3>1. /\ \A i \in DOMAIN wire : wire[i] \in Packets
          /\ \A k \in Keys : PacketsOf(flows[k]) \subseteq Packets
      BY <2>1 DEF TypeOK, Flow, PacketsOf
    <3>2. \A p \in Packets : p.ts \in Nat
      BY TimeAssumption DEF Packets
    <3>3. QED
      BY <3>1, <3>2
  <2>5. /\ \A i \in DOMAIN wire : wire[i].ts <= now'
        /\ \A k \in Keys : \A p \in PacketsOf(flows[k]) : p.ts <= now'
    BY <2>1, <2>2, <2>3, <2>4 DEF WireIsLater
  <2>6. WireIsLater'
    BY <1>5, <2>2, <2>5 DEF WireIsLater, PacketsOf
  <2>7. QED
    BY <1>5, <2>2, <2>6 DEF Tracked, Dated, PacketsOf
<1>6. ASSUME NEW t \in Threads, CallBack(t) PROVE TimesInv'
  BY <1>5, <1>6, ClosedStays DEF PlacesInv
<1>7. CASE Start \/ Sniffing \/ Clock \/ Look \/ PopNothing \/ MonitorReturns \/ MonitorEnds \/ Stop
           \/ StopSniffer \/ JoinMonitor \/ StopReturns \/ UNCHANGED vars
  <2>1. Closed' = Closed /\ UNCHANGED <<wire, flows>>
    BY <1>7 DEF Start, Sniffing, Clock, Look, PopNothing, MonitorReturns, MonitorEnds, Stop, StopSniffer,
                JoinMonitor, StopReturns, vars, thread, Closed
  <2>2. QED
    BY <1>5, <2>1
<1>8. QED
  BY <1>1, <1>2, <1>3, <1>4, <1>6, <1>7 DEF Next, MonitorStep, StopStep, Threads

-----------------------------------------------------------------------------
(* Where streams are cut *)

LEMMA SameStreamIsMutual ==
  ASSUME NEW j \in Keys, NEW k \in Keys
  PROVE  SameStream(j, k) <=> SameStream(k, j)
BY KeyAssumption DEF SameStream

(* Two flows of one stream are never open together.                        *)
LEMMA OpenAlone ==
  ASSUME OneOpen, NEW j \in Tracked, NEW k \in Tracked, SameStream(j, k)
  PROVE  j = k
BY DEF OneOpen, SameStream, Tracked

(* Rows and open flows last from their first packet to their last.         *)
LEMMA LastAfterFirst ==
  ASSUME TypeOK, TimesInv, past.setBack = 0
  PROVE  /\ \A r \in Closed : r \in Rows /\ r.key \in Keys /\ r.first \in Nat /\ r.last \in Nat /\ r.first <= r.last
         /\ \A k \in Tracked : /\ Row(k) \in Rows /\ flows[k].first \in Nat /\ flows[k].last \in Nat
                               /\ flows[k].first <= flows[k].last
<1>1. Closed \subseteq Rows
  BY DEF TypeOK, Closed, Threads
<1>2. ASSUME NEW r \in Rows, Dated(r)
      PROVE  r.key \in Keys /\ r.first \in Nat /\ r.last \in Nat /\ r.first <= r.last
  BY <1>2, DatedAgrees DEF Rows
<1>3. ASSUME NEW k \in Tracked
      PROVE  Row(k) \in Rows /\ Dated(Row(k)) /\ Row(k).first = flows[k].first /\ Row(k).last = flows[k].last
  <2>1. Dated(flows[k]) /\ k \in Keys
    BY DEF TimesInv, Tracked
  <2>2. QED
    BY <2>1, RowTyped DEF Row, Dated, PacketsOf, TypeOK
<1>4. QED
  BY <1>1, <1>2, <1>3 DEF TimesInv

(* While nothing is closed, the silences behind closed rows last.          *)
LEMMA SilenceLasts ==
  ASSUME PlacesInv, StreamInv, EndInv, TimesInv, CutInv, [Next]_vars, Closed' = Closed,
         pc'["stopper"] \notin AfterFlush => pc["stopper"] \notin AfterFlush,
         Timely', pc'["stopper"] \notin AfterFlush, NEW r \in Closed
  PROVE  SilentSince(r)'
<1>1. Timely /\ now <= now' /\ TypeOK /\ TypeOK' /\ NoHalfFlow /\ r \in Rows /\ r.last \in Nat /\ r.key \in Keys
  BY PastStays, TypeNext, LastAfterFirst DEF PlacesInv, Timely
<1>2. SilentSince(r)
  BY <1>1 DEF CutInv
<1>3. now \in Nat /\ now' \in Nat /\ IdleTimeout \in Nat
  BY <1>1, TimeAssumption DEF TypeOK
<1>4. Silence(r.last, now')
  BY <1>1, <1>2, <1>3 DEF SilentSince, Silence
<1>5. CASE Capture
  <2>1. PICK p : wire' = Append(wire, p) /\ p.ts = now
    BY <1>5 DEF Capture
  <2>2. \A i \in DOMAIN wire' :
          \/ i \in DOMAIN wire /\ wire'[i] = wire[i]
          \/ wire'[i] = p
    BY <1>1, <2>1 DEF TypeOK
  <2>3. \A i \in DOMAIN wire' : wire'[i].key # Junk /\ SameStream(wire'[i].key, r.key) =>
          Silence(r.last, wire'[i].ts)
    BY <1>2, <2>1, <2>2 DEF SilentSince
  <2>4. flows' = flows /\ unidirectional' = unidirectional
    BY <1>5 DEF Capture, mode
  <2>5. \A k \in Keys : flows'[k].fwd # {} /\ SameStream(k, r.key) => Silence(r.last, flows'[k].first)
    BY <1>2, <2>4 DEF SilentSince, Tracked
  <2>6. QED
    BY <1>4, <2>3, <2>4, <2>5 DEF SilentSince, Tracked, SameStream, Silence
<1>6. CASE OnPacket
  <2> DEFINE p == Head(wire)
  <2>1. /\ wire # <<>> /\ wire' = Tail(wire) /\ UNCHANGED unidirectional
        /\ p \in Packets /\ p = wire[1] /\ 1 \in DOMAIN wire
        /\ \A i \in DOMAIN wire' : i + 1 \in DOMAIN wire /\ wire'[i] = wire[i + 1]
    BY <1>1, <1>6, WireMovesUp DEF OnPacket, mode
  <2>2. \A i \in DOMAIN wire' : wire'[i].key # Junk /\ SameStream(wire'[i].key, r.key) =>
          Silence(r.last, wire'[i].ts)
    BY <1>2, <2>1 DEF SilentSince
  <2>3. \A k \in Keys : flows'[k].fwd # {} /\ SameStream(k, r.key) => Silence(r.last, flows'[k].first)
    <3>1. CASE p.key = Junk
      BY <1>2, <1>6, <3>1 DEF OnPacket, SilentSince, Tracked
    <3>2. CASE p.key # Junk
      <4>1. flows' = Added(p)
        BY <1>6, <3>2 DEF OnPacket
      <4>2. PICK k \in Keys :
              /\ \A j \in Keys : j # k => flows'[j] = flows[j]
              /\ \/ k \in Tracked /\ flows'[k].first = flows[k].first
                 \/ k = p.key /\ flows'[k].first = p.ts
        BY <1>1, <2>1, <3>2, <4>1, AddedFlow
      <4>3. SameStream(k, r.key) => Silence(r.last, flows'[k].first)
        BY <1>2, <2>1, <3>2, <4>2 DEF SilentSince
      <4>4. QED
        BY <1>2, <4>2, <4>3 DEF SilentSince, Tracked
    <3>3. QED
      BY <3>1, <3>2
  <2>4. QED
    BY <1>4, <2>1, <2>2, <2>3 DEF SilentSince, Tracked, SameStream, Silence
<1>7. CASE UNCHANGED <<wire, flows, unidirectional>>
  <2>1. wire' = wire /\ flows' = flows /\ unidirectional' = unidirectional
    BY <1>7
  <2>2. QED
    BY <1>2, <1>4, <2>1 DEF SilentSince, Tracked, SameStream, Silence
<1>8. CASE Pop \/ Flush
  <2>1. pc'["stopper"] \notin AfterFlush /\ pc["stopper"] \notin AfterFlush
    OBVIOUS
  <2>2. CASE Flush
    BY <2>1, <2>2 DEF Flush, Goes, AfterFlush, TypeOK, EndInv
  <2>3. CASE Pop
    <3>1. \A k \in Keys : flows'[k].fwd = {} \/ flows'[k] = flows[k]
      BY <2>3 DEF Pop, Without, NoFlow
    <3>2. UNCHANGED <<wire, unidirectional>>
      BY <2>3 DEF Pop, mode
    <3>3. QED
      BY <1>2, <1>4, <3>1, <3>2 DEF SilentSince, Tracked, SameStream, Silence
  <2>4. QED
    BY <1>8, <2>2, <2>3
<1>9. QED
  BY <1>5, <1>6, <1>7, <1>8
     DEF Next, MonitorStep, StopStep, Start, Sniffing, CallBack, Look, PopNothing, MonitorReturns, MonitorEnds, Stop,
         StopSniffer, JoinMonitor, StopReturns, Clock, vars, mode

(* What is closed together with what was closed before lies apart.          *)
LEMMA TakenApart ==
  ASSUME PlacesInv, StreamInv, TimesInv, past.setBack = 0, NEW ks \in SUBSET Tracked,
         \A r, s \in Closed : CutApart(r, s), \A r \in Closed : SilentSince(r),
         UNCHANGED unidirectional,
         \A r \in Closed' : r \in Closed \/ \E k \in ks : r = Row(k)
  PROVE  (\A r, s \in Closed : CutApart(r, s))'
<1>1. TypeOK /\ OneOpen
  BY DEF PlacesInv, StreamInv
<1>2. \A k \in ks : Row(k).key = k /\ Row(k).first = flows[k].first /\ Row(k).last = flows[k].last /\ k \in Keys
  BY DEF Row, Tracked
<1>3. ASSUME NEW r \in Closed', NEW s \in Closed' PROVE CutApart(r, s)
  <2>1. CASE r \in Closed /\ s \in Closed
    BY <2>1
  <2>2. ASSUME NEW k \in ks, r = Row(k), s \in Closed PROVE CutApart(r, s)
    <3>1. s.key \in Keys
      BY <1>1, <2>2, LastAfterFirst
    <3>2. SameStream(s.key, k) => Silence(s.last, flows[k].first)
      BY <1>2, <2>2, <3>1, SameStreamIsMutual DEF SilentSince
    <3>3. QED
      BY <1>2, <2>2, <3>2 DEF CutApart
  <2>3. ASSUME NEW k \in ks, s = Row(k), r \in Closed PROVE CutApart(r, s)
    <3>1. SameStream(k, r.key) => Silence(r.last, flows[k].first)
      BY <2>3 DEF SilentSince
    <3>2. QED
      BY <1>2, <2>3, <3>1 DEF CutApart
  <2>4. ASSUME NEW j \in ks, NEW k \in ks, r = Row(j), s = Row(k) PROVE CutApart(r, s)
    BY <1>1, <1>2, <2>4, OpenAlone DEF CutApart
  <2>5. QED
    BY <2>1, <2>2, <2>3, <2>4
<1>4. QED
  BY <1>3 DEF CutApart, SameStream, Silence

LEMMA CutInit == Init => CutInv
BY DEF Init, CutInv, Closed, Threads

LEMMA CutNext == PlacesInv /\ StreamInv /\ EndInv /\ TimesInv /\ CutInv /\ [Next]_vars => CutInv'
<1> SUFFICES ASSUME PlacesInv, StreamInv, EndInv, TimesInv, CutInv, [Next]_vars, Timely'
             PROVE  /\ (\A r, s \in Closed : CutApart(r, s))'
                    /\ pc'["stopper"] \notin AfterFlush => (\A r \in Closed : SilentSince(r))'
  BY DEF CutInv
<1>1. /\ Timely /\ past.setBack = 0 /\ TypeOK /\ OneOpen /\ UNCHANGED unidirectional
      /\ \A r, s \in Closed : CutApart(r, s)
  <2>1. Timely
    BY PastStays DEF Timely
  <2>2. UNCHANGED unidirectional
    BY DEF Next, MonitorStep, StopStep, Start, Sniffing, Capture, OnPacket, Pop, CallBack, Look, PopNothing, MonitorReturns,
           MonitorEnds, Stop, StopSniffer, JoinMonitor, Flush, StopReturns, Clock, vars, mode
  <2>3. QED
    BY <2>1, <2>2 DEF CutInv, Timely, PlacesInv, StreamInv
<1>2. CASE Pop
  <2>0. pc["monitor"] = "looking" /\ Tracked # {}
    BY <1>2 DEF Pop, At, Completed
  <2>1. /\ pc["stopper"] \notin AfterFlush /\ pc'["stopper"] \notin AfterFlush /\ UNCHANGED <<now, wire, rows>>
        /\ past'.lagged = (past.lagged \/ wire # <<>>)
    <3>1. pc["stopper"] \notin AfterFlush
      BY <1>1, <2>0 DEF EndInv, At, AfterFlush, AfterJoin, Timely
    <3>2. QED
      BY <1>2, <3>1 DEF Pop, Goes, TypeOK, EndInv
  <2>2. /\ wire = <<>> /\ \A r \in Closed : SilentSince(r)
    BY <1>1, <2>1 DEF Timely, CutInv, AfterFlush
  <2>3. \A r \in Closed' : r \in Closed \/ \E k \in Completed : r = Row(k)
    BY <1>1, <1>2 DEF Pop, Closed, TypeOK, Threads
  <2>4. Completed \in SUBSET Tracked
    BY DEF Completed
  <2>5. (\A r, s \in Closed : CutApart(r, s))'
    BY <1>1, <2>2, <2>3, <2>4, TakenApart
  <2>6. ASSUME NEW r \in Closed' PROVE SilentSince(r)'
    <3>1. \A k \in Keys : k \in Tracked' => k \in Tracked /\ k \notin Completed /\ flows'[k] = flows[k]
      BY <1>2 DEF Pop, Without, NoFlow, Tracked
    <3>2. CASE r \in Closed
      BY <1>1, <2>1, <2>2, <3>1, <3>2 DEF SilentSince, Silence, SameStream, Tracked
    <3>3. ASSUME NEW k \in Completed, r = Row(k) PROVE SilentSince(r)'
      <4>1. r.key = k /\ r.last = flows[k].last
        BY <3>3 DEF Row
      <4>2. Silence(r.last, now)
        BY <4>1 DEF Completed, Silence
      <4>3. ASSUME NEW j \in Tracked' PROVE ~SameStream(j, k)
        <5>1. j \in Tracked /\ j # k
          BY <3>1 DEF Tracked
        <5>2. QED
          BY <1>1, <2>4, <5>1, OpenAlone
      <4>4. DOMAIN wire' = {}
        BY <2>1, <2>2
      <4>5. QED
        BY <1>1, <2>1, <4>1, <4>2, <4>3, <4>4 DEF SilentSince, SameStream, Silence
    <3>4. QED
      BY <2>3, <3>2, <3>3
  <2>7. QED
    BY <2>5, <2>6
<1>3. CASE Flush
  <2>1. pc["stopper"] = "flush" /\ pc'["stopper"] \in AfterFlush
    BY <1>1, <1>3 DEF Flush, At, Goes, TypeOK, AfterFlush
  <2>2. \A r \in Closed : SilentSince(r)
    BY <1>1, <2>1 DEF CutInv, AfterFlush
  <2>3. \A r \in Closed' : r \in Closed \/ \E k \in Tracked : r = Row(k)
    BY <1>1, <1>3 DEF Flush, Closed, TypeOK, Threads
  <2>4. QED
    BY <1>1, <2>1, <2>2, <2>3, TakenApart
<1>4. ASSUME Closed' = Closed, pc'["stopper"] \notin AfterFlush => pc["stopper"] \notin AfterFlush
      PROVE  /\ (\A r, s \in Closed : CutApart(r, s))'
             /\ pc'["stopper"] \notin AfterFlush => (\A r \in Closed : SilentSince(r))'
  <2>1. (\A r, s \in Closed : CutApart(r, s))'
    BY <1>1, <1>4 DEF CutApart, SameStream, Silence
  <2>2. QED
    BY <1>4, <2>1, SilenceLasts
<1>5. ASSUME NEW t \in Threads, CallBack(t)
      PROVE  Closed' = Closed /\ (pc'["stopper"] \notin AfterFlush => pc["stopper"] \notin AfterFlush)
  <2>1. Closed' = Closed
    BY <1>1, <1>5, ClosedStays
  <2>2. pc'["stopper"] = IF t = "stopper" THEN "calling" ELSE pc["stopper"]
    BY <1>1, <1>5 DEF CallBack, Goes, TypeOK
  <2>3. QED
    BY <2>1, <2>2 DEF AfterFlush
<1>6. CASE Start \/ Sniffing \/ Capture \/ OnPacket \/ Clock \/ Look \/ PopNothing \/ MonitorReturns \/ MonitorEnds \/ Stop
           \/ StopSniffer \/ JoinMonitor \/ StopReturns \/ UNCHANGED vars
  <2>1. Closed' = Closed
    BY <1>6 DEF Start, Sniffing, Capture, OnPacket, Clock, Look, PopNothing, MonitorReturns, MonitorEnds, Stop, StopSniffer,
                JoinMonitor, StopReturns, vars, thread, Closed
  <2>2. pc'["stopper"] \notin AfterFlush => pc["stopper"] \notin AfterFlush
    BY <1>1, <1>6 DEF Start, Sniffing, Capture, OnPacket, Clock, Look, PopNothing, MonitorReturns, MonitorEnds, Stop, StopSniffer,
                JoinMonitor, StopReturns, vars, thread, At, Goes, TypeOK, AfterFlush
  <2>3. QED
    BY <1>4, <2>1, <2>2
<1>7. QED
  BY <1>2, <1>3, <1>4, <1>5, <1>6 DEF Next, MonitorStep, StopStep, Threads

(* cicflow_features.py:237 and 244-253, for any 5-tuples, idle time, clock  *)
(* and number of packets: two rows of one stream have a silence of at       *)
(* least the idle time between them, unless the monitor lagged behind the   *)
(* wire or the clock was set back, and what a row says of its duration and  *)
(* of the gaps in either direction fits together.                          *)
THEOREM RowsSafe == Spec => []RowsAreStreams
<1>1. TypeOK /\ TimesInv /\ CutInv => CutWhereSilent
  <2> SUFFICES ASSUME TypeOK, TimesInv, CutInv, Timely, NEW r \in rows, NEW s \in rows,
                      r # s, r.first <= s.first,
                      s.key \in {r.key} \cup (IF unidirectional THEN {} ELSE {Reverse[r.key]})
               PROVE  s.first - r.last >= IdleTimeout
    BY DEF CutWhereSilent, Timely
  <2>1. r \in Closed /\ s \in Closed /\ SameStream(s.key, r.key)
    BY DEF Closed, SameStream
  <2>2. Silence(r.last, s.first) \/ Silence(s.last, r.first)
    BY <2>1 DEF CutInv, CutApart
  <2>3. /\ r.first \in Nat /\ r.last \in Nat /\ s.first \in Nat /\ s.last \in Nat
        /\ s.first <= s.last
    BY <2>1, LastAfterFirst DEF Timely
  <2>4. QED
    BY <2>2, <2>3, TimeAssumption DEF Silence
<1>2. TypeOK /\ TimesInv => FeaturesAgree
  <2> SUFFICES ASSUME TypeOK, TimesInv, past.setBack = 0, NEW r \in rows
               PROVE  /\ Duration(r) = IatTotal(PacketsOf(r))
                      /\ IatTotal(r.fwd) \in 0..Duration(r) /\ IatTotal(r.bwd) \in 0..Duration(r)
    BY DEF FeaturesAgree
  <2>1. r \in Rows /\ Dated(r)
    BY DEF TypeOK, TimesInv, Closed
  <2>2. QED
    BY <2>1, DatedAgrees
<1>3. TimesInv /\ CutInv /\ TypeOK => RowsAreStreams
  BY <1>1, <1>2 DEF RowsAreStreams
<1>4. Spec => [](PlacesInv /\ EndInv /\ TimesInv)
  BY TimesInit, TimesNext, PlacesInvariant, EndInvariant, PTL DEF Spec
<1>5. Spec => []StreamInv
  BY StreamInit, StreamNext, PTL DEF Spec
<1>6. Spec => []CutInv
  BY <1>4, <1>5, CutInit, CutNext, PTL DEF Spec
<1>7. QED
  BY <1>3, <1>4, <1>6, TypeCorrect, PTL
=============================================================================
