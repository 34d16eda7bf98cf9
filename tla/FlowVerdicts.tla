---------------------------- MODULE FlowVerdicts ----------------------------
(***************************************************************************)
(* What the rule detectors say of a growing log, and who listens. The log has *)
(* a writer and two readers that know nothing of each other. The worker      *)
(* takes the rows in batches, judges its rolling window after each and flags *)
(* the sources it finds (src/detection/*.py, LiveThreatDetector.process,     *)
(* _remember_flagged_sources). The dashboard reads the whole log at each     *)
(* refresh, judges it with the offline set of detectors                      *)
(* (run_rule_detectors), labels every flow with the first alert that matches *)
(* it, and shows the flows by source, one source in detail, and in numbers   *)
(* (dashboard.py:358-451, 551-632, 692-830, 1075-1142). How the window is    *)
(* trimmed frame by frame is in module RollingWindow; here it is the last     *)
(* LiveRows rows. A behaviour is one session of the worker, on one log. When  *)
(* a reader wakes up is in module ConnLog. Rows without the optional columns *)
(* that a detector asks for, hosts, durations and the texts are left out.    *)
(*                                                                         *)
(* A flow is [src, dst, port, proto, ts, big, refused]: big is orig_bytes at *)
(* or over the threshold of exfiltration, refused what the infiltration gate *)
(* looks for in conn_state, history and missed_bytes. A query is a row of    *)
(* dns.log whose domain is suspicious.                                       *)
(***************************************************************************)
EXTENDS Integers, FiniteSets, Sequences

CONSTANTS
  Flows,   \* flows there may be
  Queries, \* rows of dns.log there may be: [src, dst, port, ts]
  ScanPorts, LiveScanPorts, \* min_unique_ports: run_rule_detectors', the default
  DdosConnections, DdosSources,
  BeaconConnections, LiveBeaconConnections, BeaconSpan,
  CvTop, CvBottom,          \* max_interval_cv is CvTop / CvBottom
  DosConnections, PatatorAttempts, Https,
  DgaSlack,                 \* seconds between a query and its flow
  LiveRows,                \* max_rows of the worker's window
  TopOf,                   \* n of get_top_recent
  MaxFlows, MaxAtOnce        \* bounds: flows in the log, in a batch

(* What the dashboard asks for (8 ports, 8 connections) is no less than the *)
(* defaults that the worker leaves in place (5 and 5).                     *)
ASSUME ThresholdAssumption ==
  /\ {ScanPorts, LiveScanPorts, BeaconConnections, LiveBeaconConnections} \subseteq Nat
  /\ LiveScanPorts <= ScanPorts /\ LiveBeaconConnections <= BeaconConnections
  /\ {DdosConnections, DdosSources, LiveRows, MaxAtOnce} \subseteq Nat

(* A flow has a time, and the banner looks at one flow at least. *)
ASSUME PageAssumption == (\A f \in Flows : f.ts \in Int) /\ TopOf \in Nat \ {0}

VARIABLES
  log,     \* the flows of conn.log, in the order of the log
  dns,     \* suspicious rows of dns.log
  judged,  \* how many rows of the log the worker has taken
  flagged, \* its _flagged_sources
  failed,  \* detectors that raised in the dashboard's last refresh
  shown    \* its _flows

workerVars  == <<judged, flagged>>
pageVars    == <<failed, shown>>
verdictVars == <<log, dns, workerVars, pageVars>>

-----------------------------------------------------------------------------
(* Detectors. Rows are meant by their places in the log.                   *)

Flow(fs)    == {fs[i] : i \in DOMAIN fs}
PairOf(f)   == <<f.src, f.dst>>
Pairs(fs)   == {PairOf(f) : f \in Flow(fs)}
Of(fs, p)   == {i \in DOMAIN fs : PairOf(fs[i]) = p}
To(fs, d)   == {i \in DOMAIN fs : fs[i].dst = d}

(* detect_scanning *)
Ports(fs, rows)  == {fs[i].port : i \in rows}
Scans(fs, ports) == {p \in Pairs(fs) : Cardinality(Ports(fs, Of(fs, p))) >= ports}

(* Mutant of Floods: an alarm only while the number is exact. *)
FloodsExactly(fs) ==
  {d \in {f.dst : f \in Flow(fs)} :
     /\ Cardinality(To(fs, d)) = DdosConnections
     /\ Cardinality({fs[i].src : i \in To(fs, d)}) >= DdosSources}

(* detect_ddos: destinations *)
Floods(fs) ==
  {d \in {f.dst : f \in Flow(fs)} :
     /\ Cardinality(To(fs, d)) >= DdosConnections
     /\ Cardinality({fs[i].src : i \in To(fs, d)}) >= DdosSources}

(* By time, and as it was where that is equal. *)
ByTime(seq) ==
  LET sorted[n \in 0..Len(seq)] ==
        IF n = 0 THEN <<>>
        ELSE LET x    == seq[n]
                 done == sorted[n - 1]
             IN  SelectSeq(done, LAMBDA y : y.ts <= x.ts) \o <<x>>
                   \o SelectSeq(done, LAMBDA y : y.ts > x.ts)
  IN  sorted[Len(seq)]

(* The gaps between the sorted times of a pair. *)
Gaps(fs, p) ==
  LET sorted == ByTime(SelectSeq(fs, LAMBDA f : PairOf(f) = p))
  IN  [i \in 1..(Len(sorted) - 1) |-> sorted[i + 1].ts - sorted[i].ts]

Total(ns) ==
  LET sum[n \in 0..Len(ns)] == IF n = 0 THEN 0 ELSE sum[n - 1] + ns[n] IN sum[Len(ns)]

(* cv <= CvTop / CvBottom, squared: the deviation of the gaps over their    *)
(* mean. With one gap, or a mean of 0, the code takes 0.                   *)
Even(gaps) ==
  LET sum     == Total(gaps)
      squares == Total([i \in DOMAIN gaps |-> gaps[i] * gaps[i]])
  IN  \/ Len(gaps) < 2 \/ sum = 0
      \/ (Len(gaps) * squares - sum * sum) * CvBottom * CvBottom <= CvTop * CvTop * sum * sum

(* detect_beaconing with and without a limit on the deviation *)
Beacons(fs)     == {p \in Pairs(fs) : /\ Cardinality(Of(fs, p)) >= BeaconConnections
                                      /\ Total(Gaps(fs, p)) >= BeaconSpan
                                      /\ Even(Gaps(fs, p))}
LiveBeacons(fs) == {p \in Pairs(fs) : Cardinality(Of(fs, p)) >= LiveBeaconConnections}

(* detect_exfiltration and detect_exfiltration_live *)
Transfers(fs) == {PairOf(f) : f \in {g \in Flow(fs) : g.big}}

(* detect_encrypted_live, and the gates for the models alone *)
Encrypted(fs)  == {PairOf(f) : f \in {g \in Flow(fs) : g.port = Https /\ g.proto \in {"tcp", "udp"}}}
DosPairs(fs)   == {p \in Pairs(fs) : Cardinality(Of(fs, p)) >= DosConnections}
Patators(fs)   == {p \in Pairs(fs) : \E port \in Ports(fs, Of(fs, p)) :
                     Cardinality({i \in Of(fs, p) : fs[i].port = port}) >= PatatorAttempts}
Infiltrations(fs) == {PairOf(f) : f \in {g \in Flow(fs) : g.refused}}

(* LiveThreatDetector.process, the alerts with a source *)
LivePairs(fs) ==
  Scans(fs, LiveScanPorts) \cup LiveBeacons(fs) \cup Transfers(fs) \cup Encrypted(fs)
    \cup DosPairs(fs) \cup Patators(fs) \cup Infiltrations(fs)

(* Mutant of LastRows: the trimming takes the newest rows. *)
LastRowsOldest(n) == SubSeq(log, 1, IF n > LiveRows THEN LiveRows ELSE n)

(* _append, _window: what is left of the first n rows *)
LastRows(n) == SubSeq(log, IF n > LiveRows THEN n - LiveRows + 1 ELSE 1, n)

(* _remember_flagged_sources: a flood names the batch's senders. *)
Named(fs, rows) ==
  {p[1] : p \in LivePairs(fs)} \cup {f.src : f \in {g \in Flow(rows) : g.dst \in Floods(fs)}}

-----------------------------------------------------------------------------
(* The dashboard's refresh                                                 *)

Types == <<"port_scan", "ddos", "beaconing", "exfiltration", "dga">>

(* run_rule_detectors: a detector that raises costs its own alerts only. That *)
(* of exfiltration reads the log for itself, after the others got theirs.    *)
Threats(fs, reread, queries, raised) ==
  [port_scan    |-> Scans(fs, ScanPorts),
   ddos         |-> Floods(fs),
   beaconing    |-> Beacons(fs),
   exfiltration |-> IF "exfiltration" \in raised THEN {} ELSE Transfers(reread),
   dga          |-> queries]

(* _threat_matches_flow for the alerts of a type *)
Matches(threats, type, f) ==
  CASE type = "ddos" -> f.dst \in threats.ddos
    [] type = "dga"  -> \E q \in threats.dga : /\ <<q.src, q.dst, q.port>> = <<f.src, f.dst, f.port>>
                                               /\ f.ts - q.ts \in (0 - DgaSlack)..DgaSlack
    [] OTHER         -> PairOf(f) \in threats[type]

(* The first alert that matches decides, and there the loop ends. *)
Label(threats, f) ==
  LET hits == {i \in DOMAIN Types : Matches(threats, Types[i], f)}
  IN  IF hits = {} THEN "benign" ELSE Types[CHOOSE i \in hits : \A j \in hits : i <= j]

(* _score_from_severity *)
Score(label) == IF label = "benign" THEN 0 ELSE IF label = "ddos" THEN 85 ELSE 65

(* refresh: the flows with their labels *)
Labelled(fs, threats) ==
  [i \in DOMAIN fs |->
     LET label == Label(threats, fs[i])
     IN  [src |-> fs[i].src, ts |-> fs[i].ts, label |-> label, score |-> Score(label)]]

-----------------------------------------------------------------------------
(* What the routes make of the flows                                       *)

(* get_groups, for one flow of the source *)
Grouped(g, f) ==
  [count   |-> g.count + 1,
   flagged |-> g.flagged + (IF f.label = "benign" THEN 0 ELSE 1),
   score   |-> IF f.score > g.score THEN f.score ELSE g.score,
   label   |-> IF f.score > g.score /\ f.label # "benign" THEN f.label ELSE g.label]

NoGroup == [count |-> 0, flagged |-> 0, score |-> 0, label |-> "benign"]

(* get_groups: one loop over all flows keeps a record per source. *)
Group(flows, s) ==
  LET upTo[n \in 0..Len(flows)] ==
        IF n = 0 THEN NoGroup
        ELSE IF flows[n].src = s THEN Grouped(upTo[n - 1], flows[n]) ELSE upTo[n - 1]
  IN  upTo[Len(flows)]

Senders(flows)       == {f.src : f \in Flow(flows)}
Own(flows, s)        == {i \in DOMAIN flows : flows[i].src = s}
Flagged(flows, rows) == {i \in rows : flows[i].label # "benign"}

(* The order of get_group_logs and get_top_recent: sorted(reverse=True)      *)
(* leaves rows of one time as they were.                                   *)
NewestFirst(flows, i, j) ==
  flows[i].ts > flows[j].ts \/ (flows[i].ts = flows[j].ts /\ i < j)

(* sorted(...)[:n] *)
Newest(flows, n) ==
  {i \in DOMAIN flows : Cardinality({j \in DOMAIN flows : NewestFirst(flows, j, i)}) < n}

(* max() over rows in that order: the first that has the highest score *)
Worst(flows, rows) ==
  LET best == {i \in rows : \A j \in rows : flows[j].score <= flows[i].score}
  IN  flows[CHOOSE i \in best : \A j \in best \ {i} : NewestFirst(flows, i, j)]

(* get_group_analysis *)
Analysis(flows, s) ==
  LET logs == Own(flows, s)
      bad  == Flagged(flows, logs)
  IN  [count |-> Cardinality(logs), flagged |-> Cardinality(bad),
       score |-> IF bad = {} THEN 0 ELSE Worst(flows, bad).score,
       label |-> IF bad = {} THEN "benign" ELSE Worst(flows, bad).label]

(* get_top_recent among n flows; no alert among them, nothing. *)
TopOfNewest(flows, n) ==
  LET top == Worst(flows, Newest(flows, n))
  IN  IF flows = <<>> \/ top.score = 0 THEN [score |-> 0, src |-> "none"]
      ELSE [score |-> top.score, src |-> top.src]

(* Mutant of TopRecent: the newest flow. *)
TopNewest(flows) == TopOfNewest(flows, 1)
TopRecent(flows) == TopOfNewest(flows, TopOf)

(* api_stats *)
Stats(flows) ==
  [flagged |-> Cardinality(Flagged(flows, DOMAIN flows)),
   max     |-> IF flows = <<>> THEN 0 ELSE Worst(flows, DOMAIN flows).score,
   sources |-> Cardinality({s \in Senders(flows) : Group(flows, s).score > 0}),
   top     |-> TopRecent(flows)]

-----------------------------------------------------------------------------
VerdictInit ==
  /\ log = <<>> /\ dns = {} /\ judged = 0 /\ flagged = {} /\ failed = {} /\ shown = <<>>

(* Zeek writes a flow, or a query. *)
FlowLogged ==
  /\ Len(log) < MaxFlows
  /\ \E f \in Flows : log' = Append(log, f)
  /\ UNCHANGED <<dns, workerVars, pageVars>>

QueryLogged ==
  /\ \E q \in Queries \ dns : dns' = dns \cup {q}
  /\ UNCHANGED <<log, workerVars, pageVars>>

(* process_features: the next rows of the log are a batch. *)
WorkerJudges ==
  \E n \in 1..MaxAtOnce :
    /\ judged + n <= Len(log)
    /\ judged' = judged + n
    /\ flagged' = flagged \cup Named(LastRows(judged'), SubSeq(log, judged + 1, judged'))
    /\ UNCHANGED <<log, dns, pageVars>>

(* refresh: the rows were read before the exfiltration detector reads the log *)
(* again, which then may have more of them, or raises.                      *)
Refresh ==
  \E n \in Len(shown)..Len(log) :
    LET rows == SubSeq(log, 1, n) IN
    /\ failed' \in {{}, {"exfiltration"}}
    /\ shown' = Labelled(rows, Threats(rows, log, dns, failed'))
    /\ UNCHANGED <<log, dns, workerVars>>

VerdictNext == FlowLogged \/ QueryLogged \/ WorkerJudges \/ Refresh

VerdictSpec == VerdictInit /\ [][VerdictNext]_verdictVars

-----------------------------------------------------------------------------
VerdictTypeOK ==
  /\ Flow(log) \subseteq Flows /\ Len(log) <= MaxFlows
  /\ dns \subseteq Queries /\ judged \in 0..Len(log) /\ flagged \subseteq {f.src : f \in Flows}
  /\ failed \subseteq {Types[i] : i \in DOMAIN Types}

(* The list of sources, which takes the flows one by one, and the detail     *)
(* page, which sorts and filters them, agree on a source's numbers, and the *)
(* label either shows is one that a flow with that score has                *)
(* (dashboard.py:692-733, 754-830).                                        *)
ListAgreesWithDetail ==
  \A s \in Senders(shown) :
    LET g == Group(shown, s)  a == Analysis(shown, s) IN
      /\ g.count = a.count /\ g.flagged = a.flagged /\ g.score = a.score
      /\ (g.score = 0) = (g.flagged = 0)
      /\ \A label \in {g.label, a.label} :
           g.score > 0 => \E f \in Flow(shown) : f.src = s /\ f.label = label /\ f.score = g.score

(* The numbers above the list agree with it: its maximum and its counts, and *)
(* the banner names a source that the list shows at least as high; it is     *)
(* missing only if none of the newest flows is flagged; no flow is flagged   *)
(* where the maximum is 0                                                  *)
(* (dashboard.py:1075-1142).                                               *)
NumbersAgreeWithList ==
  LET st == Stats(shown)  Listed(s) == Group(shown, s) IN
  /\ \A s \in Senders(shown) : Listed(s).score <= st.max
  /\ st.max > 0 => \E s \in Senders(shown) : Listed(s).score = st.max
  /\ st.sources = Cardinality({f.src : f \in {x \in Flow(shown) : x.label # "benign"}})
  /\ st.top.score > 0 => Listed(st.top.src).score >= st.top.score
  /\ (Len(shown) <= TopOf) => st.top.score = st.max
  /\ (st.flagged = 0) = (st.max = 0)

(* What one refresh shows is consistent: list, detail page, numbers and     *)
(* banner, each computed by a loop of its own over the same flows.          *)
PageAgrees == ListAgreesWithDetail /\ NumbersAgreeWithList

(* A flow that is shown as flagged stays so while the log grows, unless only *)
(* its regularity spoke against it, or the detector fails: no threshold is   *)
(* one that more traffic takes back (run_rule_detectors).                   *)
NeverUnflagged ==
  [][failed' = {} =>
       \A i \in DOMAIN shown :
         shown[i].label \notin {"benign", "beaconing"} => shown'[i].label # "benign"]_verdictVars

(* The two sets of detectors do not drift apart: on any stretch of the log   *)
(* that the worker has taken and that fits its window beside a batch, what   *)
(* the dashboard's detectors say of flows of one source the worker has        *)
(* flagged for the models, however the rows were cut into batches; and who    *)
(* sends to a victim on which the stretch before made a flood is flagged too. *)
(* Nothing more: a scan spread over more rows is named by the page, which     *)
(* judges the whole log, and never flagged (live_detector.py:40-48); of a     *)
(* flood only the senders in the latest batch are (live_pipeline.py:144-152); *)
(* a domain is only in dns.log, which the worker does not read.              *)
OfflineIsFlagged ==
  \A j \in 1..judged : \A i \in 1..j :
    j - i + MaxAtOnce <= LiveRows =>
      LET rows == SubSeq(log, i, j) IN
        /\ \A p \in Scans(rows, ScanPorts) \cup Beacons(rows) \cup Transfers(rows) : p[1] \in flagged
        /\ log[j].dst \in Floods(rows) => log[j].src \in flagged
=============================================================================
