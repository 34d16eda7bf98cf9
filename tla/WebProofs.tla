------------------------------ MODULE WebProofs ------------------------------
(***************************************************************************)
(* What both processes show the page. Of the log, for any number of files    *)
(* of any size: the mtime that the dashboard's provider holds is that of the *)
(* file it shows, what it shows never goes back, and the tail hands on each  *)
(* record once and in order. Of the event loop, for any number of clients    *)
(* and events: snapshot and stream fit together, and clients that are gone   *)
(* are dropped.                                                            *)
(***************************************************************************)
EXTENDS ConnLog, EventHub, FiniteSetTheorems, WellFoundedInduction, TLAPS

-----------------------------------------------------------------------------
(* The dashboard's provider; the tail shares nothing with it but the log,   *)
(* which neither changes.                                                  *)

Files == [gen : Nat, size : Nat]

ShownTypes ==
  /\ log \in [gen : Nat, size : Nat, mtime : Nat] /\ made \in Nat
  /\ lock \in [pc : {"off", "free", "stat", "find", "parsed", "shown"}, parsed : Files]
  /\ cache \in [flows : Files, stamp : Nat, fresh : BOOLEAN]
  /\ readPast \in [missed : SUBSET Nat, raced : SUBSET Nat]

(* A file that was read is a former one, or the present one when it was no  *)
(* longer than now.                                                        *)
ReadBefore(f) ==
  /\ f.gen <= made
  /\ Exists /\ f.gen = log.gen => f.size <= log.size

NotLater(f, g) == f.gen < g.gen \/ (f.gen = g.gen /\ f.size <= g.size)

ShownInv ==
  /\ ShownTypes
  /\ log.gen \in {0, made} /\ (~Exists => log.size = 0)
  /\ ReadBefore(cache.flows) /\ ReadBefore(lock.parsed)
  /\ LockAt("parsed") => NotLater(cache.flows, lock.parsed)
  /\ cache.stamp <= log.mtime
  /\ LockAt("shown") => cache.flows = lock.parsed
  /\ ~LockAt("shown") /\ Exists /\ cache.stamp = log.mtime /\ cache.stamp \notin readPast.raced =>
       cache.flows = File

LEMMA ShownStarts == LogInit => ShownInv
BY DEF LogInit, ShownInv, ShownTypes, Files, ReadBefore, NoLog, Exists, LockAt

LEMMA LogChanges == ASSUME ShownInv, Create \/ Write \/ Remove PROVE ShownInv'
<1> USE DEF ShownInv, ShownTypes, Files, ReadBefore, NotLater, Exists, LockAt
<1>1. CASE Create
  BY <1>1 DEF Create
<1>2. CASE Write
  <2>0. log' = [gen |-> log.gen, size |-> log.size + 1, mtime |-> log.mtime + 1]
    BY <1>2 DEF Write
  <2>1. /\ log'.gen = log.gen /\ log'.size = log.size + 1 /\ log'.mtime = log.mtime + 1
        /\ log' \in [gen : Nat, size : Nat, mtime : Nat] /\ UNCHANGED <<made, lock, cache, readPast>>
    BY <1>2, <2>0 DEF Write
  <2>2. QED
    BY <1>2, <2>1 DEF Write
<1>3. CASE Remove
  BY <1>3 DEF Remove
<1>4. QED
  BY <1>1, <1>2, <1>3

LEMMA TailMoves == ASSUME ShownInv, TailStep PROVE ShownInv'
<1>1. /\ UNCHANGED <<log, made, lock, cache>>
      /\ \/ UNCHANGED readPast
         \/ readPast' = [readPast EXCEPT !.missed = @ \cup {log.gen}]
         \/ readPast' = [readPast EXCEPT !.missed = @]
  <2>1. CASE Initialize \/ Poll \/ Stat
    BY <2>1 DEF Initialize, Poll, Stat, TailOnly
  <2>2. CASE Open
    BY <2>2 DEF Open, TailOnly
  <2>3. QED
    BY <2>1, <2>2 DEF TailStep
<1>2. readPast'.raced = readPast.raced /\ readPast' \in [missed : SUBSET Nat, raced : SUBSET Nat]
  BY <1>1 DEF ShownInv, ShownTypes
<1>3. QED
  BY <1>1, <1>2 DEF ShownInv, ShownTypes, ReadBefore, NotLater, Exists, LockAt, File

LEMMA PageAsks == ASSUME ShownInv, AskStep \/ Expire PROVE ShownInv'
<1> USE DEF ShownInv, ShownTypes, Files, ReadBefore, NotLater, Exists, LockAt, LockGoes, AskOnly, File
<1>1. CASE Expire
  BY <1>1 DEF Expire
<1>2. CASE Ask
  BY <1>2 DEF Ask
<1>3. CASE ShouldRefresh
  <2>1. /\ cache'.flows = cache.flows /\ cache'.stamp = cache.stamp
        /\ cache' \in [flows : Files, stamp : Nat, fresh : BOOLEAN]
    BY <1>3 DEF ShouldRefresh
  <2>2. \/ lock'.pc = "find" /\ lock'.parsed = lock.parsed
        \/ lock'.pc = "free" /\ lock'.parsed = [gen |-> 0, size |-> 0]
    BY <1>3 DEF ShouldRefresh, Leaves, NoLog
  <2>3. lock' \in [pc : {"off", "free", "stat", "find", "parsed", "shown"}, parsed : Files]
    BY <1>3 DEF ShouldRefresh, Leaves, NoLog
  <2>4. QED
    BY <1>3, <2>1, <2>2, <2>3 DEF ShouldRefresh
<1>4. CASE Refresh
  <2>1. /\ cache'.flows = cache.flows /\ cache'.stamp = cache.stamp
        /\ cache' \in [flows : Files, stamp : Nat, fresh : BOOLEAN]
    BY <1>4 DEF Refresh
  <2>2. \/ log.size >= 1 /\ lock' = [pc |-> "parsed", parsed |-> [gen |-> log.gen, size |-> log.size]]
        \/ lock' = [pc |-> "free", parsed |-> [gen |-> 0, size |-> 0]]
    BY <1>4 DEF Refresh, Leaves, NoLog
  <2>3. UNCHANGED <<log, made, readPast>>
    BY <1>4 DEF Refresh
  <2>4. CASE log.size >= 1 /\ lock' = [pc |-> "parsed", parsed |-> [gen |-> log.gen, size |-> log.size]]
    BY <1>4, <2>1, <2>3, <2>4 DEF Refresh
  <2>5. CASE lock' = [pc |-> "free", parsed |-> [gen |-> 0, size |-> 0]]
    BY <1>4, <2>1, <2>3, <2>5 DEF Refresh
  <2>6. QED
    BY <2>2, <2>4, <2>5
<1>5. CASE Show
  BY <1>5 DEF Show
<1>6. CASE Stamp
  <2>1. /\ cache'.flows = cache.flows /\ cache'.stamp = (IF Exists THEN log.mtime ELSE cache.stamp)
        /\ cache' \in [flows : Files, stamp : Nat, fresh : BOOLEAN]
    BY <1>6 DEF Stamp
  <2>2. /\ readPast' \in [missed : SUBSET Nat, raced : SUBSET Nat]
        /\ Exists /\ lock.parsed # File => log.mtime \in readPast'.raced
        /\ readPast.raced \subseteq readPast'.raced
    BY <1>6 DEF Stamp
  <2>3. UNCHANGED <<log, made>> /\ lock' = [pc |-> "free", parsed |-> [gen |-> 0, size |-> 0]]
    BY <1>6 DEF Stamp, Leaves, NoLog
  <2>4. QED
    BY <1>6, <2>1, <2>2, <2>3 DEF Stamp
<1>7. QED
  BY <1>1, <1>2, <1>3, <1>4, <1>5, <1>6 DEF AskStep

LEMMA ShownKeeps == ShownInv /\ [LogNext]_logVars => ShownInv'
<1> SUFFICES ASSUME ShownInv, [LogNext]_logVars PROVE ShownInv'
  OBVIOUS
<1>1. CASE UNCHANGED logVars
  BY <1>1 DEF logVars, ShownInv, ShownTypes, ReadBefore, NotLater, Exists, LockAt, File
<1>2. QED
  BY <1>1, LogChanges, TailMoves, PageAsks DEF LogNext

THEOREM ShownInvariant == LogSpec => []ShownInv
BY ShownStarts, ShownKeeps, PTL DEF LogSpec

(* Whatever Zeek writes and clear_logs removes while the provider reads, a  *)
(* provider that has the mtime of the log shows that log, unless the log     *)
(* changed between the read and the stamp (dashboard.py:483-491, 634-647).   *)
THEOREM StampedSafe == LogSpec => []StampedIsShown
<1>1. ShownInv => StampedIsShown
  BY DEF ShownInv, StampedIsShown, LockAt
<1>2. QED
  BY <1>1, ShownInvariant, PTL

(* What is shown only moves on to a later file, or to more of the same one  *)
(* (dashboard.py:634-668).                                                 *)
THEOREM ShownAdvances == LogSpec => NeverBlanked
<1>1. ShownInv /\ [LogNext]_logVars =>
        [cache'.flows # cache.flows =>
           \/ cache'.flows.gen > cache.flows.gen
           \/ (cache'.flows.gen = cache.flows.gen /\ cache'.flows.size > cache.flows.size)]_cache
  <2> SUFFICES ASSUME ShownInv, [LogNext]_logVars, cache'.flows # cache.flows
               PROVE \/ cache'.flows.gen > cache.flows.gen
                     \/ (cache'.flows.gen = cache.flows.gen /\ cache'.flows.size > cache.flows.size)
    OBVIOUS
  <2>1. Show
    BY DEF logVars, LogNext, Create, Write, Remove, TailStep, Initialize, Poll, Stat, Open, TailOnly, Expire,
       AskStep, Ask, ShouldRefresh, Refresh, Stamp, ShownInv, ShownTypes
  <2>2. cache'.flows = lock.parsed /\ NotLater(cache.flows, lock.parsed)
    BY <2>1 DEF Show, ShownInv, ShownTypes, LockAt
  <2>3. QED
    BY <2>2 DEF NotLater, ShownInv, ShownTypes, Files
<1>2. QED
  BY <1>1, ShownInvariant, PTL DEF LogSpec, NeverBlanked
-----------------------------------------------------------------------------
(* The tail *)

TailTypes ==
  /\ log \in [gen : Nat, size : Nat, mtime : Nat] /\ made \in 0..MaxGen
  /\ log.gen \in {0, made} /\ (~Exists => log.size = 0)
  /\ tail \in [pc : {"off", "init", "poll", "stat", "open", "ended"}, offset : Nat, partial : Nat, gen : Nat]
  /\ out \in [0..MaxGen -> Seq(Nat)]
  /\ readPast \in [missed : SUBSET Nat, raced : SUBSET Nat]

(* A half line is kept where the offset cuts one, *)
HalfKept ==
  /\ tail.gen <= made /\ (tail.gen = 0 => tail.offset = 0)
  /\ tail.partial # 0 => tail.partial = tail.gen /\ tail.offset > 1 /\ tail.offset % 2 = 0
  /\ tail.gen # 0 /\ tail.gen = made =>
       /\ tail.offset > 0 /\ (Exists => tail.offset <= log.size)
       /\ tail.offset > 1 /\ tail.offset % 2 = 0 => tail.partial # 0

(* and the records of the file read last were handed on as far as there.   *)
HandedSoFar ==
  /\ \A g \in 1..MaxGen : g > tail.gen => out[g] = <<>>
  /\ tail.gen # 0 /\ tail.gen = made /\ tail.gen \notin readPast.missed =>
       Len(out[tail.gen]) = (tail.offset - 1) \div 2

TailInv == TailTypes /\ HalfKept /\ HandedSoFar /\ RecordsInOrder

(* Numbers in order go on in order. *)
LEMMA CountsOn ==
  ASSUME NEW s \in Seq(Nat), NEW t \in Seq(Nat), NEW k \in Int, Len(s) = k,
         \A i \in DOMAIN s : s[i] = i, \A i \in 1..Len(t) : t[i] = k + i
  PROVE  Len(s \o t) = k + Len(t) /\ \A i \in DOMAIN (s \o t) : (s \o t)[i] = i
<1>1. Len(s \o t) = k + Len(t) /\ DOMAIN (s \o t) = 1..(k + Len(t)) /\ k \in Nat /\ DOMAIN s = 1..k
  OBVIOUS
<1>2. ASSUME NEW i \in 1..(k + Len(t)) PROVE (s \o t)[i] = i
  <2>1. CASE i <= k
    <3>1. i \in 1..k /\ s[i] = i
      BY <1>1, <2>1, SMTT(30)
    <3>2. (s \o t)[i] = s[i]
      BY <1>1, <3>1
    <3>3. QED
      BY <3>1, <3>2
  <2>2. CASE i > k
    <3>1. i - k \in 1..Len(t) /\ (s \o t)[i] = t[i - k]
      BY <1>1, <2>2
    <3>2. QED
      BY <1>1, <3>1
  <2>3. QED
    BY <1>1, <2>1, <2>2
<1>3. QED
  BY <1>1, <1>2

LEMMA HalfOf ==
  ASSUME NEW n \in Nat PROVE \E k \in Nat : (n = 2 * k /\ n \div 2 = k /\ n % 2 = 0) \/ (n = 2 * k + 1 /\ n \div 2 = k /\ n % 2 = 1)
<1>1. n \div 2 \in Nat /\ (n = 2 * (n \div 2) \/ n = 2 * (n \div 2) + 1)
  OBVIOUS
<1>2. QED
  BY <1>1

(* What a read hands on, if it begins where the last one ended. *)
LEMMA HandedLines ==
  ASSUME NEW offset \in Nat, NEW size \in Nat, offset < size, tail.offset = offset, log.size = size,
         tail.partial # 0 => offset > 1 /\ offset % 2 = 0
  PROVE  /\ Handed \in Seq(Nat)
         /\ offset = 0 => Len(Handed) = (size - 1) \div 2 /\ \A i \in 1..Len(Handed) : Handed[i] = i
         /\ offset > 0 /\ (offset > 1 /\ offset % 2 = 0 => tail.partial # 0) =>
              /\ Len(Handed) = (size - 1) \div 2 - (offset - 1) \div 2
              /\ \A i \in 1..Len(Handed) : Handed[i] = (offset - 1) \div 2 + i
         /\ tail.partial # 0 => Handed # <<>>
<1> DEFINE last == (size - 1) \div 2
           from == IF tail.partial = 0 /\ (Begun \/ First = 0) THEN First + 1 ELSE First
<1>1. Handed = [i \in 1..(last - from + 1) |-> from + i - 1]
  BY DEF Handed
<1>2. PICK k \in Nat : offset = 2 * k \/ offset = 2 * k + 1
  BY HalfOf
<1>3. last \in Nat /\ (size - 1 = 2 * last \/ size - 1 = 2 * last + 1)
  <2>1. size - 1 \in Nat
    OBVIOUS
  <2>2. QED
    BY <2>1
<1>4. from \in Nat /\ from >= 1 /\ last - from + 1 >= 0
  BY <1>2, <1>3 DEF First, Begun
<1>5. offset = 0 => from = 1
  BY DEF First, Begun
<1>6. offset > 0 /\ (offset > 1 /\ offset % 2 = 0 => tail.partial # 0) => from = (offset - 1) \div 2 + 1
  BY <1>2 DEF First, Begun
<1>7. tail.partial # 0 => last - from + 1 > 0
  BY <1>2, <1>3 DEF First, Begun
<1> HIDE DEF last, from
<1>8. Handed \in Seq(Nat) /\ Len(Handed) = last - from + 1 /\ \A i \in 1..Len(Handed) : Handed[i] = from + i - 1
  BY <1>1, <1>3, <1>4
<1>9. ASSUME offset = 0 PROVE Len(Handed) = (size - 1) \div 2 /\ \A i \in 1..Len(Handed) : Handed[i] = i
  BY <1>3, <1>4, <1>5, <1>8, <1>9 DEF last
<1>10. ASSUME offset > 0, offset > 1 /\ offset % 2 = 0 => tail.partial # 0
       PROVE  /\ Len(Handed) = (size - 1) \div 2 - (offset - 1) \div 2
              /\ \A i \in 1..Len(Handed) : Handed[i] = (offset - 1) \div 2 + i
  <2> DEFINE done == (offset - 1) \div 2
  <2>1. done \in Int /\ from = done + 1
    BY <1>6, <1>10
  <2> HIDE DEF done
  <2>2. Len(Handed) = last - done /\ \A i \in 1..Len(Handed) : Handed[i] = done + i
    BY <1>3, <1>4, <1>8, <2>1
  <2>3. QED
    BY <2>2 DEF done, last
<1>11. tail.partial # 0 => Handed # <<>>
  BY <1>3, <1>4, <1>7, <1>8
<1>12. QED
  BY <1>8, <1>9, <1>10, <1>11
LEMMA TailStarts == LogInit => TailInv
BY LogAssumption DEF LogInit, TailInv, TailTypes, HalfKept, HandedSoFar, RecordsInOrder, Exists

LEMMA ZeekKeepsTail == ASSUME TailInv, Create \/ Write \/ Remove PROVE TailInv'
<1>1. /\ UNCHANGED <<tail, out, readPast>> /\ TailTypes'
      /\ \/ made' = made + 1
         \/ made' = made /\ (Exists' => Exists /\ log.size <= log'.size)
  <2> USE DEF TailInv, TailTypes, Exists
  <2>1. CASE Create
    <3>1. made' = made + 1 /\ log' = [gen |-> made + 1, size |-> 0, mtime |-> log.mtime + 1] /\ made < MaxGen
      BY <2>1 DEF Create
    <3>2. log' \in [gen : Nat, size : Nat, mtime : Nat] /\ made' \in 0..MaxGen
      BY <3>1, LogAssumption
    <3>3. QED
      BY <2>1, <3>1, <3>2 DEF Create
  <2>2. CASE Write
    <3>0. log' = [gen |-> log.gen, size |-> log.size + 1, mtime |-> log.mtime + 1]
      BY <2>2 DEF Write
    <3>1. /\ log'.gen = log.gen /\ log'.size = log.size + 1 /\ log' \in [gen : Nat, size : Nat, mtime : Nat]
      BY <3>0
    <3>2. QED
      BY <2>2, <3>1 DEF Write
  <2>3. CASE Remove
    BY <2>3 DEF Remove
  <2>4. QED
    BY <2>1, <2>2, <2>3
<1>2. made \in Nat /\ made' \in Nat /\ tail.gen \in Nat /\ tail.offset \in Nat /\ log.size \in Nat /\ log'.size \in Nat
  BY <1>1 DEF TailInv, TailTypes
<1>3. HalfKept' /\ HandedSoFar' /\ RecordsInOrder'
  BY <1>1, <1>2 DEF TailInv, HalfKept, HandedSoFar, RecordsInOrder
<1>4. QED
  BY <1>1, <1>3 DEF TailInv

(* Where nothing is read. *)
LEMMA TailRests ==
  ASSUME TailInv, UNCHANGED <<log, made, out>>, readPast.missed \subseteq readPast'.missed,
         readPast' \in [missed : SUBSET Nat, raced : SUBSET Nat],
         NEW at \in {"off", "init", "poll", "stat", "open", "ended"},
         \/ tail' = [tail EXCEPT !.pc = at]
         \/ /\ tail' = [tail EXCEPT !.pc = at, !.offset = 0, !.partial = 0]
            /\ Exists /\ log.size < tail.offset
  PROVE  TailInv'
<1>1. /\ TailTypes' /\ tail'.gen = tail.gen
      /\ \/ tail'.offset = tail.offset /\ tail'.partial = tail.partial
         \/ tail'.offset = 0 /\ tail'.partial = 0 /\ Exists /\ log.size < tail.offset
  <2>1. /\ tail' \in [pc : {"off", "init", "poll", "stat", "open", "ended"}, offset : Nat, partial : Nat, gen : Nat]
        /\ tail'.gen = tail.gen
        /\ \/ tail'.offset = tail.offset /\ tail'.partial = tail.partial
           \/ tail'.offset = 0 /\ tail'.partial = 0 /\ Exists /\ log.size < tail.offset
    <3>1. tail \in [pc : {"off", "init", "poll", "stat", "open", "ended"}, offset : Nat, partial : Nat, gen : Nat]
      BY DEF TailInv, TailTypes
    <3>2. CASE tail' = [tail EXCEPT !.pc = at]
      BY <3>1, <3>2
    <3>3. CASE /\ tail' = [tail EXCEPT !.pc = at, !.offset = 0, !.partial = 0]
               /\ Exists /\ log.size < tail.offset
      BY <3>1, <3>3
    <3>4. QED
      BY <3>2, <3>3
  <2>2. QED
    BY <2>1 DEF TailInv, TailTypes, Exists
<1>2. (tail'.offset = tail.offset /\ tail'.partial = tail.partial) \/ ~(tail.gen # 0 /\ tail.gen = made)
  BY <1>1 DEF TailInv, TailTypes, HalfKept, Exists
<1>3. HalfKept' /\ HandedSoFar' /\ RecordsInOrder'
  BY <1>1, <1>2 DEF TailInv, HalfKept, HandedSoFar, RecordsInOrder, Exists
<1>4. QED
  BY <1>1, <1>3 DEF TailInv

LEMMA OpenReads ==
  ASSUME TailInv, Open, Exists, tail.offset < log.size PROVE TailInv'
<1> DEFINE g == log.gen
           size == log.size
           offset == tail.offset
           half == (size - 1) \div 2
           done == (offset - 1) \div 2
<1>1. /\ g \in 1..MaxGen /\ g = made /\ g \in Nat /\ size \in Nat /\ offset \in Nat /\ offset < size
      /\ out \in [0..MaxGen -> Seq(Nat)] /\ tail.gen \in Nat
  BY LogAssumption DEF TailInv, TailTypes, Exists
<1>0. /\ UNCHANGED <<log, made>> /\ tail' = ReadOn(size)
      /\ out' = IF Mixed THEN [out EXCEPT ![0] = Append(@, First), ![g] = @ \o Tail(Handed)]
                ELSE [out EXCEPT ![g] = @ \o Handed]
  BY <1>1 DEF Open, Exists, TailOnly
<1>2. /\ readPast' \in [missed : SUBSET Nat, raced : SUBSET Nat]
      /\ readPast'.missed = readPast.missed \cup (IF g # tail.gen /\ offset > 0 THEN {g} ELSE {})
  <2>1. tail.offset \in 1..log.size <=> offset > 0
    BY <1>1
  <2>2. readPast' = [readPast EXCEPT !.missed = IF g # tail.gen /\ offset > 0 THEN @ \cup {g} ELSE @]
    BY <2>1 DEF Open
  <2>3. QED
    BY <1>1, <2>2 DEF TailInv, TailTypes
<1>3. /\ Handed \in Seq(Nat)
      /\ offset = 0 => Len(Handed) = half /\ \A i \in 1..Len(Handed) : Handed[i] = i
      /\ offset > 0 /\ (offset > 1 /\ offset % 2 = 0 => tail.partial # 0) =>
           Len(Handed) = half - done /\ \A i \in 1..Len(Handed) : Handed[i] = done + i
      /\ tail.partial # 0 => Handed # <<>>
  BY <1>1, HandedLines DEF TailInv, HalfKept
<1>4. First \in Nat
  BY <1>1 DEF First
<1>5. Mixed => Handed # <<>> /\ Tail(Handed) \in Seq(Nat) /\ g # tail.gen /\ offset > 0
  BY <1>1, <1>3 DEF Mixed, TailInv, HalfKept
<1>6. /\ out' \in [0..MaxGen -> Seq(Nat)]
      /\ ~Mixed => out'[g] = out[g] \o Handed /\ out'[0] = out[0]
      /\ \A h \in (1..MaxGen) \ {g} : out'[h] = out[h]
  <2>1. /\ 0 \in 0..MaxGen /\ g \in 0..MaxGen /\ g # 0 /\ out[0] \in Seq(Nat) /\ out[g] \in Seq(Nat)
        /\ Append(out[0], First) \in Seq(Nat) /\ out[g] \o Handed \in Seq(Nat)
        /\ Mixed => out[g] \o Tail(Handed) \in Seq(Nat)
    <3>1. 0 \in 0..MaxGen /\ g \in 0..MaxGen /\ g # 0
      BY <1>1, LogAssumption
    <3>2. out[0] \in Seq(Nat) /\ out[g] \in Seq(Nat)
      BY <1>1, <3>1
    <3>3. QED
      BY <1>3, <1>4, <1>5, <3>1, <3>2
  <2>2. CASE Mixed
    <3> DEFINE zero == Append(out[0], First)
               rest == out[g] \o Tail(Handed)
    <3>1. out' = [[out EXCEPT ![0] = zero] EXCEPT ![g] = rest]
      BY <1>0, <2>1, <2>2
    <3>2. zero \in Seq(Nat) /\ rest \in Seq(Nat)
      BY <2>1, <2>2
    <3> HIDE DEF zero, rest
    <3>3. [out EXCEPT ![0] = zero] \in [0..MaxGen -> Seq(Nat)]
      BY <1>1, <2>1, <3>2
    <3>4. out' \in [0..MaxGen -> Seq(Nat)] /\ \A h \in (1..MaxGen) \ {g} : out'[h] = out[h]
      BY <1>1, <2>1, <3>1, <3>2, <3>3
    <3>5. QED
      BY <2>2, <3>4
  <2>3. CASE ~Mixed
    <3> DEFINE more == out[g] \o Handed
    <3>1. out' = [out EXCEPT ![g] = more] /\ more \in Seq(Nat) /\ more = out[g] \o Handed
      BY <1>0, <2>1, <2>3
    <3> HIDE DEF more
    <3>2. QED
      BY <1>1, <2>1, <2>3, <3>1
  <2>4. QED
    BY <2>2, <2>3
<1>7. /\ tail' \in [pc : {"off", "init", "poll", "stat", "open", "ended"}, offset : Nat, partial : Nat, gen : Nat]
      /\ tail'.offset = size /\ tail'.gen = g
      /\ tail'.partial = IF size > 1 /\ size % 2 = 0 THEN g ELSE 0
  BY <1>0, <1>1 DEF ReadOn, TailInv, TailTypes
<1>8. ASSUME g \notin readPast'.missed
      PROVE  Len(out'[g]) = half /\ \A i \in DOMAIN out'[g] : out'[g][i] = i
  <2>1. out'[g] = out[g] \o Handed /\ (g = tail.gen \/ offset = 0)
    BY <1>2, <1>5, <1>6, <1>8
  <2>2. out[g] \in Seq(Nat) /\ half \in Int /\ done \in Int
    BY <1>1
  <2>3. CASE g = tail.gen
    <3>1. offset > 0 /\ Len(out[g]) = done /\ \A i \in DOMAIN out[g] : out[g][i] = i
      BY <1>1, <1>2, <1>8, <2>3 DEF TailInv, HalfKept, HandedSoFar, RecordsInOrder
    <3>2. Len(Handed) = half - done /\ \A i \in 1..Len(Handed) : Handed[i] = done + i
      BY <1>1, <1>3, <2>3, <3>1 DEF TailInv, HalfKept
    <3>3. Handed \in Seq(Nat)
      BY <1>3
    <3> HIDE DEF half, done
    <3>4. /\ Len(out[g] \o Handed) = done + (half - done)
          /\ \A i \in DOMAIN (out[g] \o Handed) : (out[g] \o Handed)[i] = i
      <4> DEFINE s == out[g]
                 t == Handed
      <4>1. /\ s \in Seq(Nat) /\ t \in Seq(Nat) /\ done \in Int /\ half \in Int /\ Len(s) = done /\ Len(t) = half - done
            /\ (\A i \in DOMAIN s : s[i] = i) /\ (\A i \in 1..Len(t) : t[i] = done + i)
        BY <2>2, <3>1, <3>2, <3>3
      <4> HIDE DEF s, t
      <4>2. Len(s \o t) = done + Len(t) /\ \A i \in DOMAIN (s \o t) : (s \o t)[i] = i
        BY <4>1, CountsOn
      <4>3. Len(s \o t) = done + (half - done)
        BY <4>1, <4>2
      <4>4. QED
        BY <4>2, <4>3 DEF s, t
    <3>5. QED
      BY <2>1, <2>2, <3>4
  <2>4. CASE g # tail.gen
    <3>1. out[g] = <<>> /\ offset = 0
      BY <1>1, <2>1, <2>4 DEF TailInv, HalfKept, HandedSoFar
    <3>2. Len(Handed) = half /\ \A i \in 1..Len(Handed) : Handed[i] = i
      BY <1>3, <3>1
    <3> HIDE DEF half, done
    <3>3. QED
      BY <1>3, <2>1, <2>2, <3>1, <3>2
  <2>5. QED
    BY <2>3, <2>4
<1>9. RecordsInOrder'
  <2>1. \A h \in (1..MaxGen) \ readPast'.missed : \A i \in DOMAIN out'[h] : out'[h][i] = i
    BY <1>2, <1>6, <1>8 DEF TailInv, RecordsInOrder
  <2>2. readPast'.missed = {} => out'[0] = <<>>
    BY <1>2, <1>5, <1>6 DEF TailInv, RecordsInOrder
  <2>3. QED
    BY <2>1, <2>2 DEF RecordsInOrder
<1>10. \A h \in 1..MaxGen : h > tail'.gen => out'[h] = <<>>
  <2>1. tail.gen <= g /\ \A h \in 1..MaxGen : h > tail.gen => out[h] = <<>>
    BY <1>1 DEF TailInv, HalfKept, HandedSoFar
  <2>2. \A h \in 1..MaxGen : h > g => h \in (1..MaxGen) \ {g} /\ h > tail.gen
    BY <1>1, <2>1, LogAssumption
  <2>3. QED
    BY <1>6, <1>7, <2>1, <2>2
<1>11. HandedSoFar'
  BY <1>7, <1>8, <1>10 DEF HandedSoFar
<1>12. HalfKept'
  BY <1>0, <1>1, <1>7 DEF HalfKept, Exists
<1>13. TailTypes'
  BY <1>0, <1>2, <1>6, <1>7 DEF TailInv, TailTypes, Exists
<1>14. QED
  BY <1>9, <1>11, <1>12, <1>13 DEF TailInv

LEMMA TailKeeps == TailInv /\ [LogNext]_logVars => TailInv'
<1> SUFFICES ASSUME TailInv, [LogNext]_logVars PROVE TailInv'
  OBVIOUS
<1>1. CASE UNCHANGED <<log, made, tail, out>> /\ readPast'.missed = readPast.missed
                 /\ readPast' \in [missed : SUBSET Nat, raced : SUBSET Nat]
  BY <1>1 DEF TailInv, TailTypes, HalfKept, HandedSoFar, RecordsInOrder, Exists
<1>2. CASE Initialize \/ Poll
  BY <1>2, TailRests DEF Initialize, Poll, TailGoes, TailOnly, TailInv, TailTypes
<1>3. CASE Stat
  BY <1>3, TailRests DEF Stat, TailGoes, TailOnly, TailInv, TailTypes
<1>4. CASE Open
  <2>1. CASE Exists /\ tail.offset < log.size
    BY <1>4, <2>1, OpenReads
  <2>2. CASE ~(Exists /\ tail.offset < log.size)
    <3>1. UNCHANGED <<log, made, out>> /\ \E at \in {"poll", "ended"} : tail' = [tail EXCEPT !.pc = at]
      <4>1. CASE ~Exists
        BY <1>4, <4>1 DEF Open, TailGoes, TailOnly
      <4>2. CASE Exists
        <5>1. log.size <= tail.offset
          BY <2>2, <4>2 DEF TailInv, TailTypes
        <5>2. QED
          BY <1>4, <4>2, <5>1 DEF Open, TailGoes, TailOnly
      <4>3. QED
        BY <4>1, <4>2
    <3>2. readPast.missed \subseteq readPast'.missed /\ readPast' \in [missed : SUBSET Nat, raced : SUBSET Nat]
      BY <1>4 DEF Open, TailInv, TailTypes
    <3>3. QED
      BY <3>1, <3>2, TailRests
  <2>3. QED
    BY <2>1, <2>2
<1>5. CASE UNCHANGED logVars
  BY <1>1, <1>5 DEF logVars, TailInv, TailTypes
<1>6. CASE Expire \/ AskStep
  BY <1>1, <1>6 DEF Expire, AskStep, Ask, ShouldRefresh, Refresh, Show, Stamp, AskOnly, TailInv, TailTypes
<1>7. QED
  BY <1>2, <1>3, <1>4, <1>5, <1>6, ZeekKeepsTail DEF LogNext, TailStep

THEOREM TailInvariant == LogSpec => []TailInv
BY TailStarts, TailKeeps, PTL DEF LogSpec

(* However Zeek's writes, clear_logs and the reads fall together, each       *)
(* record of a log is handed on once, in order and with none left out, and   *)
(* none is put together from two logs, unless the tail took one for the     *)
(* other (live_zeek_reader.py:61-96).                                       *)
THEOREM RecordsSafe == LogSpec => []RecordsInOrder
<1>1. TailInv => RecordsInOrder
  BY DEF TailInv
<1>2. QED
  BY <1>1, TailInvariant, PTL
-----------------------------------------------------------------------------
(* The event loop *)

HubTypes ==
  /\ connections \subseteq Clients
  /\ stream \in [Clients -> {"none", "accepting", "receiving", "ended"}]
  /\ client \in [Clients -> {"away", "there", "left"}]
  /\ inbox \in [Clients -> Seq(Nat)]
  /\ events \in 0..MaxEvent /\ analyses \subseteq 1..events /\ seen \in [Clients -> 0..events]
  /\ tasks \in [1..MaxEvent -> [at : {"none", "sending", "done"}, todo : SUBSET Clients, dead : SUBSET Clients,
                                left : SUBSET Clients]]

(* A connection is listed from its snapshot on, until its client left. *)
StreamOf(c) ==
  /\ stream[c] = "none" <=> client[c] = "away"
  /\ stream[c] = "ended" => client[c] = "left"
  /\ stream[c] \in {"none", "accepting"} => inbox[c] = <<>> /\ c \notin connections
  /\ stream[c] = "receiving" => inbox[c] # <<>>
  /\ stream[c] = "receiving" /\ client[c] = "there" => c \in connections
  /\ inbox[c] # <<>> => inbox[c][1] = 0

(* A broadcast sends to those who had their snapshot; who was gone is on the *)
(* list no longer than that broadcast.                                     *)
TaskOf(n) ==
  /\ n > events => tasks[n] = NoTask
  /\ \A c \in tasks[n].todo \cup tasks[n].left : stream[c] \in {"receiving", "ended"}
  /\ \A c \in tasks[n].dead \cup tasks[n].left : client[c] = "left"
  /\ tasks[n].at # "sending" => tasks[n].todo = {}
  /\ tasks[n].at = "sending" => tasks[n].left \cap connections \subseteq tasks[n].todo \cup tasks[n].dead
  /\ tasks[n].at = "done" => tasks[n].left \cap connections = {}

(* Event n at client c: sent once, and an analysis exactly when the         *)
(* snapshot does not have it.                                              *)
SentOnce(n, c) ==
  /\ \A i, j \in DOMAIN inbox[c] : inbox[c][i] = n /\ inbox[c][j] = n => i = j
  /\ n > events \/ c \in tasks[n].todo => n \notin Messages(c)
  /\ n \in analyses /\ stream[c] \in {"receiving", "ended"} =>
       /\ n <= seen[c] => c \notin tasks[n].todo /\ n \notin Messages(c)
       /\ n > seen[c] /\ client[c] = "there" => c \in tasks[n].todo \/ n \in Messages(c)

HubInv ==
  /\ HubTypes
  /\ \A c \in Clients : StreamOf(c)
  /\ \A n \in 1..MaxEvent : TaskOf(n) /\ \A c \in Clients : SentOnce(n, c)

LEMMA HubStarts == HubInit => HubInv
<1> SUFFICES ASSUME HubInit PROVE HubInv
  OBVIOUS
<1>1. HubTypes
  BY HubAssumption DEF HubInit, HubTypes, NoTask
<1>2. QED
  BY <1>1 DEF HubInit, HubInv, StreamOf, TaskOf, SentOnce, NoTask, Messages

(* The store holds the newest analysis. *)
LEMMA NewestIsNewest ==
  ASSUME events \in Nat, analyses \subseteq 1..events
  PROVE  Newest \in {0} \cup analyses /\ \A m \in analyses : m <= Newest
<1> DEFINE all == {0} \cup analyses
           high == {events - m : m \in all}
           R == OpToRel(<, Nat)
<1>1. all \subseteq 0..events /\ high \in SUBSET Nat /\ high # {}
  OBVIOUS
<1>2. IsWellFoundedOn(R, Nat)
  BY NatLessThanWellFounded
<1>3. PICK g \in high : \A h \in high : ~(<<h, g>> \in R)
  BY <1>1, <1>2, WFMin
<1>4. PICK n \in all : g = events - n
  OBVIOUS
<1>5. ASSUME NEW m \in analyses PROVE m <= n
  <2>1. events - m \in high /\ ~(events - m < events - n)
    BY <1>1, <1>3, <1>4 DEF OpToRel
  <2>2. QED
    BY <1>1, <2>1
<1>6. QED
  BY <1>4, <1>5 DEF Newest

LEMMA AppendsOne ==
  ASSUME NEW s \in Seq(Nat), NEW n \in Nat
  PROVE  /\ Append(s, n) \in Seq(Nat) /\ Append(s, n) # <<>>
         /\ DOMAIN Append(s, n) = 1..(Len(s) + 1) /\ DOMAIN s = 1..Len(s) /\ Len(s) \in Nat
         /\ \A i \in DOMAIN s : Append(s, n)[i] = s[i]
         /\ Append(s, n)[Len(s) + 1] = n
<1>1. Append(s, n) \in Seq(Nat) /\ Len(s) \in Nat /\ DOMAIN s = 1..Len(s) /\ Len(Append(s, n)) = Len(s) + 1
  OBVIOUS
<1>2. DOMAIN Append(s, n) = 1..(Len(s) + 1)
  BY <1>1
<1>3. \A i \in DOMAIN s : Append(s, n)[i] = s[i]
  BY <1>1
<1>4. Append(s, n)[Len(s) + 1] = n
  BY <1>1
<1>5. Append(s, n) # <<>>
  BY <1>1
<1>6. QED
  BY <1>1, <1>2, <1>3, <1>4, <1>5

LEMMA PutsOne ==
  ASSUME inbox \in [Clients -> Seq(Nat)], NEW c \in Clients, NEW n \in Nat, Puts(c, n)
  PROVE  /\ inbox' \in [Clients -> Seq(Nat)] /\ \A d \in Clients \ {c} : inbox'[d] = inbox[d]
         /\ DOMAIN inbox'[c] = 1..(Len(inbox[c]) + 1) /\ DOMAIN inbox[c] = 1..Len(inbox[c]) /\ Len(inbox[c]) \in Nat
         /\ \A i \in DOMAIN inbox[c] : inbox'[c][i] = inbox[c][i]
         /\ inbox'[c][Len(inbox[c]) + 1] = n /\ inbox'[c] # <<>>
         /\ Messages(c)' = Messages(c) \cup {n}
<1> DEFINE s == inbox[c]
           more == Append(s, n)
<1>1. s \in Seq(Nat) /\ more \in Seq(Nat) /\ inbox' = [inbox EXCEPT ![c] = more]
  BY DEF Puts
<1>2. /\ DOMAIN more = 1..(Len(s) + 1) /\ DOMAIN s = 1..Len(s) /\ Len(s) \in Nat /\ more # <<>>
      /\ \A i \in DOMAIN s : more[i] = s[i]
      /\ more[Len(s) + 1] = n
  BY <1>1, AppendsOne
<1> HIDE DEF more
<1>3. {more[i] : i \in DOMAIN more} = {s[i] : i \in DOMAIN s} \cup {n}
  <2>1. 1..(Len(s) + 1) = DOMAIN s \cup {Len(s) + 1}
    BY <1>2
  <2>2. QED
    BY <1>2, <2>1
<1>4. inbox'[c] = more /\ inbox' \in [Clients -> Seq(Nat)] /\ \A d \in Clients \ {c} : inbox'[d] = inbox[d]
  BY <1>1
<1>5. QED
  BY <1>2, <1>3, <1>4 DEF Messages

LEMMA ClientsMove ==
  ASSUME HubInv, NEW c \in Clients, ClientConnects(c) \/ ClientReads(c) \/ ClientLeaves(c) PROVE HubInv'
<1>1. /\ UNCHANGED <<connections, inbox, analyses, seen, events, tasks>> /\ HubTypes'
      /\ \A d \in Clients \ {c} : client'[d] = client[d] /\ stream'[d] = stream[d]
      /\ \/ client'[c] = client[c] /\ stream'[c] = stream[c]
         \/ client[c] = "away" /\ client'[c] = "there" /\ stream'[c] = "accepting"
         \/ client[c] = "there" /\ client'[c] = "left" /\ stream'[c] = stream[c]
  <2>1. HubTypes
    BY DEF HubInv
  <2>2. CASE ClientConnects(c)
    BY <2>1, <2>2 DEF HubTypes, ClientConnects
  <2>3. CASE ClientReads(c)
    BY <2>1, <2>3 DEF HubTypes, ClientReads
  <2>4. CASE ClientLeaves(c)
    BY <2>1, <2>4 DEF HubTypes, ClientLeaves
  <2>5. QED
    BY <2>2, <2>3, <2>4
<1>2. ASSUME NEW d \in Clients PROVE StreamOf(d)'
  BY <1>1 DEF HubInv, StreamOf
<1>3. ASSUME NEW n \in 1..MaxEvent PROVE TaskOf(n)'
  <2>1. \A d \in Clients : client[d] = "left" => client'[d] = "left"
    BY <1>1
  <2>2. \A d \in Clients : stream[d] \in {"receiving", "ended"} => stream'[d] = stream[d]
    BY <1>1 DEF HubInv, StreamOf
  <2>3. TaskOf(n) /\ tasks[n].todo \cup tasks[n].dead \cup tasks[n].left \subseteq Clients
    <3>1. /\ TaskOf(n)
          /\ tasks[n] \in [at : {"none", "sending", "done"}, todo : SUBSET Clients, dead : SUBSET Clients,
                           left : SUBSET Clients]
      BY DEF HubInv, HubTypes
    <3>2. QED
      BY <3>1
  <2>4. tasks' = tasks /\ events' = events /\ connections' = connections
    BY <1>1
  <2>5. QED
    BY <2>1, <2>2, <2>3, <2>4 DEF TaskOf
<1>4. ASSUME NEW n \in 1..MaxEvent, NEW d \in Clients PROVE SentOnce(n, d)'
  <2>1. Messages(d)' = Messages(d)
    BY <1>1 DEF Messages
  <2>2. stream'[d] \in {"receiving", "ended"} => stream[d] = stream'[d] /\ (client'[d] = "there" => client[d] = "there")
    BY <1>1
  <2>3. QED
    BY <1>1, <2>1, <2>2 DEF HubInv, SentOnce
<1>5. QED
  BY <1>1, <1>2, <1>3, <1>4 DEF HubInv

LEMMA SnapshotSent == ASSUME HubInv, NEW c \in Clients, Accepted(c) PROVE HubInv'
<1>1. /\ UNCHANGED <<client, analyses, events, tasks>> /\ stream[c] = "accepting"
      /\ inbox[c] = <<>> /\ c \notin connections
  BY DEF Accepted, HubInv, StreamOf
<1>2. Newest \in 0..events /\ \A m \in analyses : m <= Newest
  <2>1. events \in Nat /\ analyses \subseteq 1..events
    BY HubAssumption DEF HubInv, HubTypes
  <2>2. Newest \in {0} \cup analyses /\ \A m \in analyses : m <= Newest
    BY <2>1, NewestIsNewest
  <2>3. QED
    BY <2>1, <2>2
<1>3. seen' = [seen EXCEPT ![c] = Newest] /\ seen' \in [Clients -> 0..events]
  BY <1>2 DEF Accepted, HubInv, HubTypes
<1>4. /\ connections \subseteq connections' /\ connections' \subseteq connections \cup {c}
      /\ \A d \in Clients \ {c} : stream'[d] = stream[d] /\ inbox'[d] = inbox[d] /\ seen'[d] = seen[d]
      /\ seen'[c] = Newest /\ HubTypes'
      /\ \/ /\ stream'[c] = "receiving" /\ client[c] = "there" /\ c \in connections'
            /\ DOMAIN inbox'[c] = {1} /\ inbox'[c][1] = 0 /\ inbox'[c] # <<>> /\ Messages(c)' = {0}
         \/ stream'[c] = "ended" /\ client[c] = "left" /\ inbox'[c] = <<>> /\ Messages(c)' = {}
  <2>1. CASE /\ client[c] = "there" /\ Puts(c, 0) /\ Listed(c)
             /\ stream' = [stream EXCEPT ![c] = "receiving"]
    <3>1. /\ inbox' \in [Clients -> Seq(Nat)] /\ \A d \in Clients \ {c} : inbox'[d] = inbox[d]
          /\ DOMAIN inbox'[c] = 1..(Len(inbox[c]) + 1) /\ inbox'[c][Len(inbox[c]) + 1] = 0 /\ inbox'[c] # <<>>
          /\ Messages(c)' = Messages(c) \cup {0}
      BY <2>1, PutsOne DEF HubInv, HubTypes
    <3>2. Len(inbox[c]) = 0 /\ Messages(c) = {}
      BY <1>1 DEF Messages
    <3>3. DOMAIN inbox'[c] = {1} /\ inbox'[c][1] = 0 /\ Messages(c)' = {0}
      BY <3>1, <3>2
    <3>4. connections' = connections \cup {c}
      BY <2>1 DEF Listed
    <3>5. QED
      BY <1>1, <1>3, <2>1, <3>1, <3>3, <3>4 DEF HubInv, HubTypes
  <2>2. CASE /\ client[c] = "left" /\ stream' = [stream EXCEPT ![c] = "ended"]
             /\ Listed(c) \/ UNCHANGED <<connections, place>>
             /\ UNCHANGED <<inbox, unread>>
    <3>1. connections' = connections \/ connections' = connections \cup {c}
      BY <2>2 DEF Listed
    <3>2. inbox'[c] = <<>> /\ Messages(c)' = {}
      BY <1>1, <2>2 DEF Messages
    <3>3. QED
      BY <1>1, <1>3, <2>2, <3>1, <3>2 DEF HubInv, HubTypes
  <2>3. QED
    BY <2>1, <2>2 DEF Accepted
<1>5. ASSUME NEW d \in Clients PROVE StreamOf(d)'
  BY <1>1, <1>4 DEF HubInv, StreamOf
<1>6. ASSUME NEW n \in 1..MaxEvent PROVE TaskOf(n)'
  <2>1. TaskOf(n)
    BY DEF HubInv
  <2>2. c \notin tasks[n].todo /\ c \notin tasks[n].left
    BY <1>1, <2>1 DEF TaskOf
  <2>3. tasks[n].todo \subseteq Clients /\ tasks[n].left \subseteq Clients
    BY DEF HubInv, HubTypes
  <2>4. \A d \in tasks[n].todo \cup tasks[n].left : stream'[d] = stream[d]
    BY <1>4, <2>2, <2>3
  <2>5. tasks[n].left \cap connections' = tasks[n].left \cap connections
    BY <1>4, <2>2
  <2>6. QED
    BY <1>1, <2>1, <2>4, <2>5 DEF TaskOf
<1>7. ASSUME NEW n \in 1..MaxEvent, NEW d \in Clients PROVE SentOnce(n, d)'
  <2>1. CASE d = c
    <3>1. c \notin tasks[n].todo
      BY <1>1 DEF HubInv, TaskOf
    <3>2. n \notin Messages(c)' /\ \A i, j \in DOMAIN inbox'[c] : i = j
      BY <1>4
    <3>3. n \in analyses => n <= seen'[c]
      BY <1>2, <1>4
    <3>4. n \in Nat /\ seen'[c] \in Nat
      BY <1>2, <1>4 DEF HubInv, HubTypes
    <3>5. QED
      BY <1>1, <2>1, <3>1, <3>2, <3>3, <3>4 DEF SentOnce
  <2>2. CASE d # c
    <3>1. Messages(d)' = Messages(d)
      BY <1>4, <2>2 DEF Messages
    <3>2. QED
      BY <1>1, <1>4, <2>2, <3>1 DEF HubInv, SentOnce
  <2>3. QED
    BY <2>1, <2>2
<1>8. QED
  BY <1>4, <1>5, <1>6, <1>7 DEF HubInv

LEMMA StreamsEnd == ASSUME HubInv, NEW c \in Clients, StreamEnds(c) PROVE HubInv'
<1>1. /\ UNCHANGED <<client, inbox, analyses, seen, events, tasks>> /\ HubTypes'
      /\ connections' = connections \ {c} /\ stream[c] = "receiving" /\ client[c] = "left" /\ stream'[c] = "ended"
      /\ \A d \in Clients \ {c} : stream'[d] = stream[d]
  BY DEF StreamEnds, Disconnect, HubInv, HubTypes
<1>2. ASSUME NEW d \in Clients PROVE StreamOf(d)'
  BY <1>1 DEF HubInv, StreamOf
<1>3. ASSUME NEW n \in 1..MaxEvent PROVE TaskOf(n)'
  <2>1. TaskOf(n) /\ tasks[n].todo \subseteq Clients /\ tasks[n].left \subseteq Clients
    BY DEF HubInv, HubTypes
  <2>2. \A d \in tasks[n].todo \cup tasks[n].left : stream'[d] \in {"receiving", "ended"}
    BY <1>1, <2>1 DEF TaskOf
  <2>3. tasks[n].left \cap connections' \subseteq tasks[n].left \cap connections
    BY <1>1
  <2>4. QED
    BY <1>1, <2>1, <2>2, <2>3 DEF TaskOf
<1>4. ASSUME NEW n \in 1..MaxEvent, NEW d \in Clients PROVE SentOnce(n, d)'
  <2>1. Messages(d)' = Messages(d)
    BY <1>1 DEF Messages
  <2>2. QED
    BY <1>1, <2>1 DEF HubInv, SentOnce
<1>5. QED
  BY <1>1, <1>2, <1>3, <1>4 DEF HubInv

LEMMA EventStarts == ASSUME HubInv, Analyse \/ EmitEvent PROVE HubInv'
<1> DEFINE m == events + 1
<1>1. /\ UNCHANGED <<connections, stream, client, inbox, seen>>
      /\ events \in Nat /\ m \in 1..MaxEvent /\ events' = m /\ analyses' \in {analyses, analyses \cup {m}}
      /\ tasks' = [tasks EXCEPT ![m] = [at |-> "sending", todo |-> connections, dead |-> {},
                     left |-> {c \in connections : client[c] = "left"}]]
  BY HubAssumption DEF Analyse, EmitEvent, Starts, HubInv, HubTypes
<1>2. /\ tasks'[m].at = "sending" /\ tasks'[m].todo = connections /\ tasks'[m].dead = {}
      /\ tasks'[m].left = {c \in connections : client[c] = "left"}
      /\ \A n \in (1..MaxEvent) \ {m} : tasks'[n] = tasks[n]
      /\ tasks[m] = NoTask
  BY <1>1 DEF HubInv, HubTypes, TaskOf
<1>3. HubTypes'
  <2>1. tasks'[m] \in [at : {"none", "sending", "done"}, todo : SUBSET Clients, dead : SUBSET Clients, left : SUBSET Clients]
    BY <1>1 DEF HubInv, HubTypes
  <2>2. HubTypes /\ analyses' \subseteq 1..m /\ m \in 0..MaxEvent
    BY <1>1 DEF HubInv, HubTypes
  <2>3. seen \in [Clients -> 0..m]
    <3>1. 0..events \subseteq 0..m
      BY <1>1
    <3>2. QED
      BY <2>2, <3>1 DEF HubTypes
  <2>4. tasks' \in [1..MaxEvent -> [at : {"none", "sending", "done"}, todo : SUBSET Clients, dead : SUBSET Clients,
                                   left : SUBSET Clients]]
    BY <1>1, <2>1, <2>2 DEF HubTypes
  <2> HIDE DEF m
  <2>5. QED
    BY <1>1, <2>2, <2>3, <2>4 DEF HubTypes
<1>4. ASSUME NEW c \in Clients PROVE StreamOf(c)'
  BY <1>1 DEF HubInv, StreamOf
<1>5. \A c \in connections : stream[c] \in {"receiving", "ended"}
  BY DEF HubInv, HubTypes, StreamOf
<1>6. ASSUME NEW n \in 1..MaxEvent PROVE TaskOf(n)'
  <2>1. CASE n = m
    BY <1>1, <1>2, <1>5, <2>1 DEF TaskOf
  <2>2. CASE n # m
    BY <1>1, <1>2, <2>2 DEF HubInv, TaskOf
  <2>3. QED
    BY <2>1, <2>2
<1>7. ASSUME NEW n \in 1..MaxEvent, NEW c \in Clients PROVE SentOnce(n, c)'
  <2>1. Messages(c)' = Messages(c) /\ seen[c] \in 0..events
    BY <1>1 DEF Messages, HubInv, HubTypes
  <2>2. CASE n = m
    <3>1. m \notin Messages(c)
      BY <1>1 DEF HubInv, SentOnce
    <3>2. ~(m <= seen[c])
      BY <1>1, <2>1
    <3>3. stream[c] = "receiving" /\ client[c] = "there" => c \in connections
      BY DEF HubInv, StreamOf
    <3>4. stream[c] = "ended" => client[c] = "left"
      BY DEF HubInv, StreamOf
    <3>5. QED
      BY <1>1, <1>2, <2>1, <2>2, <3>1, <3>2, <3>3, <3>4 DEF HubInv, SentOnce
  <2>3. CASE n # m
    BY <1>1, <1>2, <2>1, <2>3 DEF HubInv, SentOnce
  <2>4. QED
    BY <2>2, <2>3
<1>8. QED
  BY <1>3, <1>4, <1>6, <1>7 DEF HubInv

LEMMA TaskChanged ==
  ASSUME NEW t \in [at : {"none", "sending", "done"}, todo : SUBSET Clients, dead : SUBSET Clients, left : SUBSET Clients],
         NEW todo, NEW dead
  PROVE  /\ [t EXCEPT !.todo = todo] = [at |-> t.at, todo |-> todo, dead |-> t.dead, left |-> t.left]
         /\ [[at |-> t.at, todo |-> todo, dead |-> t.dead, left |-> t.left] EXCEPT !.dead = dead]
              = [at |-> t.at, todo |-> todo, dead |-> dead, left |-> t.left]
<1>1. PICK a, b, d, l : t = [at |-> a, todo |-> b, dead |-> d, left |-> l]
  OBVIOUS
<1>2. [t EXCEPT !.todo = todo] = [at |-> a, todo |-> todo, dead |-> d, left |-> l]
  BY <1>1
<1>3. [[at |-> a, todo |-> todo, dead |-> d, left |-> l] EXCEPT !.dead = dead]
        = [at |-> a, todo |-> todo, dead |-> dead, left |-> l]
  OBVIOUS
<1>4. t.at = a /\ t.dead = d /\ t.left = l
  BY <1>1
<1>5. QED
  BY <1>2, <1>3, <1>4

(* A send takes its client off those who are left, and changes no other     *)
(* broadcast.                                                              *)
LEMMA OneTakenOff ==
  ASSUME HubInv, NEW n \in 1..MaxEvent, NEW c \in Clients, tasks[n].at = "sending",
         \/ tasks' = [tasks EXCEPT ![n].todo = @ \ {c}]
         \/ tasks' = [tasks EXCEPT ![n].todo = @ \ {c}, ![n].dead = @ \cup {c}]
  PROVE  /\ tasks' \in [1..MaxEvent -> [at : {"none", "sending", "done"}, todo : SUBSET Clients, dead : SUBSET Clients,
                                        left : SUBSET Clients]]
         /\ tasks'[n].at = "sending" /\ tasks'[n].left = tasks[n].left /\ tasks'[n].todo = tasks[n].todo \ {c}
         /\ \A m \in (1..MaxEvent) \ {n} : tasks'[m] = tasks[m]
<1> DEFINE task == tasks[n]
           fewer == [at |-> task.at, todo |-> task.todo \ {c}, dead |-> task.dead, left |-> task.left]
           gone == [at |-> task.at, todo |-> task.todo \ {c}, dead |-> task.dead \cup {c}, left |-> task.left]
<1>1. /\ task \in [at : {"none", "sending", "done"}, todo : SUBSET Clients, dead : SUBSET Clients, left : SUBSET Clients]
      /\ tasks \in [1..MaxEvent -> [at : {"none", "sending", "done"}, todo : SUBSET Clients, dead : SUBSET Clients,
                                   left : SUBSET Clients]]
  BY DEF HubInv, HubTypes
<1>2. tasks' = [tasks EXCEPT ![n] = fewer] \/ tasks' = [tasks EXCEPT ![n] = gone]
  <2>1. CASE tasks' = [tasks EXCEPT ![n].todo = @ \ {c}]
    <3>1. [task EXCEPT !.todo = @ \ {c}] = fewer
      BY <1>1, TaskChanged
    <3>2. QED
      BY <2>1, <3>1
  <2>2. CASE tasks' = [tasks EXCEPT ![n].todo = @ \ {c}, ![n].dead = @ \cup {c}]
    <3> DEFINE first == [tasks EXCEPT ![n] = fewer]
    <3>1. [task EXCEPT !.todo = @ \ {c}] = fewer
      BY <1>1, TaskChanged
    <3>2. tasks' = [first EXCEPT ![n].dead = @ \cup {c}]
      BY <2>2, <3>1
    <3>3. [fewer EXCEPT !.dead = task.dead \cup {c}] = gone
      <4> DEFINE todo == task.todo \ {c}
                 dead == task.dead \cup {c}
      <4>1. [[at |-> task.at, todo |-> todo, dead |-> task.dead, left |-> task.left] EXCEPT !.dead = dead]
              = [at |-> task.at, todo |-> todo, dead |-> dead, left |-> task.left]
        <5> HIDE DEF task, todo, dead
        <5>1. QED
          BY <1>1, TaskChanged
      <4>2. QED
        BY <4>1
    <3>4. first[n] = fewer /\ fewer.dead = task.dead
      BY <1>1
    <3>5. [first EXCEPT ![n] = gone] = [tasks EXCEPT ![n] = gone]
      BY <1>1
    <3>6. QED
      BY <3>2, <3>3, <3>4, <3>5
  <2>3. QED
    BY <2>1, <2>2
<1>3. \A new \in {fewer, gone} :
        /\ new \in [at : {"none", "sending", "done"}, todo : SUBSET Clients, dead : SUBSET Clients, left : SUBSET Clients]
        /\ new.at = task.at /\ new.left = task.left /\ new.todo = task.todo \ {c}
  BY <1>1
<1>4. PICK new \in {fewer, gone} : tasks' = [tasks EXCEPT ![n] = new]
  BY <1>2
<1>5. QED
  BY <1>1, <1>3, <1>4

LEMMA OneIsSent == ASSUME HubInv, NEW n \in 1..MaxEvent, SendNext(n) PROVE HubInv'
<1>1. PICK c \in Clients :
        /\ IsNext(n, c)
        /\ \/ /\ client[c] = "there" /\ Puts(c, n)
              /\ tasks' = [tasks EXCEPT ![n].todo = @ \ {c}]
           \/ /\ client[c] = "left"
              /\ tasks' = [tasks EXCEPT ![n].todo = @ \ {c}, ![n].dead = @ \cup {c}]
              /\ UNCHANGED inbox
        /\ UNCHANGED <<connections, stream, client, analyses, seen, events>>
  BY DEF SendNext
<1>2. /\ tasks[n].at = "sending" /\ c \in tasks[n].todo /\ stream[c] \in {"receiving", "ended"}
      /\ n <= events /\ n \notin Messages(c) /\ n \in Nat
      /\ n \in analyses => ~(n <= seen[c])
  <2>1. tasks[n].at = "sending" /\ c \in tasks[n].todo
    BY <1>1 DEF IsNext
  <2>2. events \in Nat
    BY DEF HubInv, HubTypes
  <2>3. QED
    BY <2>1, <2>2 DEF HubInv, TaskOf, SentOnce, NoTask
<1>3. /\ tasks' \in [1..MaxEvent -> [at : {"none", "sending", "done"}, todo : SUBSET Clients, dead : SUBSET Clients,
                                     left : SUBSET Clients]]
      /\ tasks'[n].at = "sending" /\ tasks'[n].left = tasks[n].left /\ tasks'[n].todo = tasks[n].todo \ {c}
      /\ \A m \in (1..MaxEvent) \ {n} : tasks'[m] = tasks[m]
  BY <1>1, <1>2, OneTakenOff
<1>4. \/ client[c] = "there" /\ tasks'[n].dead = tasks[n].dead /\ Puts(c, n)
      \/ client[c] = "left" /\ tasks'[n].dead = tasks[n].dead \cup {c} /\ inbox' = inbox
  BY <1>1, <1>2 DEF HubInv, HubTypes
<1>5. /\ inbox' \in [Clients -> Seq(Nat)] /\ \A d \in Clients \ {c} : inbox'[d] = inbox[d]
      /\ client[c] = "there" =>
           /\ DOMAIN inbox'[c] = 1..(Len(inbox[c]) + 1) /\ DOMAIN inbox[c] = 1..Len(inbox[c]) /\ Len(inbox[c]) \in Nat
           /\ \A i \in DOMAIN inbox[c] : inbox'[c][i] = inbox[c][i]
           /\ inbox'[c][Len(inbox[c]) + 1] = n /\ inbox'[c] # <<>>
           /\ Messages(c)' = Messages(c) \cup {n}
      /\ client[c] = "left" => inbox' = inbox
  BY <1>2, <1>4, PutsOne DEF HubInv, HubTypes
<1>6. HubTypes'
  BY <1>1, <1>3, <1>5 DEF HubInv, HubTypes
<1>7. ASSUME NEW d \in Clients PROVE StreamOf(d)'
  <2>1. CASE d = c /\ client[c] = "there"
    <3>1. stream[c] = "receiving" /\ inbox[c] # <<>> /\ inbox[c][1] = 0
      BY <1>2, <2>1 DEF HubInv, StreamOf
    <3>2. 1 \in DOMAIN inbox[c]
      BY <1>5, <2>1, <3>1 DEF HubInv, HubTypes
    <3>3. inbox'[c] # <<>> /\ inbox'[c][1] = 0
      BY <1>5, <2>1, <3>1, <3>2
    <3>4. QED
      BY <1>1, <2>1, <3>1, <3>3 DEF HubInv, StreamOf
  <2>2. CASE d # c \/ client[c] # "there"
    BY <1>1, <1>4, <1>5, <2>2 DEF HubInv, StreamOf
  <2>3. QED
    BY <2>1, <2>2
<1>8. ASSUME NEW m \in 1..MaxEvent PROVE TaskOf(m)'
  <2>1. CASE m = n
    <3>1. events \in Nat /\ ~(n > events)
      BY <1>2 DEF HubInv, HubTypes
    <3>2. tasks[n].left \cap connections \subseteq tasks[n].todo \cup tasks[n].dead
      BY <1>2 DEF HubInv, TaskOf
    <3>3. c \in tasks[n].left => client[c] = "left"
      BY DEF HubInv, TaskOf
    <3>4. tasks'[n].left \cap connections \subseteq tasks'[n].todo \cup tasks'[n].dead
      BY <1>3, <1>4, <3>2, <3>3
    <3>5. QED
      BY <1>1, <1>2, <1>3, <1>4, <2>1, <3>1, <3>4 DEF HubInv, TaskOf
  <2>2. CASE m # n
    BY <1>1, <1>3, <2>2 DEF HubInv, TaskOf
  <2>3. QED
    BY <2>1, <2>2
<1>9. ASSUME NEW m \in 1..MaxEvent, NEW d \in Clients PROVE SentOnce(m, d)'
  <2>1. CASE d = c /\ client[c] = "there"
    <3>1. m # n => tasks'[m] = tasks[m] /\ (m \in Messages(c)' <=> m \in Messages(c))
      BY <1>3, <1>5, <2>1
    <3>2. n \in Messages(c)' /\ c \notin tasks'[n].todo /\ events \in Nat
      BY <1>3, <1>5, <2>1 DEF HubInv, HubTypes
    <3>3. \A i, j \in DOMAIN inbox'[c] : inbox'[c][i] = m /\ inbox'[c][j] = m => i = j
      <4>1. \A i \in DOMAIN inbox'[c] : i \in DOMAIN inbox[c] \/ i = Len(inbox[c]) + 1
        BY <1>5, <2>1
      <4>2. \A i \in DOMAIN inbox[c] : inbox[c][i] # n
        BY <1>2 DEF Messages
      <4>3. \A i, j \in DOMAIN inbox[c] : inbox[c][i] = m /\ inbox[c][j] = m => i = j
        BY DEF HubInv, SentOnce
      <4>4. QED
        BY <1>5, <2>1, <4>1, <4>2, <4>3
    <3>4. CASE m = n
      BY <1>1, <1>2, <2>1, <3>2, <3>3, <3>4 DEF SentOnce
    <3>5. CASE m # n
      BY <1>1, <2>1, <3>1, <3>3, <3>5 DEF HubInv, SentOnce
    <3>6. QED
      BY <3>4, <3>5
  <2>2. CASE d # c \/ client[c] # "there"
    <3>1. inbox'[d] = inbox[d] /\ Messages(d)' = Messages(d)
      BY <1>4, <1>5, <2>2 DEF Messages
    <3>2. d \in tasks'[m].todo => d \in tasks[m].todo
      BY <1>3
    <3>3. d \in tasks[m].todo /\ client[d] = "there" => d \in tasks'[m].todo
      BY <1>3, <2>2
    <3>4. QED
      BY <1>1, <3>1, <3>2, <3>3 DEF HubInv, SentOnce
  <2>3. QED
    BY <2>1, <2>2
<1>10. QED
  BY <1>6, <1>7, <1>8, <1>9 DEF HubInv

LEMMA DeadDropped == ASSUME HubInv, NEW n \in 1..MaxEvent, RoundEnds(n) PROVE HubInv'
<1>1. /\ UNCHANGED <<stream, client, inbox, analyses, seen, events>>
      /\ tasks[n].at = "sending" /\ tasks[n].todo = {} /\ connections' = connections \ tasks[n].dead
      /\ tasks' = [tasks EXCEPT ![n].at = "done"]
  BY DEF RoundEnds, Disconnect
<1>2. /\ tasks' \in [1..MaxEvent -> [at : {"none", "sending", "done"}, todo : SUBSET Clients, dead : SUBSET Clients,
                                     left : SUBSET Clients]]
      /\ tasks'[n].at = "done" /\ \A m \in (1..MaxEvent) \ {n} : tasks'[m] = tasks[m]
      /\ \A m \in 1..MaxEvent : tasks'[m].todo = tasks[m].todo /\ tasks'[m].dead = tasks[m].dead /\ tasks'[m].left = tasks[m].left
  BY <1>1 DEF HubInv, HubTypes
<1>3. HubTypes'
  BY <1>1, <1>2 DEF HubInv, HubTypes
<1>4. ASSUME NEW c \in Clients PROVE StreamOf(c)'
  <2>1. client[c] = "there" /\ c \in connections => c \in connections'
    BY <1>1 DEF HubInv, TaskOf
  <2>2. QED
    BY <1>1, <2>1 DEF HubInv, StreamOf
<1>5. ASSUME NEW m \in 1..MaxEvent PROVE TaskOf(m)'
  <2>1. CASE m = n
    <3>1. tasks[n].left \cap connections \subseteq tasks[n].dead /\ tasks[n] # NoTask
      BY <1>1 DEF HubInv, TaskOf, NoTask
    <3>2. tasks'[n].left \cap connections' = {}
      BY <1>1, <1>2, <3>1
    <3>3. ~(n > events)
      BY <3>1 DEF HubInv, TaskOf
    <3>4. QED
      BY <1>1, <1>2, <2>1, <3>2, <3>3 DEF HubInv, TaskOf
  <2>2. CASE m # n
    BY <1>1, <1>2, <2>2 DEF HubInv, TaskOf
  <2>3. QED
    BY <2>1, <2>2
<1>6. ASSUME NEW m \in 1..MaxEvent, NEW c \in Clients PROVE SentOnce(m, c)'
  <2>1. Messages(c)' = Messages(c)
    BY <1>1 DEF Messages
  <2>2. QED
    BY <1>1, <1>2, <2>1 DEF HubInv, SentOnce
<1>7. QED
  BY <1>3, <1>4, <1>5, <1>6 DEF HubInv

LEMMA HubKeeps == HubInv /\ [HubNext]_hubVars => HubInv'
<1> SUFFICES ASSUME HubInv, [HubNext]_hubVars PROVE HubInv'
  OBVIOUS
<1>1. CASE UNCHANGED hubVars
  BY <1>1 DEF hubVars, HubInv, HubTypes, StreamOf, TaskOf, SentOnce, Messages
<1>2. QED
  BY <1>1, ClientsMove, SnapshotSent, StreamsEnd, EventStarts, OneIsSent, DeadDropped DEF HubNext, LoopStep

THEOREM HubInvariant == HubSpec => []HubInv
BY HubStarts, HubKeeps, PTL DEF HubSpec

(* Whatever is published while clients connect, read slowly and leave: who   *)
(* is there has each analysis in the snapshot, or is sent it once, after     *)
(* the snapshot (main.py:52-61, 113-121, 156-170).                          *)
THEOREM AnalysesSafe == HubSpec => []NoAnalysisMissed
<1>1. HubInv => ConnectedFirst
  BY DEF HubInv, HubTypes, StreamOf, ConnectedFirst
<1>2. ASSUME HubInv, NEW c \in Clients, client[c] = "there", stream[c] = "receiving", NEW n \in analyses
      PROVE  Cardinality({i \in DOMAIN inbox[c] : inbox[c][i] = n}) + (IF c \in tasks[n].todo THEN 1 ELSE 0)
               = IF n <= seen[c] THEN 0 ELSE 1
  <2> DEFINE got == {i \in DOMAIN inbox[c] : inbox[c][i] = n}
  <2>1. n \in 1..MaxEvent /\ SentOnce(n, c) /\ seen[c] \in Nat /\ n \in Nat
    <3>1. HubTypes
      BY <1>2 DEF HubInv
    <3>2. n \in 1..MaxEvent
      <4>1. events \in 0..MaxEvent /\ n \in 1..events
        BY <1>2, <3>1 DEF HubTypes
      <4>2. QED
        BY <4>1, HubAssumption
    <3>3. seen[c] \in Nat
      <4>1. seen[c] \in 0..events
        BY <1>2, <3>1 DEF HubTypes
      <4>2. QED
        BY <4>1
    <3>4. QED
      BY <1>2, <3>2, <3>3 DEF HubInv
  <2>2. got = {} => Cardinality(got) = 0
    BY FS_EmptySet
  <2>3. ASSUME n \in Messages(c) PROVE Cardinality(got) = 1
    <3>1. PICK i \in DOMAIN inbox[c] : inbox[c][i] = n
      BY <2>3 DEF Messages
    <3>2. got = {i}
      BY <2>1, <3>1 DEF SentOnce
    <3>3. QED
      BY <3>2, FS_Singleton
  <2>4. n \notin Messages(c) => got = {}
    BY DEF Messages
  <2> HIDE DEF got
  <2>5. CASE n <= seen[c]
    BY <1>2, <2>1, <2>2, <2>4, <2>5 DEF SentOnce, got
  <2>6. CASE ~(n <= seen[c])
    BY <1>2, <2>1, <2>2, <2>3, <2>4, <2>6 DEF SentOnce, got
  <2>7. QED
    BY <2>5, <2>6
<1>3. HubInv => NoAnalysisMissed
  BY <1>1, <1>2 DEF NoAnalysisMissed
<1>4. QED
  BY <1>3, HubInvariant, PTL

(* Whichever exception ended its stream, and however many broadcasts find    *)
(* it gone, a client that had left when a broadcast began is off the list    *)
(* when it ended (main.py:52-61, 161-174).                                  *)
THEOREM DeadSafe == HubSpec => []DeadAreDropped
<1>1. HubInv => DeadAreDropped
  BY DEF HubInv, TaskOf, DeadAreDropped
<1>2. QED
  BY <1>1, HubInvariant, PTL

-----------------------------------------------------------------------------
(* Why a broadcast ends: someone is next as long as anybody is left to send  *)
(* to, and nobody is sent to again.                                        *)

ListedOnce == {c \in Clients : place[c] > 0}
PlaceInv == place \in [Clients -> Nat] /\ IsFiniteSet(ListedOnce)

(* A broadcast under way has a next client until it has nobody left; nothing *)
(* adds to those it still has to send to, each send takes one of them off,   *)
(* and a broadcast that is done stays done.                                *)
RoundsGoForward ==
  \A n \in 1..MaxEvent :
    /\ tasks[n].at = "sending" =>
         /\ tasks[n].todo = {} \/ \E c \in Clients : IsNext(n, c)
         /\ \/ tasks'[n] = tasks[n]
            \/ \E c \in tasks[n].todo : tasks'[n].todo = tasks[n].todo \ {c} /\ tasks'[n].at = "sending"
            \/ tasks[n].todo = {} /\ tasks'[n].at = "done"
    /\ tasks[n].at = "done" => tasks'[n] = tasks[n]

LEMMA PlaceKeeps == PlaceInv /\ [HubNext]_hubVars => PlaceInv'
<1> SUFFICES ASSUME PlaceInv, [HubNext]_hubVars PROVE PlaceInv'
  OBVIOUS
<1>1. CASE place' = place
  BY <1>1 DEF PlaceInv, ListedOnce
<1>2. ASSUME NEW c \in Clients, Listed(c) PROVE PlaceInv'
  <2>1. Cardinality({d \in Clients : place[d] > 0}) \in Nat
    BY FS_CardinalityType DEF PlaceInv, ListedOnce
  <2>2. place' \in [Clients -> Nat] /\ ListedOnce' \subseteq ListedOnce \cup {c}
    BY <1>2, <2>1 DEF Listed, PlaceInv, ListedOnce
  <2>3. IsFiniteSet(ListedOnce \cup {c})
    BY FS_AddElement DEF PlaceInv
  <2>4. QED
    BY <2>2, <2>3, FS_Subset DEF PlaceInv
<1>3. CASE \E c \in Clients : Accepted(c)
  BY <1>1, <1>2, <1>3 DEF Accepted
<1>4. QED
  BY <1>1, <1>3 DEF HubNext, hubVars, LoopStep, ClientConnects, ClientReads, ClientLeaves, StreamEnds, Analyse, EmitEvent,
     SendNext, RoundEnds, Disconnect

(* Of any clients one was listed first, or as early as any other. *)
LEMMA SomeoneIsNext ==
  ASSUME PlaceInv, HubTypes, NEW n \in 1..MaxEvent, tasks[n].at = "sending", tasks[n].todo # {}
  PROVE  \E c \in Clients : IsNext(n, c)
<1> DEFINE P == {place[c] : c \in tasks[n].todo}
           R == OpToRel(<, Nat)
<1>1. tasks[n].todo \subseteq Clients
  BY DEF HubTypes
<1>2. P \in SUBSET Nat /\ P # {}
  BY <1>1 DEF PlaceInv
<1>3. PICK p \in P : \A q \in P : ~(<<q, p>> \in R)
  BY <1>2, NatLessThanWellFounded, WFMin
<1>4. \A q \in P : ~(q < p)
  BY <1>2, <1>3 DEF OpToRel
<1>5. PICK c \in tasks[n].todo : place[c] = p
  BY <1>3
<1>6. QED
  <2>1. \A d \in tasks[n].todo : place[d] \in Nat /\ ~(place[d] < place[c])
    BY <1>1, <1>4, <1>5 DEF PlaceInv
  <2>2. \A d \in tasks[n].todo : place[c] <= place[d]
    BY <2>1
  <2>3. QED
    BY <1>1, <2>2 DEF IsNext

LEMMA RoundsStep ==
  ASSUME HubInv, PlaceInv, [HubNext]_hubVars PROVE RoundsGoForward
<1> SUFFICES ASSUME NEW n \in 1..MaxEvent, tasks'[n] # tasks[n], tasks[n].at # "none"
             PROVE  /\ tasks[n].at = "sending"
                    /\ \/ \E c \in tasks[n].todo : tasks'[n].todo = tasks[n].todo \ {c} /\ tasks'[n].at = "sending"
                       \/ tasks[n].todo = {} /\ tasks'[n].at = "done"
  BY SomeoneIsNext DEF RoundsGoForward, HubInv, HubTypes
<1> DEFINE Task == [at : {"none", "sending", "done"}, todo : SUBSET Clients, dead : SUBSET Clients, left : SUBSET Clients]
<1>1. tasks \in [1..MaxEvent -> Task]
  BY DEF HubInv, HubTypes
<1>2. n <= events
  BY DEF HubInv, HubTypes, TaskOf, NoTask
<1>3. CASE Analyse \/ EmitEvent
  <2>1. n # events + 1
    BY <1>2 DEF HubInv, HubTypes
  <2>2. QED
    BY <1>1, <1>3, <2>1 DEF Analyse, EmitEvent, Starts
<1>4. CASE \E m \in 1..MaxEvent : SendNext(m)
  <2>1. PICK m \in 1..MaxEvent : SendNext(m)
    BY <1>4
  <2>2. PICK c \in Clients :
          /\ IsNext(m, c)
          /\ \/ tasks' = [tasks EXCEPT ![m].todo = @ \ {c}]
             \/ tasks' = [tasks EXCEPT ![m].todo = @ \ {c}, ![m].dead = @ \cup {c}]
    BY <2>1 DEF SendNext
  <2>3. m = n
    BY <1>1, <2>2
  <2>4. tasks[n].at = "sending" /\ c \in tasks[n].todo
    BY <2>2, <2>3 DEF IsNext
  <2>5. tasks'[n].todo = tasks[n].todo \ {c} /\ tasks'[n].at = tasks[n].at
    BY <2>2, <2>3, <2>4, OneTakenOff
  <2>6. QED
    BY <2>4, <2>5
<1>5. CASE \E m \in 1..MaxEvent : RoundEnds(m)
  BY <1>1, <1>5 DEF RoundEnds
<1>6. QED
  BY <1>3, <1>4, <1>5 DEF HubNext, hubVars, LoopStep, ClientConnects, ClientReads, ClientLeaves, Accepted, StreamEnds

(* However many broadcasts interleave and whoever leaves between two sends,  *)
(* a broadcast waits for nothing but the client next in its copy of the       *)
(* list, and comes to each of them once (main.py:52-61): BroadcastsEnd needs *)
(* only that this client reads or leaves.                                  *)
THEOREM BroadcastsAdvance == HubSpec => [][RoundsGoForward]_hubVars
<1>1. HubInit => PlaceInv
  <2> SUFFICES ASSUME HubInit PROVE PlaceInv
    OBVIOUS
  <2>1. place \in [Clients -> Nat] /\ ListedOnce = {}
    BY DEF HubInit, ListedOnce
  <2>2. QED
    BY <2>1, FS_EmptySet DEF PlaceInv
<1>2. HubInv /\ PlaceInv /\ [HubNext]_hubVars => RoundsGoForward
  BY RoundsStep
<1>3. QED
  BY <1>1, <1>2, PlaceKeeps, HubInvariant, PTL DEF HubSpec
=============================================================================
