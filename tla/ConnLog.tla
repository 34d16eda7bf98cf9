------------------------------ MODULE ConnLog ------------------------------
(***************************************************************************)
(* Zeek's conn.log and its two readers: LiveZeekReader                      *)
(* (src/ingest/live_zeek_reader.py), which hands new records to the         *)
(* worker's rule stage, and the dashboard's RealDataProvider (dashboard.py),*)
(* which reads the whole log again when it changed. Zeek writes and         *)
(* clear_logs removes while they read; every access to the file is an       *)
(* action of its own.                                                      *)
(*                                                                         *)
(* A log has size units: the header, then two halves of each record, so    *)
(* that record r ends with unit 2r + 1 and a read may cut one. gen numbers  *)
(* the files that had the name, 0 when there is none.                      *)
(***************************************************************************)
EXTENDS Integers, Sequences

CONSTANTS
  MaxGen,  \* bound: files that ever have the name
  MaxSize  \* bound: units in a file

ASSUME LogAssumption == MaxGen \in Nat /\ MaxSize \in Nat

VARIABLES
  log,   \* [gen, size, mtime]; every change has a new mtime
  made,  \* files made so far
  tail,  \* LiveZeekReader: position, _offset, file of _partial_line, file last read
  out,   \* for each file the records it handed on; for 0 those made of two files
  lock,  \* RealDataProvider._lock: the request inside, with its position
  cache, \* _flows, _last_mtime, and whether _last_refresh is younger than the TTL
  readPast   \* history: files the tail took for their predecessor, stamps of another file

logVars == <<log, made, tail, out, lock, cache, readPast>>

NoLog   == [gen |-> 0, size |-> 0]
Exists  == log.gen # 0
File    == [gen |-> log.gen, size |-> log.size]

LogInit ==
  /\ log = [gen |-> 0, size |-> 0, mtime |-> 0]
  /\ made = 0
  /\ \E at \in {<<"init", "off">>, <<"off", "free">>} : \* one reader: they share nothing but the log
       /\ tail = [pc |-> at[1], offset |-> 0, partial |-> 0, gen |-> 0]
       /\ lock = [pc |-> at[2], parsed |-> NoLog]
  /\ out = [g \in 0..MaxGen |-> <<>>]
  /\ cache = [flows |-> NoLog, stamp |-> 0, fresh |-> FALSE]
  /\ readPast = [missed |-> {}, raced |-> {}]

-----------------------------------------------------------------------------
(* Zeek and clear_logs                                                     *)

Create ==
  /\ ~Exists /\ made < MaxGen
  /\ made' = made + 1
  /\ log' = [gen |-> made + 1, size |-> 0, mtime |-> log.mtime + 1]
  /\ UNCHANGED <<tail, out, lock, cache, readPast>>

Write ==
  /\ Exists /\ log.size < MaxSize
  /\ log' = [log EXCEPT !.size = @ + 1, !.mtime = @ + 1]
  /\ UNCHANGED <<made, tail, out, lock, cache, readPast>>

Remove ==
  /\ Exists
  /\ log' = [log EXCEPT !.gen = 0, !.size = 0]
  /\ UNCHANGED <<made, tail, out, lock, cache, readPast>>

-----------------------------------------------------------------------------
(* LiveZeekReader.run                                                      *)

TailAt(pc)   == tail.pc = pc
TailGoes(pc) == tail' = [tail EXCEPT !.pc = pc]
TailOnly     == UNCHANGED <<log, made, lock, cache>>

(* Until the header is there, what initialize raises is caught. *)
Initialize ==
  /\ TailAt("init") /\ log.size >= 1
  /\ TailGoes("poll")
  /\ TailOnly /\ UNCHANGED <<out, readPast>>

(* read_new: with no log there is nothing new; *)
Poll ==
  /\ TailAt("poll") /\ Exists
  /\ TailGoes("stat")
  /\ TailOnly /\ UNCHANGED <<out, readPast>>

(* Mutant of Stat: the record that the old log ended in survives. *)
StatKeepsPartial ==
  /\ TailAt("stat")
  /\ IF Exists THEN tail' = [tail EXCEPT !.pc = "open", !.offset = IF log.size < @ THEN 0 ELSE @]
     ELSE TailGoes("ended")
  /\ TailOnly /\ UNCHANGED <<out, readPast>>

(* but a log that goes between exists() and stat() ends the thread. One     *)
(* smaller than the offset is a new one.                                   *)
Stat ==
  /\ TailAt("stat")
  /\ IF ~Exists THEN TailGoes("ended")
     ELSE IF log.size < tail.offset
          THEN tail' = [tail EXCEPT !.pc = "open", !.offset = 0, !.partial = 0]
     ELSE TailGoes("open")
  /\ TailOnly /\ UNCHANGED <<out, readPast>>

(* Unit u is part of line u \div 2: the header is line 0, record r line r.  *)
(* A line is handed on when its end lies behind the offset; if it began     *)
(* before, its first half comes from _partial_line, and without one it is   *)
(* dropped for its few values.                                             *)
First == (tail.offset + 1) \div 2
Begun == First > 0 /\ 2 * First <= tail.offset

Handed ==
  LET from == IF tail.partial = 0 /\ (Begun \/ First = 0) THEN First + 1 ELSE First
      last == (log.size - 1) \div 2
  IN  [i \in 1..(last - from + 1) |-> from + i - 1]

(* The first half of the first line is another file's. *)
Mixed == tail.partial \notin {0, log.gen}

(* Mutant of ReadOn: a line that has no end is thrown away. *)
ReadOnDropping(offset) ==
  [tail EXCEPT !.pc = "poll", !.offset = offset, !.gen = log.gen, !.partial = 0]

(* A line that has no end yet is kept as _partial_line. *)
ReadOn(offset) ==
  [tail EXCEPT !.pc = "poll", !.offset = offset, !.gen = log.gen,
               !.partial = IF offset > 1 /\ offset % 2 = 0 THEN log.gen ELSE 0]

(* The rest of the log is read and its records are handed to the callback.  *)
(* Reading behind the end gives nothing and leaves everything as it was.    *)
Open ==
  /\ TailAt("open")
  /\ IF ~Exists THEN TailGoes("ended") /\ UNCHANGED out
     ELSE IF log.size <= tail.offset THEN TailGoes("poll") /\ UNCHANGED out
     ELSE /\ out' = IF Mixed THEN [out EXCEPT ![0] = Append(@, First), ![log.gen] = @ \o Tail(Handed)]
                  ELSE [out EXCEPT ![log.gen] = @ \o Handed]
          /\ tail' = ReadOn(log.size)
  /\ readPast' = [readPast EXCEPT !.missed =
       IF log.gen # tail.gen /\ tail.offset \in 1..log.size THEN @ \cup {log.gen} ELSE @]
  /\ TailOnly

-----------------------------------------------------------------------------
(* RealDataProvider._ensure_fresh, under _lock                             *)

LockAt(pc)  == lock.pc = pc
Empty       == cache.flows.size < 2
AskOnly     == UNCHANGED <<log, made, tail, out>>
Leaves      == lock' = [pc |-> "free", parsed |-> NoLog]
LockGoes(pc) == lock' = [lock EXCEPT !.pc = pc]

(* The TTL has passed since the last refresh. *)
Expire ==
  /\ cache.fresh /\ cache' = [cache EXCEPT !.fresh = FALSE]
  /\ AskOnly /\ UNCHANGED <<lock, readPast>>

(* _find_zeek_log_dir: without a log there is nothing to look at; a provider *)
(* that has no flows tries a refresh all the same.                         *)
Ask ==
  /\ LockAt("free") /\ ~cache.fresh
  /\ \/ Exists /\ LockGoes("stat")
     \/ ~Exists /\ Empty /\ LockGoes("find")
  /\ AskOnly /\ UNCHANGED <<cache, readPast>>

(* _should_refresh; the same mtime renews the TTL. *)
ShouldRefresh ==
  /\ LockAt("stat")
  /\ cache' = [cache EXCEPT !.fresh = Exists /\ log.mtime = cache.stamp]
  /\ IF (Exists /\ log.mtime # cache.stamp) \/ Empty THEN LockGoes("find") ELSE Leaves
  /\ AskOnly /\ UNCHANGED readPast

(* Mutant of Refresh: a failed refresh stamps the file it failed on. *)
RefreshStamps ==
  /\ LockAt("find")
  /\ IF log.size >= 2
     THEN lock' = [pc |-> "parsed", parsed |-> File] /\ UNCHANGED cache
     ELSE Leaves /\ cache' = [cache EXCEPT !.stamp = log.mtime, !.fresh = TRUE]
  /\ AskOnly /\ UNCHANGED readPast

(* refresh: read, build features, run the detectors. No log, or one without *)
(* a header, raises: the error is kept and what is shown stays.            *)
Refresh ==
  /\ LockAt("find")
  /\ IF log.size >= 1
     THEN lock' = [pc |-> "parsed", parsed |-> File] /\ UNCHANGED cache
     ELSE Leaves /\ cache' = [cache EXCEPT !.fresh = TRUE]
  /\ AskOnly /\ UNCHANGED readPast

Show ==
  /\ LockAt("parsed")
  /\ LockGoes("shown")
  /\ cache' = [cache EXCEPT !.flows = lock.parsed]
  /\ AskOnly /\ UNCHANGED readPast

(* The mtime is looked up after the log was read. *)
Stamp ==
  /\ LockAt("shown")
  /\ cache' = [cache EXCEPT !.stamp = IF Exists THEN log.mtime ELSE @, !.fresh = TRUE]
  /\ readPast' = [readPast EXCEPT !.raced = IF Exists /\ lock.parsed # File THEN @ \cup {log.mtime} ELSE @]
  /\ Leaves
  /\ AskOnly

TailStep == Initialize \/ Poll \/ Stat \/ Open
AskStep  == Ask \/ ShouldRefresh \/ Refresh \/ Show \/ Stamp

LogNext == Create \/ Write \/ Remove \/ TailStep \/ Expire \/ AskStep

(* The tail polls, the page asks again and again, and time passes. *)
LogSpec == LogInit /\ [][LogNext]_logVars /\ WF_logVars(TailStep) /\ WF_logVars(AskStep) /\ WF_logVars(Expire)

-----------------------------------------------------------------------------
LogTypeOK ==
  /\ log \in [gen : 0..MaxGen, size : 0..MaxSize, mtime : Nat] /\ made \in 0..MaxGen
  /\ tail \in [pc : {"off", "init", "poll", "stat", "open", "ended"}, offset : 0..MaxSize,
               partial : 0..MaxGen, gen : 0..MaxGen]
  /\ out \in [0..MaxGen -> Seq(0..MaxSize)]
  /\ lock.pc \in {"off", "free", "stat", "find", "parsed", "shown"}
  /\ cache.flows.gen \in 0..MaxGen /\ cache.stamp \in 0..log.mtime /\ cache.fresh \in BOOLEAN

(* The rule stage is given each record of a log once, in the order of the   *)
(* log and with none left out, however the reads cut the lines              *)
(* (live_zeek_reader.py:67-96), and never a record put together from two    *)
(* files, unless the tail took one file for the other (62).                *)
RecordsInOrder ==
  /\ \A g \in (1..MaxGen) \ readPast.missed : \A i \in DOMAIN out[g] : out[g][i] = i
  /\ readPast.missed = {} => out[0] = <<>>

LogRests == <>[][FALSE]_log

(* Once the log rests, all its records are handed on sooner or later,       *)
(* unless the tail took the log for its predecessor, or its thread ended     *)
(* because the log went between exists() and stat() or open() (58-67,        *)
(* 129-134).                                                               *)
RecordsArrive ==
  LogRests => <>[]( \/ ~Exists \/ log.gen \in readPast.missed \/ tail.pc \in {"ended", "off"}
                    \/ 2 * Len(out[log.gen]) >= log.size - 2 )

(* A provider that is at rest and has the mtime of the log shows the log,   *)
(* unless the log changed between being read and being stamped: a failed   *)
(* refresh, one for a log that is gone or a new log leaves no wrong stamp    *)
(* (dashboard.py:483-491, 543, 634-647).                                   *)
StampedIsShown ==
  LockAt("free") /\ cache.stamp = log.mtime /\ cache.stamp \notin readPast.raced /\ Exists =>
    cache.flows = File

(* What is shown is only replaced by what was read of a later state of the  *)
(* log: a failed refresh does not blank it (dashboard.py:665-668).          *)
NeverBlanked ==
  [][cache'.flows # cache.flows =>
       \/ cache'.flows.gen > cache.flows.gen
       \/ (cache'.flows.gen = cache.flows.gen /\ cache'.flows.size > cache.flows.size)]_cache

(* Once the log rests, it is shown sooner or later, unless the provider     *)
(* stamped it without having read it (dashboard.py:470-491).                *)
RestingLogShown ==
  LogRests => <>[](log.size = 0 \/ cache.flows = File \/ log.mtime \in readPast.raced \/ LockAt("off"))

(* "Cache refreshes when conn.log's mtime changes or the TTL expires"       *)
(* (dashboard.py:455-456): a provider that asked again after the TTL shows   *)
(* the log.                                                                *)
CheckedIsShown ==
  LockAt("free") /\ Exists /\ cache.fresh /\ cache.stamp = log.mtime => cache.flows = File
=============================================================================
