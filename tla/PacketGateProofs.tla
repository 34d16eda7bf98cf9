-------------------------- MODULE PacketGateProofs --------------------------
(***************************************************************************)
(* What holds of PacketGate for every set of rows, sources and threads and *)
(* every bound. GateSafe rests on the inductive invariant SessionInv: every *)
(* row that the queue or a thread's local still holds was captured in the  *)
(* running session, and every flagged source was named in it. What is       *)
(* promised of handlers that run one after the other rests on TurnInv,      *)
(* which says of each position of the one handler under way which rows it   *)
(* has judged, which it holds and which still wait, so that a row is         *)
(* accounted for between two handlers.                                     *)
(***************************************************************************)
EXTENDS PacketGate, FiniteSetTheorems, WellFoundedInduction, TLAPS

(* Rows that are still on their way to the models. *)
WorkerHolds    == worker.fresh \cup worker.list \cup worker.frame \cup worker.kept
PacketHolds(t) == packet[t].rows \cup packet[t].fresh
Held == {r \in Rows : \/ r \in pending \cup WorkerHolds
                      \/ \E t \in PacketThreads : r \in PacketHolds(t)}

(* A thread that is in no handler has no locals. *)
IdleHoldsNothing ==
  /\ worker.pc = "idle" => worker = IdleWorker
  /\ \A t \in PacketThreads : packet[t].pc = "idle" => packet[t] = IdlePacket

HeldRowsAreCurrent == \A r \in Held : seenIn[r] = session

SessionInv ==
  /\ TypeOK
  /\ flagged \subseteq ruled
  /\ IdleHoldsNothing
  /\ HeldRowsAreCurrent

-----------------------------------------------------------------------------
(* Filters of a list keep to its rows. *)
LEMMA FiltersShrink ==
  ASSUME NEW rows, NEW k
  PROVE  /\ Fresh(rows) \subseteq rows
         /\ OfFlagged(rows) \subseteq rows
         /\ FrameAt(rows, k) \subseteq rows
         /\ Oldest(rows) \subseteq rows
BY DEF Fresh, OfFlagged, FrameAt, Oldest

(* The models' outcome keeps the counters in range. *)
LEMMA ScoreType ==
  ASSUME TypeOK, NEW rows \in SUBSET Rows, Score(rows)
  PROVE  scored' \in [Rows -> Nat] /\ released' \subseteq Rows
BY DEF TypeOK, Score

(* A finite list has a length. *)
LEMMA LengthType ==
  ASSUME NEW rows \in SUBSET Rows
  PROVE  Cardinality(rows) \in Nat
BY RowAssumption, FS_Subset, FS_CardinalityType

(* A packet thread's step changes its own locals only. *)
LEMMA PacketStepType ==
  ASSUME TypeOK, NEW t \in PacketThreads, NEW next \in PacketLocals, PacketGoes(t, next)
  PROVE  packet' \in [PacketThreads -> PacketLocals]
BY DEF TypeOK, PacketGoes

LEMMA IdleTypes == IdleWorker \in WorkerLocals /\ IdlePacket \in PacketLocals
BY DEF IdleWorker, IdlePacket, WorkerLocals, PacketLocals, WorkerPcs, PacketPcs

(* A rebound list leaves the worker walking a set of rows. *)
LEMMA DetachedType == TypeOK => Detached \in WorkerLocals
BY DEF TypeOK, Detached, Walked, WorkerLocals

-----------------------------------------------------------------------------
(* Every attribute and local keeps its type, whatever the interleaving. *)
THEOREM TypeCorrect == Spec => []TypeOK
<1>1. Init => TypeOK
  BY IdleTypes DEF Init, TypeOK
<1>2. TypeOK /\ [Next]_vars => TypeOK'
  <2> SUFFICES ASSUME TypeOK, [Next]_vars
               PROVE  TypeOK'
    OBVIOUS
  <2> USE DEF shared, history
  <2>1. CASE RuleBatch
    BY <2>1 DEF TypeOK, RuleBatch, WorkerLocals, WorkerPcs, WorkerAt
  <2>2. CASE FlushNothing
    BY <2>2, IdleTypes DEF TypeOK, FlushNothing, WorkerLocals, WorkerPcs, WorkerAt
  <2>3. CASE FlushSome
    BY <2>3 DEF TypeOK, FlushSome, WorkerLocals, WorkerPcs, WorkerAt
  <2>4. CASE WorkerExpire
    BY <2>4, FiltersShrink DEF TypeOK, WorkerExpire, WorkerLocals, WorkerPcs, WorkerAt
  <2>5. CASE WorkerAssignFresh
    BY <2>5 DEF TypeOK, WorkerAssignFresh, WorkerLocals, WorkerPcs, WorkerAt
  <2>6. CASE WorkerBegin
    BY <2>6 DEF TypeOK, WorkerBegin, WorkerLocals, WorkerPcs, WorkerAt
  <2>7. CASE WorkerNextFrame
    <3>1. Walked \subseteq Rows
      BY DEF TypeOK, Walked, WorkerLocals
    <3>2. FrameAt(Walked, worker.index) \in SUBSET Rows
      BY <3>1, FiltersShrink
    <3>3. ASSUME NEW frame \in SUBSET Rows
          PROVE  [worker EXCEPT !.pc = "score", !.index = @ + 1, !.frame = frame] \in WorkerLocals
      <4>1. worker.index + 1 \in Nat
        BY DEF TypeOK, WorkerLocals
      <4>2. QED
        BY <4>1 DEF TypeOK, WorkerLocals, WorkerPcs
    <3>4. worker' \in WorkerLocals
      BY <2>7, <3>2, <3>3 DEF WorkerNextFrame
    <3>5. QED
      BY <2>7, <3>4 DEF TypeOK, WorkerNextFrame
  <2>8. CASE WorkerScore
    BY <2>8, FiltersShrink, ScoreType DEF TypeOK, WorkerScore, WorkerLocals, WorkerPcs, WorkerAt
  <2>9. CASE WorkerKeep
    BY <2>9 DEF TypeOK, WorkerKeep, StillWaiting, OfFlagged, WorkerLocals, WorkerPcs, WorkerAt
  <2>10. CASE WorkerLastFrame
    BY <2>10 DEF TypeOK, WorkerLastFrame, WorkerLocals, WorkerPcs, WorkerAt
  <2>11. CASE WorkerAssignKept
    BY <2>11, IdleTypes DEF TypeOK, WorkerAssignKept, WorkerLocals, WorkerPcs, WorkerAt
  <2>12. ASSUME NEW t \in PacketThreads, PacketBatch(t) PROVE TypeOK'
    <3>1. packet[t] \in PacketLocals
      BY DEF TypeOK
    <3>2. PICK rows \in SUBSET Rows :
            /\ seenIn' = [r \in Rows |-> IF r \in rows THEN session ELSE seenIn[r]]
            /\ PacketGoes(t, [packet[t] EXCEPT !.pc = "expire", !.rows = rows])
      BY <2>12 DEF PacketBatch
    <3>3. [packet[t] EXCEPT !.pc = "expire", !.rows = rows] \in PacketLocals
      BY <3>1 DEF PacketLocals, PacketPcs
    <3>4. packet' \in [PacketThreads -> PacketLocals]
      BY <3>2, <3>3, PacketStepType
    <3>5. QED
      BY <2>12, <3>2, <3>4 DEF TypeOK, PacketBatch
  <2>13. ASSUME NEW t \in PacketThreads, PacketArrive(t) PROVE TypeOK'
    <3> DEFINE next == [packet[t] EXCEPT !.pc = "assignFresh", !.fresh = Fresh(pending)]
    <3>1. packet[t] \in PacketLocals
      BY DEF TypeOK
    <3>2. next \in PacketLocals
      BY <2>13, <3>1, FiltersShrink DEF TypeOK, PacketLocals, PacketPcs, PacketArrive, PacketExpire
    <3>3. PacketGoes(t, next)
      BY <2>13 DEF PacketArrive, PacketExpire
    <3>4. packet' \in [PacketThreads -> PacketLocals]
      BY <3>2, <3>3, PacketStepType
    <3>5. QED
      BY <2>13, <3>1, <3>4, FiltersShrink DEF TypeOK, PacketLocals, PacketArrive, PacketExpire
  <2>14. ASSUME NEW t \in PacketThreads, PacketAssignFresh(t) PROVE TypeOK'
    <3> DEFINE next == [packet[t] EXCEPT !.pc = "score", !.fresh = {}]
    <3>1. packet[t] \in PacketLocals
      BY DEF TypeOK
    <3>2. next \in PacketLocals
      BY <2>14, <3>1, DetachedType DEF TypeOK, PacketLocals, PacketPcs, PacketAssignFresh, PacketAssign
    <3>3. PacketGoes(t, next)
      BY <2>14 DEF PacketAssignFresh, PacketAssign
    <3>4. packet' \in [PacketThreads -> PacketLocals]
      BY <3>2, <3>3, PacketStepType
    <3>5. QED
      BY <2>14, <3>1, <3>4, DetachedType DEF TypeOK, PacketLocals, PacketAssignFresh, PacketAssign
  <2>15. ASSUME NEW t \in PacketThreads, PacketScore(t) PROVE TypeOK'
    <3> DEFINE next == [packet[t] EXCEPT !.pc = "mask"]
    <3>1. packet[t] \in PacketLocals
      BY DEF TypeOK
    <3>2. next \in PacketLocals
      BY <2>15, <3>1, FiltersShrink, ScoreType DEF TypeOK, PacketLocals, PacketPcs, PacketScore
    <3>3. PacketGoes(t, next)
      BY <2>15 DEF PacketScore
    <3>4. packet' \in [PacketThreads -> PacketLocals]
      BY <3>2, <3>3, PacketStepType
    <3>5. QED
      BY <2>15, <3>1, <3>4, FiltersShrink, ScoreType DEF TypeOK, PacketLocals, PacketScore
  <2>16. ASSUME NEW t \in PacketThreads, PacketMask(t) PROVE TypeOK'
    <3> DEFINE late == packet[t].rows \ OfFlagged(packet[t].rows)
               next == IF late = {} THEN IdlePacket
                       ELSE [packet[t] EXCEPT !.pc = "queue", !.rows = late]
    <3>1. packet[t] \in PacketLocals
      BY DEF TypeOK
    <3>2. next \in PacketLocals
      BY <3>1, IdleTypes DEF PacketLocals, PacketPcs
    <3>3. PacketGoes(t, next)
      BY <2>16 DEF PacketMask, StillWaiting
    <3>4. packet' \in [PacketThreads -> PacketLocals]
      BY <3>2, <3>3, PacketStepType
    <3>5. QED
      BY <2>16, <3>4 DEF TypeOK, PacketMask
  <2>17. ASSUME NEW t \in PacketThreads, PacketQueue(t) PROVE TypeOK'
    <3> DEFINE next == [packet[t] EXCEPT !.pc = "queueFresh", !.fresh = Fresh(pending)]
    <3>1. packet[t] \in PacketLocals
      BY DEF TypeOK
    <3>2. next \in PacketLocals
      BY <2>17, <3>1, FiltersShrink DEF TypeOK, PacketLocals, PacketPcs, PacketQueue, PacketExpire
    <3>3. PacketGoes(t, next)
      BY <2>17 DEF PacketQueue, PacketExpire
    <3>4. packet' \in [PacketThreads -> PacketLocals]
      BY <3>2, <3>3, PacketStepType
    <3>5. QED
      BY <2>17, <3>1, <3>4, FiltersShrink DEF TypeOK, PacketLocals, PacketQueue, PacketExpire
  <2>18. ASSUME NEW t \in PacketThreads, PacketAssignQueue(t) PROVE TypeOK'
    <3> DEFINE next == [packet[t] EXCEPT !.pc = "append", !.fresh = {}]
    <3>1. packet[t] \in PacketLocals
      BY DEF TypeOK
    <3>2. next \in PacketLocals
      BY <2>18, <3>1, DetachedType DEF TypeOK, PacketLocals, PacketPcs, PacketAssignQueue, PacketAssign
    <3>3. PacketGoes(t, next)
      BY <2>18 DEF PacketAssignQueue, PacketAssign
    <3>4. packet' \in [PacketThreads -> PacketLocals]
      BY <3>2, <3>3, PacketStepType
    <3>5. QED
      BY <2>18, <3>1, <3>4, DetachedType DEF TypeOK, PacketLocals, PacketAssignQueue, PacketAssign
  <2>19. ASSUME NEW t \in PacketThreads, PacketAppend(t) PROVE TypeOK'
    <3> DEFINE next == [packet[t] EXCEPT !.pc = "sum", !.rows = {}]
    <3>1. packet[t] \in PacketLocals
      BY DEF TypeOK
    <3>2. next \in PacketLocals
      BY <2>19, <3>1 DEF TypeOK, PacketLocals, PacketPcs, PacketAppend
    <3>3. PacketGoes(t, next)
      BY <2>19 DEF PacketAppend
    <3>4. packet' \in [PacketThreads -> PacketLocals]
      BY <3>2, <3>3, PacketStepType
    <3>5. QED
      BY <2>19, <3>1, <3>4 DEF TypeOK, PacketLocals, PacketAppend
  <2>20. ASSUME NEW t \in PacketThreads, PacketSum(t) PROVE TypeOK'
    <3> DEFINE next == [packet[t] EXCEPT !.pc = "trim", !.total = Cardinality(pending)]
    <3>1. packet[t] \in PacketLocals
      BY DEF TypeOK
    <3>2. next \in PacketLocals
      BY <2>20, <3>1, LengthType DEF TypeOK, PacketLocals, PacketPcs, PacketSum
    <3>3. PacketGoes(t, next)
      BY <2>20 DEF PacketSum
    <3>4. packet' \in [PacketThreads -> PacketLocals]
      BY <3>2, <3>3, PacketStepType
    <3>5. QED
      BY <2>20, <3>1, <3>4, LengthType DEF TypeOK, PacketLocals, PacketSum
  <2>21. ASSUME NEW t \in PacketThreads, PacketTrim(t) PROVE TypeOK'
    <3> DEFINE next == IF packet[t].total > MaxRows /\ pending # {}
                       THEN [packet[t] EXCEPT !.pc = "pop"] ELSE IdlePacket
    <3>1. packet[t] \in PacketLocals
      BY DEF TypeOK
    <3>2. next \in PacketLocals
      BY <2>21, <3>1, IdleTypes DEF TypeOK, PacketLocals, PacketPcs, PacketTrim
    <3>3. PacketGoes(t, next)
      BY <2>21 DEF PacketTrim
    <3>4. packet' \in [PacketThreads -> PacketLocals]
      BY <3>2, <3>3, PacketStepType
    <3>5. QED
      BY <2>21, <3>1, <3>4, IdleTypes DEF TypeOK, PacketLocals, PacketTrim
  <2>22. ASSUME NEW t \in PacketThreads, PacketPop(t) PROVE TypeOK'
    <3> DEFINE next == [packet[t] EXCEPT !.pc = "trim",
                         !.total = IF packet[t].total > Cardinality(Oldest(pending))
                                   THEN packet[t].total - Cardinality(Oldest(pending)) ELSE 0]
    <3>1. packet[t] \in PacketLocals
      BY DEF TypeOK
    <3>2. next \in PacketLocals
      <4>1. Cardinality(Oldest(pending)) \in Nat
        BY FiltersShrink, LengthType DEF TypeOK
      <4>2. packet[t].total > Cardinality(Oldest(pending))
              => packet[t].total - Cardinality(Oldest(pending)) \in Nat
        BY <3>1, <4>1 DEF PacketLocals
      <4>3. QED
        BY <3>1, <4>1, <4>2 DEF PacketLocals, PacketPcs
    <3>3. PacketGoes(t, next)
      BY <2>22 DEF PacketPop
    <3>4. packet' \in [PacketThreads -> PacketLocals]
      BY <3>2, <3>3, PacketStepType
    <3>5. QED
      BY <2>22, <3>1, <3>4, FiltersShrink, LengthType DEF TypeOK, PacketLocals, PacketPop
  <2>23. ASSUME NEW t \in PacketThreads, PacketPopFails(t) PROVE TypeOK'
    <3> DEFINE next == IdlePacket
    <3>1. packet[t] \in PacketLocals
      BY DEF TypeOK
    <3>2. next \in PacketLocals
      BY <2>23, <3>1, IdleTypes DEF TypeOK, PacketLocals, PacketPcs, PacketPopFails
    <3>3. PacketGoes(t, next)
      BY <2>23 DEF PacketPopFails
    <3>4. packet' \in [PacketThreads -> PacketLocals]
      BY <3>2, <3>3, PacketStepType
    <3>5. QED
      BY <2>23, <3>1, <3>4, IdleTypes DEF TypeOK, PacketLocals, PacketPopFails
  <2>24. CASE Reset
    BY <2>24 DEF TypeOK, Reset
  <2>25. CASE Tick
    BY <2>25 DEF TypeOK, Tick
  <2>26. CASE UNCHANGED vars
    BY <2>26 DEF TypeOK, vars
  <2>27. QED
    BY <2>1, <2>2, <2>3, <2>4, <2>5, <2>6, <2>7, <2>8, <2>9, <2>10, <2>11, <2>12, <2>13, <2>14, <2>15, <2>16, <2>17, <2>18, <2>19, <2>20, <2>21, <2>22, <2>23, <2>24, <2>25, <2>26 DEF Next, WorkerStep, PacketStep
<1>3. QED
  BY <1>1, <1>2, PTL DEF Spec

-----------------------------------------------------------------------------
(* A step of one thread hands on only rows that were on their way before. *)
LEMMA WorkerHandsOn ==
  ASSUME TypeOK, HeldRowsAreCurrent, UNCHANGED <<session, seenIn, packet>>,
         pending' \subseteq Held, WorkerHolds' \subseteq Held
  PROVE  HeldRowsAreCurrent'
BY DEF HeldRowsAreCurrent, Held, PacketHolds

LEMMA PacketHandsOn ==
  ASSUME TypeOK, HeldRowsAreCurrent, IdleHoldsNothing,
         UNCHANGED <<session, seenIn>>,
         NEW t \in PacketThreads, NEW next \in PacketLocals, PacketGoes(t, next),
         pending' \subseteq Held, WorkerHolds' \subseteq Held,
         next.rows \cup next.fresh \subseteq Held,
         next.pc = "idle" => next = IdlePacket,
         worker'.pc = "idle" => worker' = IdleWorker
  PROVE  HeldRowsAreCurrent' /\ IdleHoldsNothing'
<1>1. packet'[t] = next /\ \A u \in PacketThreads \ {t} : packet'[u] = packet[u]
  BY DEF PacketGoes, TypeOK
<1>2. IdleHoldsNothing'
  BY <1>1 DEF IdleHoldsNothing
<1>3. \A u \in PacketThreads : PacketHolds(u)' \subseteq Held
  BY <1>1 DEF PacketHolds, Held, TypeOK, PacketLocals
<1>4. Held' \subseteq Held
  BY <1>3 DEF Held
<1>5. QED
  BY <1>2, <1>4 DEF HeldRowsAreCurrent

(* A thread's locals, and what the worker walks, are among the held rows. *)
LEMMA LocalsAreHeld ==
  ASSUME TypeOK
  PROVE  /\ pending \subseteq Held /\ WorkerHolds \subseteq Held /\ Walked \subseteq Held
         /\ Fresh(pending) \subseteq Held
         /\ \A t \in PacketThreads : PacketHolds(t) \subseteq Held
BY FiltersShrink DEF TypeOK, Held, WorkerHolds, PacketHolds, Walked, WorkerLocals, PacketLocals

(* Rebinding the attribute leaves the worker with the rows it was walking. *)
LEMMA DetachedHolds ==
  ASSUME TypeOK, IdleHoldsNothing, worker' = Detached
  PROVE  /\ WorkerHolds' \subseteq Held
         /\ worker'.pc = "idle" => worker' = IdleWorker
<1>1. /\ worker'.fresh = worker.fresh /\ worker'.list = Walked
      /\ worker'.frame = worker.frame /\ worker'.kept = worker.kept
      /\ worker'.pc = worker.pc
  BY DEF TypeOK, Detached, WorkerLocals
<1>2. WorkerHolds' \subseteq Held
  BY <1>1, LocalsAreHeld DEF WorkerHolds
<1>3. ASSUME worker.pc = "idle" PROVE worker' = IdleWorker
  <2>1. worker = IdleWorker
    BY <1>3 DEF IdleHoldsNothing
  <2>2. Walked = {}
    BY <2>1 DEF Walked, IdleWorker
  <2>3. QED
    BY <2>1, <2>2 DEF Detached, IdleWorker
<1>4. QED
  BY <1>1, <1>2, <1>3

-----------------------------------------------------------------------------
(* The inductive invariant: what is still on its way belongs to the        *)
(* running session.                                                        *)
THEOREM SessionInvariant == CleanStop => (Spec => []SessionInv)
<1> SUFFICES ASSUME CleanStop PROVE Spec => []SessionInv
  OBVIOUS
<1>1. Init => SessionInv
  <2> SUFFICES ASSUME Init PROVE SessionInv
    OBVIOUS
  <2>1. TypeOK
    BY IdleTypes DEF Init, TypeOK
  <2>2. Held = {}
    BY DEF Init, Held, WorkerHolds, PacketHolds, IdleWorker, IdlePacket
  <2>3. QED
    BY <2>1, <2>2 DEF Init, SessionInv, IdleHoldsNothing, HeldRowsAreCurrent
<1>2. SessionInv /\ TypeOK' /\ [Next]_vars => SessionInv'
  <2> SUFFICES ASSUME SessionInv, TypeOK', [Next]_vars
               PROVE  SessionInv'
    OBVIOUS
  <2> USE DEF SessionInv, shared, history
  <2>1. CASE RuleBatch
    <3>1. pending' \subseteq Held /\ WorkerHolds' \subseteq Held
      BY <2>1, LocalsAreHeld DEF TypeOK, WorkerLocals, WorkerHolds, RuleBatch
    <3>2. worker'.pc = "idle" => worker' = IdleWorker
      BY <2>1 DEF TypeOK, WorkerLocals, RuleBatch
    <3>3. QED
      BY <2>1, <3>1, <3>2, WorkerHandsOn DEF RuleBatch, IdleHoldsNothing
  <2>2. CASE FlushNothing
    <3>1. pending' \subseteq Held /\ WorkerHolds' \subseteq Held
      BY <2>2, LocalsAreHeld DEF WorkerHolds, IdleWorker, FlushNothing
    <3>2. worker'.pc = "idle" => worker' = IdleWorker
      BY <2>2 DEF TypeOK, WorkerLocals, FlushNothing
    <3>3. QED
      BY <2>2, <3>1, <3>2, WorkerHandsOn DEF FlushNothing, IdleHoldsNothing
  <2>3. CASE FlushSome
    <3>1. pending' \subseteq Held /\ WorkerHolds' \subseteq Held
      BY <2>3, LocalsAreHeld DEF TypeOK, WorkerLocals, WorkerHolds, FlushSome
    <3>2. worker'.pc = "idle" => worker' = IdleWorker
      BY <2>3 DEF TypeOK, WorkerLocals, FlushSome
    <3>3. QED
      BY <2>3, <3>1, <3>2, WorkerHandsOn DEF FlushSome, IdleHoldsNothing
  <2>4. CASE WorkerExpire
    <3>1. pending' \subseteq Held /\ WorkerHolds' \subseteq Held
      BY <2>4, LocalsAreHeld DEF TypeOK, WorkerLocals, WorkerHolds, WorkerExpire
    <3>2. worker'.pc = "idle" => worker' = IdleWorker
      BY <2>4 DEF TypeOK, WorkerLocals, WorkerExpire
    <3>3. QED
      BY <2>4, <3>1, <3>2, WorkerHandsOn DEF WorkerExpire, IdleHoldsNothing
  <2>5. CASE WorkerAssignFresh
    <3>1. pending' \subseteq Held /\ WorkerHolds' \subseteq Held
      BY <2>5, LocalsAreHeld DEF TypeOK, WorkerLocals, WorkerHolds, WorkerAssignFresh
    <3>2. worker'.pc = "idle" => worker' = IdleWorker
      BY <2>5 DEF TypeOK, WorkerLocals, WorkerAssignFresh
    <3>3. QED
      BY <2>5, <3>1, <3>2, WorkerHandsOn DEF WorkerAssignFresh, IdleHoldsNothing
  <2>6. CASE WorkerBegin
    <3>1. pending' \subseteq Held /\ WorkerHolds' \subseteq Held
      BY <2>6, LocalsAreHeld DEF TypeOK, WorkerLocals, WorkerHolds, WorkerBegin
    <3>2. worker'.pc = "idle" => worker' = IdleWorker
      BY <2>6 DEF TypeOK, WorkerLocals, WorkerBegin
    <3>3. QED
      BY <2>6, <3>1, <3>2, WorkerHandsOn DEF WorkerBegin, IdleHoldsNothing
  <2>7. CASE WorkerNextFrame
    <3>1. pending' \subseteq Held /\ WorkerHolds' \subseteq Held
      BY <2>7, LocalsAreHeld, FiltersShrink DEF TypeOK, WorkerLocals, WorkerHolds, WorkerNextFrame
    <3>2. worker'.pc = "idle" => worker' = IdleWorker
      BY <2>7 DEF TypeOK, WorkerLocals, WorkerNextFrame
    <3>3. QED
      BY <2>7, <3>1, <3>2, WorkerHandsOn DEF WorkerNextFrame, IdleHoldsNothing
  <2>8. CASE WorkerScore
    <3>1. pending' \subseteq Held /\ WorkerHolds' \subseteq Held
      BY <2>8, LocalsAreHeld DEF TypeOK, WorkerLocals, WorkerHolds, WorkerScore
    <3>2. worker'.pc = "idle" => worker' = IdleWorker
      BY <2>8 DEF TypeOK, WorkerLocals, WorkerScore
    <3>3. QED
      BY <2>8, <3>1, <3>2, WorkerHandsOn DEF WorkerScore, IdleHoldsNothing
  <2>9. CASE WorkerKeep
    <3>1. pending' \subseteq Held /\ WorkerHolds' \subseteq Held
      BY <2>9, LocalsAreHeld DEF TypeOK, WorkerLocals, WorkerHolds, WorkerKeep, StillWaiting
    <3>2. worker'.pc = "idle" => worker' = IdleWorker
      BY <2>9 DEF TypeOK, WorkerLocals, WorkerKeep
    <3>3. QED
      BY <2>9, <3>1, <3>2, WorkerHandsOn DEF WorkerKeep, IdleHoldsNothing
  <2>10. CASE WorkerLastFrame
    <3>1. pending' \subseteq Held /\ WorkerHolds' \subseteq Held
      BY <2>10, LocalsAreHeld DEF TypeOK, WorkerLocals, WorkerHolds, WorkerLastFrame
    <3>2. worker'.pc = "idle" => worker' = IdleWorker
      BY <2>10 DEF TypeOK, WorkerLocals, WorkerLastFrame
    <3>3. QED
      BY <2>10, <3>1, <3>2, WorkerHandsOn DEF WorkerLastFrame, IdleHoldsNothing
  <2>11. CASE WorkerAssignKept
    <3>1. pending' \subseteq Held /\ WorkerHolds' \subseteq Held
      BY <2>11, LocalsAreHeld DEF WorkerHolds, IdleWorker, WorkerAssignKept
    <3>2. worker'.pc = "idle" => worker' = IdleWorker
      BY <2>11 DEF TypeOK, WorkerLocals, WorkerAssignKept
    <3>3. QED
      BY <2>11, <3>1, <3>2, WorkerHandsOn DEF WorkerAssignKept, IdleHoldsNothing
  <2>12. ASSUME NEW t \in PacketThreads, PacketBatch(t) PROVE SessionInv'
    <3>1. PICK rows \in SUBSET Rows :
            /\ seenIn' = [r \in Rows |-> IF r \in rows THEN session ELSE seenIn[r]]
            /\ PacketGoes(t, [packet[t] EXCEPT !.pc = "expire", !.rows = rows])
      BY <2>12 DEF PacketBatch
    <3>2. /\ packet'[t].rows = rows /\ packet'[t].fresh = packet[t].fresh
          /\ packet'[t].pc = "expire"
          /\ \A u \in PacketThreads \ {t} : packet'[u] = packet[u]
      BY <3>1 DEF PacketGoes, TypeOK, PacketLocals
    <3>3. Held' \subseteq Held \cup rows
      BY <2>12, <3>2 DEF PacketBatch, Held, WorkerHolds, PacketHolds
    <3>4. HeldRowsAreCurrent'
      BY <2>12, <3>1, <3>3 DEF PacketBatch, HeldRowsAreCurrent, Held
    <3>5. IdleHoldsNothing'
      BY <2>12, <3>2 DEF PacketBatch, IdleHoldsNothing
    <3>6. QED
      BY <2>12, <3>4, <3>5 DEF PacketBatch
  <2>13. ASSUME NEW t \in PacketThreads, PacketArrive(t) PROVE SessionInv'
    <3> DEFINE next == [packet[t] EXCEPT !.pc = "assignFresh", !.fresh = Fresh(pending)]
    <3>1. packet[t] \in PacketLocals /\ PacketHolds(t) \subseteq Held
      BY LocalsAreHeld DEF TypeOK
    <3>2. PacketGoes(t, next)
      BY <2>13 DEF PacketArrive, PacketExpire
    <3>3. next \in PacketLocals
      BY <3>2 DEF TypeOK, PacketGoes
    <3>4. /\ next.rows \cup next.fresh \subseteq Held
          /\ next.pc = "idle" => next = IdlePacket
      BY <2>13, <3>1, LocalsAreHeld, FiltersShrink DEF PacketHolds, PacketLocals, IdlePacket
    <3>5. WorkerHolds' \subseteq Held /\ (worker'.pc = "idle" => worker' = IdleWorker)
      BY <2>13, LocalsAreHeld DEF WorkerHolds, IdleHoldsNothing, PacketArrive, PacketExpire
    <3>6. pending' \subseteq Held
      BY <2>13, <3>1, LocalsAreHeld, FiltersShrink DEF PacketHolds, PacketLocals, PacketArrive, PacketExpire
    <3>7. HeldRowsAreCurrent' /\ IdleHoldsNothing'
      BY <2>13, <3>2, <3>3, <3>4, <3>5, <3>6, PacketHandsOn DEF PacketArrive, PacketExpire
    <3>8. QED
      BY <2>13, <3>7 DEF PacketArrive, PacketExpire
  <2>14. ASSUME NEW t \in PacketThreads, PacketAssignFresh(t) PROVE SessionInv'
    <3> DEFINE next == [packet[t] EXCEPT !.pc = "score", !.fresh = {}]
    <3>1. packet[t] \in PacketLocals /\ PacketHolds(t) \subseteq Held
      BY LocalsAreHeld DEF TypeOK
    <3>2. PacketGoes(t, next)
      BY <2>14 DEF PacketAssignFresh, PacketAssign
    <3>3. next \in PacketLocals
      BY <3>2 DEF TypeOK, PacketGoes
    <3>4. /\ next.rows \cup next.fresh \subseteq Held
          /\ next.pc = "idle" => next = IdlePacket
      BY <2>14, <3>1, LocalsAreHeld, FiltersShrink DEF PacketHolds, PacketLocals, IdlePacket
    <3>5. WorkerHolds' \subseteq Held /\ (worker'.pc = "idle" => worker' = IdleWorker)
      BY <2>14, DetachedHolds DEF PacketAssignFresh, PacketAssign
    <3>6. pending' \subseteq Held
      BY <2>14, <3>1, LocalsAreHeld, FiltersShrink DEF PacketHolds, PacketLocals, PacketAssignFresh, PacketAssign
    <3>7. HeldRowsAreCurrent' /\ IdleHoldsNothing'
      BY <2>14, <3>2, <3>3, <3>4, <3>5, <3>6, PacketHandsOn DEF PacketAssignFresh, PacketAssign
    <3>8. QED
      BY <2>14, <3>7 DEF PacketAssignFresh, PacketAssign
  <2>15. ASSUME NEW t \in PacketThreads, PacketScore(t) PROVE SessionInv'
    <3> DEFINE next == [packet[t] EXCEPT !.pc = "mask"]
    <3>1. packet[t] \in PacketLocals /\ PacketHolds(t) \subseteq Held
      BY LocalsAreHeld DEF TypeOK
    <3>2. PacketGoes(t, next)
      BY <2>15 DEF PacketScore
    <3>3. next \in PacketLocals
      BY <3>2 DEF TypeOK, PacketGoes
    <3>4. /\ next.rows \cup next.fresh \subseteq Held
          /\ next.pc = "idle" => next = IdlePacket
      BY <2>15, <3>1, LocalsAreHeld, FiltersShrink DEF PacketHolds, PacketLocals, IdlePacket
    <3>5. WorkerHolds' \subseteq Held /\ (worker'.pc = "idle" => worker' = IdleWorker)
      BY <2>15, LocalsAreHeld DEF WorkerHolds, IdleHoldsNothing, PacketScore
    <3>6. pending' \subseteq Held
      BY <2>15, <3>1, LocalsAreHeld, FiltersShrink DEF PacketHolds, PacketLocals, PacketScore
    <3>7. HeldRowsAreCurrent' /\ IdleHoldsNothing'
      BY <2>15, <3>2, <3>3, <3>4, <3>5, <3>6, PacketHandsOn DEF PacketScore
    <3>8. QED
      BY <2>15, <3>7 DEF PacketScore
  <2>16. ASSUME NEW t \in PacketThreads, PacketMask(t) PROVE SessionInv'
    <3> DEFINE next == IF packet[t].rows \ OfFlagged(packet[t].rows) = {} THEN IdlePacket
                       ELSE [packet[t] EXCEPT !.pc = "queue",
                               !.rows = packet[t].rows \ OfFlagged(packet[t].rows)]
    <3>1. packet[t] \in PacketLocals /\ PacketHolds(t) \subseteq Held
      BY LocalsAreHeld DEF TypeOK
    <3>2. PacketGoes(t, next)
      BY <2>16 DEF PacketMask, StillWaiting
    <3>3. next \in PacketLocals
      BY <3>2 DEF TypeOK, PacketGoes
    <3>4. /\ next.rows \cup next.fresh \subseteq Held
          /\ next.pc = "idle" => next = IdlePacket
      BY <2>16, <3>1, LocalsAreHeld, FiltersShrink DEF PacketHolds, PacketLocals, IdlePacket
    <3>5. WorkerHolds' \subseteq Held /\ (worker'.pc = "idle" => worker' = IdleWorker)
      BY <2>16, LocalsAreHeld DEF WorkerHolds, IdleHoldsNothing, PacketMask
    <3>6. pending' \subseteq Held
      BY <2>16, <3>1, LocalsAreHeld, FiltersShrink DEF PacketHolds, PacketLocals, PacketMask
    <3>7. HeldRowsAreCurrent' /\ IdleHoldsNothing'
      BY <2>16, <3>2, <3>3, <3>4, <3>5, <3>6, PacketHandsOn DEF PacketMask, StillWaiting
    <3>8. QED
      BY <2>16, <3>7 DEF PacketMask, StillWaiting
  <2>17. ASSUME NEW t \in PacketThreads, PacketQueue(t) PROVE SessionInv'
    <3> DEFINE next == [packet[t] EXCEPT !.pc = "queueFresh", !.fresh = Fresh(pending)]
    <3>1. packet[t] \in PacketLocals /\ PacketHolds(t) \subseteq Held
      BY LocalsAreHeld DEF TypeOK
    <3>2. PacketGoes(t, next)
      BY <2>17 DEF PacketQueue, PacketExpire
    <3>3. next \in PacketLocals
      BY <3>2 DEF TypeOK, PacketGoes
    <3>4. /\ next.rows \cup next.fresh \subseteq Held
          /\ next.pc = "idle" => next = IdlePacket
      BY <2>17, <3>1, LocalsAreHeld, FiltersShrink DEF PacketHolds, PacketLocals, IdlePacket
    <3>5. WorkerHolds' \subseteq Held /\ (worker'.pc = "idle" => worker' = IdleWorker)
      BY <2>17, LocalsAreHeld DEF WorkerHolds, IdleHoldsNothing, PacketQueue, PacketExpire
    <3>6. pending' \subseteq Held
      BY <2>17, <3>1, LocalsAreHeld, FiltersShrink DEF PacketHolds, PacketLocals, PacketQueue, PacketExpire
    <3>7. HeldRowsAreCurrent' /\ IdleHoldsNothing'
      BY <2>17, <3>2, <3>3, <3>4, <3>5, <3>6, PacketHandsOn DEF PacketQueue, PacketExpire
    <3>8. QED
      BY <2>17, <3>7 DEF PacketQueue, PacketExpire
  <2>18. ASSUME NEW t \in PacketThreads, PacketAssignQueue(t) PROVE SessionInv'
    <3> DEFINE next == [packet[t] EXCEPT !.pc = "append", !.fresh = {}]
    <3>1. packet[t] \in PacketLocals /\ PacketHolds(t) \subseteq Held
      BY LocalsAreHeld DEF TypeOK
    <3>2. PacketGoes(t, next)
      BY <2>18 DEF PacketAssignQueue, PacketAssign
    <3>3. next \in PacketLocals
      BY <3>2 DEF TypeOK, PacketGoes
    <3>4. /\ next.rows \cup next.fresh \subseteq Held
          /\ next.pc = "idle" => next = IdlePacket
      BY <2>18, <3>1, LocalsAreHeld, FiltersShrink DEF PacketHolds, PacketLocals, IdlePacket
    <3>5. WorkerHolds' \subseteq Held /\ (worker'.pc = "idle" => worker' = IdleWorker)
      BY <2>18, DetachedHolds DEF PacketAssignQueue, PacketAssign
    <3>6. pending' \subseteq Held
      BY <2>18, <3>1, LocalsAreHeld, FiltersShrink DEF PacketHolds, PacketLocals, PacketAssignQueue, PacketAssign
    <3>7. HeldRowsAreCurrent' /\ IdleHoldsNothing'
      BY <2>18, <3>2, <3>3, <3>4, <3>5, <3>6, PacketHandsOn DEF PacketAssignQueue, PacketAssign
    <3>8. QED
      BY <2>18, <3>7 DEF PacketAssignQueue, PacketAssign
  <2>19. ASSUME NEW t \in PacketThreads, PacketAppend(t) PROVE SessionInv'
    <3> DEFINE next == [packet[t] EXCEPT !.pc = "sum", !.rows = {}]
    <3>1. packet[t] \in PacketLocals /\ PacketHolds(t) \subseteq Held
      BY LocalsAreHeld DEF TypeOK
    <3>2. PacketGoes(t, next)
      BY <2>19 DEF PacketAppend
    <3>3. next \in PacketLocals
      BY <3>2 DEF TypeOK, PacketGoes
    <3>4. /\ next.rows \cup next.fresh \subseteq Held
          /\ next.pc = "idle" => next = IdlePacket
      BY <2>19, <3>1, LocalsAreHeld, FiltersShrink DEF PacketHolds, PacketLocals, IdlePacket
    <3>5. WorkerHolds' \subseteq Held /\ (worker'.pc = "idle" => worker' = IdleWorker)
      BY <2>19, LocalsAreHeld DEF WorkerHolds, IdleHoldsNothing, PacketAppend
    <3>6. pending' \subseteq Held
      BY <2>19, <3>1, LocalsAreHeld, FiltersShrink DEF PacketHolds, PacketLocals, PacketAppend
    <3>7. HeldRowsAreCurrent' /\ IdleHoldsNothing'
      BY <2>19, <3>2, <3>3, <3>4, <3>5, <3>6, PacketHandsOn DEF PacketAppend
    <3>8. QED
      BY <2>19, <3>7 DEF PacketAppend
  <2>20. ASSUME NEW t \in PacketThreads, PacketSum(t) PROVE SessionInv'
    <3> DEFINE next == [packet[t] EXCEPT !.pc = "trim", !.total = Cardinality(pending)]
    <3>1. packet[t] \in PacketLocals /\ PacketHolds(t) \subseteq Held
      BY LocalsAreHeld DEF TypeOK
    <3>2. PacketGoes(t, next)
      BY <2>20 DEF PacketSum
    <3>3. next \in PacketLocals
      BY <3>2 DEF TypeOK, PacketGoes
    <3>4. /\ next.rows \cup next.fresh \subseteq Held
          /\ next.pc = "idle" => next = IdlePacket
      BY <2>20, <3>1, LocalsAreHeld, FiltersShrink DEF PacketHolds, PacketLocals, IdlePacket
    <3>5. WorkerHolds' \subseteq Held /\ (worker'.pc = "idle" => worker' = IdleWorker)
      BY <2>20, LocalsAreHeld DEF WorkerHolds, IdleHoldsNothing, PacketSum
    <3>6. pending' \subseteq Held
      BY <2>20, <3>1, LocalsAreHeld, FiltersShrink DEF PacketHolds, PacketLocals, PacketSum
    <3>7. HeldRowsAreCurrent' /\ IdleHoldsNothing'
      BY <2>20, <3>2, <3>3, <3>4, <3>5, <3>6, PacketHandsOn DEF PacketSum
    <3>8. QED
      BY <2>20, <3>7 DEF PacketSum
  <2>21. ASSUME NEW t \in PacketThreads, PacketTrim(t) PROVE SessionInv'
    <3> DEFINE next == IF packet[t].total > MaxRows /\ pending # {}
                       THEN [packet[t] EXCEPT !.pc = "pop"] ELSE IdlePacket
    <3>1. packet[t] \in PacketLocals /\ PacketHolds(t) \subseteq Held
      BY LocalsAreHeld DEF TypeOK
    <3>2. PacketGoes(t, next)
      BY <2>21 DEF PacketTrim
    <3>3. next \in PacketLocals
      BY <3>2 DEF TypeOK, PacketGoes
    <3>4. /\ next.rows \cup next.fresh \subseteq Held
          /\ next.pc = "idle" => next = IdlePacket
      BY <2>21, <3>1, LocalsAreHeld, FiltersShrink DEF PacketHolds, PacketLocals, IdlePacket
    <3>5. WorkerHolds' \subseteq Held /\ (worker'.pc = "idle" => worker' = IdleWorker)
      BY <2>21, LocalsAreHeld DEF WorkerHolds, IdleHoldsNothing, PacketTrim
    <3>6. pending' \subseteq Held
      BY <2>21, <3>1, LocalsAreHeld, FiltersShrink DEF PacketHolds, PacketLocals, PacketTrim
    <3>7. HeldRowsAreCurrent' /\ IdleHoldsNothing'
      BY <2>21, <3>2, <3>3, <3>4, <3>5, <3>6, PacketHandsOn DEF PacketTrim
    <3>8. QED
      BY <2>21, <3>7 DEF PacketTrim
  <2>22. ASSUME NEW t \in PacketThreads, PacketPop(t) PROVE SessionInv'
    <3> DEFINE next == [packet[t] EXCEPT !.pc = "trim",
                         !.total = IF packet[t].total > Cardinality(Oldest(pending))
                                   THEN packet[t].total - Cardinality(Oldest(pending)) ELSE 0]
    <3>1. packet[t] \in PacketLocals /\ PacketHolds(t) \subseteq Held
      BY LocalsAreHeld DEF TypeOK
    <3>2. PacketGoes(t, next)
      BY <2>22 DEF PacketPop
    <3>3. next \in PacketLocals
      BY <3>2 DEF TypeOK, PacketGoes
    <3>4. /\ next.rows \cup next.fresh \subseteq Held
          /\ next.pc = "idle" => next = IdlePacket
      BY <2>22, <3>1, LocalsAreHeld, FiltersShrink DEF PacketHolds, PacketLocals, IdlePacket
    <3>5. WorkerHolds' \subseteq Held /\ (worker'.pc = "idle" => worker' = IdleWorker)
      BY <2>22, LocalsAreHeld DEF WorkerHolds, IdleHoldsNothing, PacketPop
    <3>6. pending' \subseteq Held
      BY <2>22, <3>1, LocalsAreHeld, FiltersShrink DEF PacketHolds, PacketLocals, PacketPop
    <3>7. HeldRowsAreCurrent' /\ IdleHoldsNothing'
      BY <2>22, <3>2, <3>3, <3>4, <3>5, <3>6, PacketHandsOn DEF PacketPop
    <3>8. QED
      BY <2>22, <3>7 DEF PacketPop
  <2>23. ASSUME NEW t \in PacketThreads, PacketPopFails(t) PROVE SessionInv'
    <3> DEFINE next == IdlePacket
    <3>1. packet[t] \in PacketLocals /\ PacketHolds(t) \subseteq Held
      BY LocalsAreHeld DEF TypeOK
    <3>2. PacketGoes(t, next)
      BY <2>23 DEF PacketPopFails
    <3>3. next \in PacketLocals
      BY <3>2 DEF TypeOK, PacketGoes
    <3>4. /\ next.rows \cup next.fresh \subseteq Held
          /\ next.pc = "idle" => next = IdlePacket
      BY <2>23, <3>1, LocalsAreHeld, FiltersShrink DEF PacketHolds, PacketLocals, IdlePacket
    <3>5. WorkerHolds' \subseteq Held /\ (worker'.pc = "idle" => worker' = IdleWorker)
      BY <2>23, LocalsAreHeld DEF WorkerHolds, IdleHoldsNothing, PacketPopFails
    <3>6. pending' \subseteq Held
      BY <2>23, <3>1, LocalsAreHeld, FiltersShrink DEF PacketHolds, PacketLocals, PacketPopFails
    <3>7. HeldRowsAreCurrent' /\ IdleHoldsNothing'
      BY <2>23, <3>2, <3>3, <3>4, <3>5, <3>6, PacketHandsOn DEF PacketPopFails
    <3>8. QED
      BY <2>23, <3>7 DEF PacketPopFails
  <2>24. CASE Reset
    <3>1. Quiet
      BY <2>24 DEF Reset
    <3>2. Held' = {}
      BY <2>24, <3>1 DEF Reset, Quiet, IdleHoldsNothing, Held, WorkerHolds, PacketHolds,
                       IdleWorker, IdlePacket
    <3>3. QED
      BY <2>24, <3>2 DEF Reset, IdleHoldsNothing, HeldRowsAreCurrent
  <2>25. CASE Tick
    BY <2>25 DEF Tick, IdleHoldsNothing, HeldRowsAreCurrent, Held, WorkerHolds, PacketHolds
  <2>26. CASE UNCHANGED vars
    BY <2>26 DEF vars, IdleHoldsNothing, HeldRowsAreCurrent, Held, WorkerHolds, PacketHolds
  <2>27. QED
    BY <2>1, <2>2, <2>3, <2>4, <2>5, <2>6, <2>7, <2>8, <2>9, <2>10, <2>11, <2>12, <2>13, <2>14, <2>15, <2>16, <2>17, <2>18, <2>19, <2>20, <2>21, <2>22, <2>23, <2>24, <2>25, <2>26 DEF Next, WorkerStep, PacketStep
<1>3. QED
  BY <1>1, <1>2, TypeCorrect, PTL DEF Spec

-----------------------------------------------------------------------------
(* Only the rows handed to the models are scored. *)
LEMMA ScoreRaisesOnlyIts ==
  ASSUME TypeOK, NEW rows, Score(rows), NEW r \in Rows, scored'[r] > scored[r]
  PROVE  r \in rows
BY DEF TypeOK, Score

(* The gate of live_pipeline.py:20-21 and 207-208: the models judge a row  *)
(* only after the rule layer named its source in the session that captured *)
(* the row, for any number of rows, threads, batches and sessions, provided *)
(* each stop() joined its threads before the next start().                 *)
THEOREM GateSafe == CleanStop => (Spec => GateHolds)
<1> SUFFICES ASSUME CleanStop PROVE Spec => GateHolds
  OBVIOUS
<1>1. SessionInv /\ [Next]_vars => [ScoresOnlyRuled]_vars
  <2> SUFFICES ASSUME SessionInv, [Next]_vars, NEW r \in Rows, scored'[r] > scored[r]
               PROVE  SrcOf[r] \in ruled /\ seenIn[r] = session
    BY DEF ScoresOnlyRuled
  <2>1. CASE WorkerScore
    <3>1. r \in OfFlagged(worker.frame)
      BY <2>1, ScoreRaisesOnlyIts DEF WorkerScore, SessionInv
    <3>2. QED
      BY <3>1, LocalsAreHeld DEF OfFlagged, SessionInv, HeldRowsAreCurrent, WorkerHolds
  <2>2. ASSUME NEW t \in PacketThreads, PacketScore(t)
        PROVE  SrcOf[r] \in ruled /\ seenIn[r] = session
    <3>1. r \in OfFlagged(packet[t].rows)
      BY <2>2, ScoreRaisesOnlyIts DEF PacketScore, SessionInv
    <3>2. QED
      BY <3>1, LocalsAreHeld DEF OfFlagged, SessionInv, HeldRowsAreCurrent, PacketHolds
  <2>3. CASE UNCHANGED scored
    BY <2>3 DEF SessionInv, TypeOK
  <2>4. QED
    <3>1. \/ WorkerScore \/ UNCHANGED scored
          \/ \E t \in PacketThreads : PacketScore(t)
      BY DEF Next, WorkerStep, PacketStep, vars, history, RuleBatch, FlushNothing, FlushSome,
             WorkerExpire, WorkerAssignFresh, WorkerBegin, WorkerNextFrame, WorkerKeep,
             WorkerLastFrame, WorkerAssignKept, PacketBatch, PacketExpire, PacketAssign,
             PacketArrive, PacketAssignFresh, PacketAssignQueue, PacketMask, PacketQueue,
             PacketAppend, PacketSum, PacketTrim, PacketPop, PacketPopFails, Reset, Tick
    <3>2. QED
      BY <2>1, <2>2, <2>3, <3>1
<1>2. QED
  BY <1>1, SessionInvariant, PTL DEF Spec, GateHolds

-----------------------------------------------------------------------------
(* The handlers in turn *)

(* What has become of rows: nobody has judged them yet, or somebody has. *)
Waiting(rows)   == \A r \in rows : seenIn[r] # 0 /\ scored[r] = 0 /\ r \notin released
Judged(rows)    == \A r \in rows : scored[r] > 0 \/ r \in released
Unflagged(rows) == \A r \in rows : SrcOf[r] \notin flagged
Bounded(rows)   == Cardinality(rows) <= MaxRows

OneHandler ==
  /\ worker.pc # "idle" => \A t \in PacketThreads : packet[t].pc = "idle"
  /\ \A t, u \in PacketThreads : packet[t].pc # "idle" /\ packet[u].pc # "idle" => t = u

FateIsOne ==
  \A r \in Rows : /\ scored[r] <= 1
                  /\ r \in released => scored[r] = 0
                  /\ seenIn[r] = 0 => scored[r] = 0 /\ r \notin released

NotLost ==
  \A r \in Rows : seenIn[r] # 0 => \/ Judged({r}) \/ r \in pending
                                   \/ \E t \in PacketThreads : r \in packet[t].rows

(* Between two handlers. *)
AtRest == Quiet => Waiting(pending) /\ Unflagged(pending) /\ Bounded(pending)

(* A list without its expired rows. *)
Expired(fresh) == fresh \subseteq pending /\ Waiting(fresh) /\ Judged(pending \ fresh)

(* The position of a row's frame in a list, from 0. *)
Rank(rows, r) == Cardinality({place[q] : q \in {q \in rows : place[q] < place[r]}})

(* The loop over the list has come to the frame at index k. *)
LoopAt(k) ==
  /\ worker.same
  /\ worker.kept \subseteq pending /\ Waiting(worker.kept) /\ Unflagged(worker.kept)
  /\ \A r \in pending :
       /\ Rank(pending, r) < k => r \in worker.kept \/ Judged({r})
       /\ Rank(pending, r) >= k => r \notin worker.kept /\ Waiting({r})

(* The frame the loop has taken out at k: its flagged rows are judged, or  *)
(* not yet; the rows before and after are as in LoopAt.                    *)
FrameOut(k, judged) ==
  /\ k > 0 /\ worker.same
  /\ worker.frame = FrameAt(pending, k - 1)
  /\ worker.kept \subseteq pending /\ Waiting(worker.kept) /\ Unflagged(worker.kept)
  /\ \A r \in pending :
       /\ Rank(pending, r) < k - 1 => r \in worker.kept \/ Judged({r})
       /\ Rank(pending, r) >= k => r \notin worker.kept /\ Waiting({r})
  /\ \A r \in worker.frame :
       /\ r \notin worker.kept
       /\ IF judged /\ SrcOf[r] \in flagged THEN Judged({r}) ELSE Waiting({r})

WorkerTurn ==
  worker.pc # "idle" =>
    /\ Bounded(pending)
    /\ WorkerAt("flush") \/ WorkerAt("expire") \/ WorkerAt("begin") => Waiting(pending)
    /\ WorkerAt("assignFresh") => Expired(worker.fresh)
    /\ WorkerAt("iterate") => LoopAt(worker.index)
    /\ WorkerAt("score") => FrameOut(worker.index, FALSE)
    /\ WorkerAt("keep") => FrameOut(worker.index, TRUE)
    /\ WorkerAt("assignKept") =>
         /\ worker.kept \subseteq pending /\ Waiting(worker.kept) /\ Unflagged(worker.kept)
         /\ Judged(pending \ worker.kept)

(* The handler of thread t is at one of some positions. *)
Amid(t, pcs) == packet[t].pc \in pcs

PacketTurn(t) ==
  /\ Unflagged(pending)
  /\ pending \cap packet[t].rows = {}
  /\ Amid(t, {"assignFresh", "queueFresh"}) => Expired(packet[t].fresh)
  /\ ~Amid(t, {"assignFresh", "queueFresh"}) => Waiting(pending)
  /\ Amid(t, {"expire", "assignFresh", "score"}) => Waiting(packet[t].rows)
  /\ Amid(t, {"mask"}) => /\ Judged(OfFlagged(packet[t].rows))
                          /\ Waiting(packet[t].rows \ OfFlagged(packet[t].rows))
  /\ Amid(t, {"queue", "queueFresh", "append"}) =>
       Waiting(packet[t].rows) /\ Unflagged(packet[t].rows)
  /\ Amid(t, {"sum", "trim", "pop"}) => packet[t].rows = {}
  /\ Amid(t, {"trim", "pop"}) => packet[t].total = Cardinality(pending)
  /\ ~Amid(t, {"sum", "trim", "pop"}) => Bounded(pending)

TurnInv ==
  /\ session > 0
  /\ OneHandler
  /\ FateIsOne
  /\ NotLost
  /\ AtRest
  /\ WorkerTurn
  /\ \A t \in PacketThreads : packet[t].pc # "idle" => PacketTurn(t)

-----------------------------------------------------------------------------
(* A set of places that is not empty has a first and, when it is bounded, a *)
(* last one.                                                               *)
LEMMA FirstPlace ==
  ASSUME NEW P \in SUBSET Nat, P # {}
  PROVE  \E p \in P : \A q \in P : p <= q
<1> DEFINE R == OpToRel(<, Nat)
<1>1. IsWellFoundedOn(R, Nat)
  BY NatLessThanWellFounded
<1>2. PICK p \in P : \A q \in P : ~(<<q, p>> \in R)
  BY <1>1, WFMin
<1>3. \A q \in P : ~(q < p)
  BY <1>2 DEF OpToRel
<1>4. QED
  BY <1>3

LEMMA LastPlace ==
  ASSUME NEW P \in SUBSET Nat, P # {}, NEW limit \in Nat, \A p \in P : p < limit
  PROVE  \E p \in P : \A q \in P : q <= p
<1> DEFINE D == {limit - p : p \in P}
<1>1. D \in SUBSET Nat /\ D # {}
  <2>1. \A p \in P : limit - p \in Nat
    OBVIOUS
  <2>2. QED
    BY <2>1
<1>2. PICK d \in D : \A e \in D : d <= e
  BY <1>1, FirstPlace
<1>3. PICK p \in P : d = limit - p
  BY <1>2
<1>4. \A q \in P : limit - p <= limit - q
  BY <1>2, <1>3
<1>5. QED
  BY <1>3, <1>4

(* The places of the frames before a row's own. *)
LEMMA RankType ==
  ASSUME TypeOK, NEW rows \in SUBSET Rows, NEW r \in Rows
  PROVE  /\ IsFiniteSet({place[q] : q \in {q \in rows : place[q] < place[r]}})
         /\ Rank(rows, r) \in Nat
<1> DEFINE before == {q \in rows : place[q] < place[r]}
<1>1. IsFiniteSet(before)
  BY RowAssumption, FS_Subset
<1>2. IsFiniteSet({place[q] : q \in before})
  <2> DEFINE f == [q \in before |-> place[q]]
  <2>1. {place[q] : q \in before} = {f[q] : q \in before}
    OBVIOUS
  <2>2. f \in Surjection(before, {place[q] : q \in before})
    BY DEF Surjection
  <2>3. QED
    BY <1>1, <2>2, FS_Surjection
<1>3. QED
  BY <1>2, FS_CardinalityType DEF Rank

(* Frames have consecutive indices: past the last one there is no row.     *)
LEMMA NoFrameNoRow ==
  ASSUME TypeOK, NEW rows \in SUBSET Rows, NEW k \in Nat, FrameAt(rows, k) = {}
  PROVE  \A r \in rows : Rank(rows, r) < k
<1> SUFFICES ASSUME NEW late \in rows, ~(Rank(rows, late) < k)
             PROVE  FALSE
  OBVIOUS
<1> DEFINE Before(r) == {place[q] : q \in {q \in rows : place[q] < place[r]}}
           Late == {r \in rows : Rank(rows, r) >= k}
<1>1. \A r \in rows : /\ Rank(rows, r) = Cardinality(Before(r)) /\ Rank(rows, r) \in Nat
                      /\ IsFiniteSet(Before(r)) /\ place[r] \in Nat
  BY RankType DEF TypeOK, Rank
<1>0. \A r \in rows : place[r] \in Nat /\ Rank(rows, r) \in Nat
  BY <1>1
<1>2. late \in Late
  <2>1. Rank(rows, late) \in Nat
    BY <1>1
  <2>2. QED
    BY <2>1
<1>3. PICK r \in Late : \A q \in Late : place[r] <= place[q]
  <2>1. {place[q] : q \in Late} \in SUBSET Nat /\ {place[q] : q \in Late} # {}
    BY <1>1, <1>2
  <2>2. PICK p \in {place[q] : q \in Late} : \A q \in {place[q] : q \in Late} : p <= q
    BY <2>1, FirstPlace
  <2>3. QED
    BY <2>2
<1>4. Rank(rows, r) # k
  BY DEF FrameAt, Rank
<1>5. ASSUME NEW q \in rows, place[q] < place[r] PROVE Rank(rows, q) < k
  <2>1. q \notin Late
    BY <1>0, <1>3, <1>5
  <2>2. QED
    BY <1>0, <2>1
<1>6. CASE Before(r) = {}
  <2>1. Rank(rows, r) = 0
    BY <1>1, <1>6, FS_EmptySet
  <2>2. QED
    BY <1>4, <2>1
<1>7. CASE Before(r) # {}
  <2>1. Before(r) \in SUBSET Nat /\ \A p \in Before(r) : p < place[r]
    BY <1>1
  <2>2. PICK m \in Before(r) : \A p \in Before(r) : p <= m
    BY <1>1, <1>7, <2>1, LastPlace
  <2>3. PICK q \in rows : place[q] = m /\ place[q] < place[r]
    BY <2>2
  <2>4. Before(r) = Before(q) \cup {m} /\ m \notin Before(q)
    <3>1. Before(r) \subseteq Before(q) \cup {m}
      <4> SUFFICES ASSUME NEW p \in Before(r), p # m PROVE p \in Before(q)
        OBVIOUS
      <4>1. PICK s \in rows : place[s] = p /\ place[s] < place[r]
        OBVIOUS
      <4>2. place[s] < place[q]
        BY <1>0, <2>2, <2>3, <4>1
      <4>3. QED
        BY <4>1, <4>2
    <3>2. Before(q) \subseteq Before(r)
      BY <1>0, <2>3
    <3>3. m \notin Before(q)
      BY <1>0, <2>3
    <3>4. QED
      BY <2>2, <3>1, <3>2, <3>3
  <2>5. Rank(rows, r) = Rank(rows, q) + 1
    <3>1. Cardinality(Before(q) \cup {m}) = Cardinality(Before(q)) + 1
      BY <1>1, <2>3, <2>4, FS_AddElement
    <3>2. QED
      BY <1>1, <2>3, <2>4, <3>1
  <2>6. Rank(rows, q) < k
    BY <1>5, <2>3
  <2>7. QED
    BY <1>0, <1>4, <2>3, <2>5, <2>6
<1>8. QED
  BY <1>6, <1>7

-----------------------------------------------------------------------------
(* Rows handed to the models are judged, and no other row's fate changes.  *)
LEMMA ScoreJudges ==
  ASSUME TypeOK, FateIsOne, NEW rows \in SUBSET Rows, Waiting(rows), Score(rows), UNCHANGED seenIn
  PROVE  /\ FateIsOne'
         /\ \A r \in rows : scored'[r] > 0 \/ r \in released'
         /\ \A r \in Rows \ rows : scored'[r] = scored[r] /\ (r \in released' <=> r \in released)
<1>1. CASE /\ scored' = [r \in Rows |-> IF r \in rows THEN scored[r] + 1 ELSE scored[r]]
           /\ UNCHANGED released
  BY <1>1 DEF TypeOK, FateIsOne, Waiting
<1>2. CASE rows # {} /\ released' = released \cup rows /\ UNCHANGED scored
  BY <1>2 DEF TypeOK, FateIsOne, Waiting
<1>3. QED
  BY <1>1, <1>2 DEF Score

(* Waiting rows that leave the queue for their age or the bound are judged. *)
LEMMA ReleaseJudges ==
  ASSUME TypeOK, FateIsOne, NEW rows \in SUBSET Rows, Waiting(rows),
         released' = released \cup rows, UNCHANGED <<seenIn, scored>>
  PROVE  FateIsOne' /\ \A r \in Rows \ rows : r \in released' <=> r \in released
BY DEF FateIsOne, Waiting

(* A shorter list keeps the bound. *)
LEMMA BoundShrinks ==
  ASSUME NEW rows \in SUBSET Rows, NEW fewer \in SUBSET rows, Bounded(rows)
  PROVE  Bounded(fewer)
<1>1. IsFiniteSet(rows)
  BY RowAssumption, FS_Subset
<1>2. Cardinality(fewer) <= Cardinality(rows) /\ Cardinality(fewer) \in Nat /\ Cardinality(rows) \in Nat
  BY <1>1, FS_Subset, FS_CardinalityType
<1>3. QED
  BY <1>2, LimitAssumption DEF Bounded

(* While the worker's handler runs no other does: a step of it has to keep *)
(* what is said of the worker, and of the queue when it is the last.       *)
LEMMA WorkerMoves ==
  ASSUME TurnInv, worker.pc # "idle", UNCHANGED <<session, packet>>,
         FateIsOne', NotLost', WorkerTurn', AtRest'
  PROVE  TurnInv'
BY DEF TurnInv, OneHandler

(* The same of a packet thread's handler. *)
LEMMA PacketMoves ==
  ASSUME TypeOK, TurnInv, NEW t \in PacketThreads, NEW next \in PacketLocals, PacketGoes(t, next),
         worker.pc = "idle", worker' = worker, UNCHANGED session,
         \A u \in PacketThreads : u # t => packet[u].pc = "idle",
         FateIsOne', NotLost',
         next.pc # "idle" => PacketTurn(t)',
         next.pc = "idle" => Waiting(pending)' /\ Unflagged(pending)' /\ Bounded(pending)'
  PROVE  TurnInv'
<1>1. packet'[t] = next /\ \A u \in PacketThreads : u # t => packet'[u] = packet[u]
  BY DEF PacketGoes, TypeOK
<1>2. OneHandler' /\ WorkerTurn'
  BY <1>1 DEF OneHandler, WorkerTurn
<1>3. AtRest'
  BY <1>1 DEF AtRest, Quiet
<1>4. \A u \in PacketThreads : packet'[u].pc # "idle" => PacketTurn(u)'
  BY <1>1
<1>5. QED
  BY <1>2, <1>3, <1>4 DEF TurnInv

-----------------------------------------------------------------------------
LEMMA InitTurn == Init => TurnInv
<1> SUFFICES ASSUME Init PROVE TurnInv
  OBVIOUS
<1>1. Bounded(pending)
  BY FS_EmptySet, LimitAssumption DEF Init, Bounded
<1>2. AtRest /\ OneHandler /\ WorkerTurn
  BY <1>1 DEF Init, AtRest, Waiting, Unflagged, OneHandler, WorkerTurn, IdleWorker, IdlePacket
<1>3. FateIsOne /\ NotLost /\ session > 0
  BY DEF Init, FateIsOne, NotLost
<1>4. \A t \in PacketThreads : packet[t].pc = "idle"
  BY DEF Init, IdlePacket
<1>5. QED
  BY <1>2, <1>3, <1>4 DEF TurnInv

(* A batch of the rule layer begins the worker's handler. *)
LEMMA BatchTurn == TypeOK /\ TurnInv /\ ~Overlap /\ RuleBatch => TurnInv'
<1> SUFFICES ASSUME TypeOK, TurnInv, ~Overlap, RuleBatch PROVE TurnInv'
  OBVIOUS
<1>1. Quiet /\ Waiting(pending) /\ Bounded(pending)
  BY DEF RuleBatch, MayEnter, TurnInv, AtRest
<1>2. /\ worker' = [worker EXCEPT !.pc = "flush"] /\ worker'.pc = "flush"
      /\ UNCHANGED <<session, pending, packet, seenIn, scored, released>>
  BY DEF RuleBatch, TypeOK, WorkerLocals
<1>3. WorkerTurn'
  BY <1>1, <1>2 DEF WorkerTurn, WorkerAt, Waiting, Bounded
<1>4. OneHandler' /\ AtRest'
  BY <1>1, <1>2 DEF OneHandler, Quiet, AtRest
<1>5. FateIsOne' /\ NotLost'
  BY <1>2 DEF TurnInv, FateIsOne, NotLost, Judged
<1>6. \A t \in PacketThreads : packet'[t].pc = "idle"
  BY <1>1, <1>2 DEF Quiet
<1>7. QED
  BY <1>2, <1>3, <1>4, <1>5, <1>6 DEF TurnInv

(* The steps of the worker's handler. *)
LEMMA WorkerTurns == TypeOK /\ IdleHoldsNothing /\ TurnInv /\ WorkerStep => TurnInv'
<1> SUFFICES ASSUME TypeOK, IdleHoldsNothing, TurnInv, WorkerStep PROVE TurnInv'
  OBVIOUS
<1> USE DEF shared, history
<1>0. /\ worker \in WorkerLocals /\ pending \in SUBSET Rows
      /\ FateIsOne /\ NotLost /\ WorkerTurn
  BY DEF TypeOK, TurnInv
<1>1. CASE FlushNothing
  <2>1. Waiting(pending) /\ Unflagged(pending) /\ Bounded(pending)
    BY <1>0, <1>1 DEF FlushNothing, WorkerTurn, WorkerAt, Unflagged
  <2>2. worker'.pc = "idle"
    BY <1>1 DEF FlushNothing, IdleWorker
  <2>3. FateIsOne' /\ NotLost' /\ AtRest' /\ WorkerTurn'
    BY <1>0, <1>1, <2>1, <2>2 DEF FlushNothing, FateIsOne, NotLost, Judged, AtRest, Waiting, Unflagged, Bounded,
                  WorkerTurn
  <2>4. QED
    BY <1>1, <2>3, WorkerMoves DEF FlushNothing, WorkerAt
<1>2. CASE FlushSome
  <2>1. worker'.pc = "expire" /\ UNCHANGED <<pending, seenIn, scored, released, packet>>
    BY <1>0, <1>2 DEF FlushSome, WorkerLocals
  <2>2. FateIsOne' /\ NotLost' /\ AtRest'
    BY <1>0, <2>1 DEF FateIsOne, NotLost, Judged, AtRest, Quiet
  <2>3. WorkerTurn'
    BY <1>0, <1>2, <2>1 DEF FlushSome, WorkerTurn, WorkerAt, Waiting, Bounded
  <2>4. QED
    BY <1>2, <2>2, <2>3, WorkerMoves DEF FlushSome, WorkerAt
<1>3. CASE WorkerExpire
  <2>1. /\ worker'.pc = "assignFresh" /\ worker'.fresh = Fresh(pending)
        /\ released' = released \cup (pending \ Fresh(pending))
        /\ UNCHANGED <<pending, seenIn, scored, packet>>
    BY <1>0, <1>3 DEF WorkerExpire, WorkerLocals
  <2>2. Waiting(pending) /\ Bounded(pending)
    BY <1>0, <1>3 DEF WorkerExpire, WorkerTurn, WorkerAt
  <2>3. FateIsOne' /\ \A r \in Fresh(pending) : r \notin released'
    <3>1. Waiting(pending \ Fresh(pending))
      BY <2>2 DEF Waiting
    <3>2. FateIsOne'
      BY <1>0, <2>1, <3>1, ReleaseJudges
    <3>3. QED
      BY <2>1, <2>2, <3>2, FiltersShrink DEF Waiting
  <2>4. NotLost' /\ AtRest'
    BY <1>0, <2>1 DEF NotLost, Judged, AtRest, Quiet
  <2>5. WorkerTurn'
    BY <2>1, <2>2, <2>3, FiltersShrink DEF WorkerTurn, WorkerAt, Expired, Waiting, Judged, Bounded
  <2>6. QED
    BY <1>3, <2>3, <2>4, <2>5, WorkerMoves DEF WorkerExpire, WorkerAt
<1>4. CASE WorkerAssignFresh
  <2>1. /\ worker'.pc = "begin" /\ pending' = worker.fresh
        /\ UNCHANGED <<seenIn, scored, released, packet>>
    BY <1>0, <1>4 DEF WorkerAssignFresh, WorkerLocals
  <2>2. Expired(worker.fresh) /\ Bounded(pending)
    BY <1>0, <1>4 DEF WorkerAssignFresh, WorkerTurn, WorkerAt
  <2>3. Bounded(pending')
    BY <1>0, <2>1, <2>2, BoundShrinks DEF Expired
  <2>4. FateIsOne' /\ NotLost' /\ AtRest'
    BY <1>0, <2>1, <2>2 DEF FateIsOne, NotLost, Judged, AtRest, Quiet, Expired
  <2>5. WorkerTurn'
    BY <2>1, <2>2, <2>3 DEF WorkerTurn, WorkerAt, Expired, Waiting, Bounded
  <2>6. QED
    BY <1>4, <2>4, <2>5, WorkerMoves DEF WorkerAssignFresh, WorkerAt
<1>5. CASE WorkerBegin
  <2>1. /\ worker'.pc = "iterate" /\ worker'.same /\ worker'.index = 0 /\ worker'.kept = {}
        /\ UNCHANGED <<pending, place, flagged, seenIn, scored, released, packet>>
    BY <1>0, <1>5 DEF WorkerBegin, WorkerLocals
  <2>2. Waiting(pending) /\ Bounded(pending)
    BY <1>0, <1>5 DEF WorkerBegin, WorkerTurn, WorkerAt
  <2>3. FateIsOne' /\ NotLost' /\ AtRest'
    BY <1>0, <2>1 DEF FateIsOne, NotLost, Judged, AtRest, Quiet
  <2>4. LoopAt(0)'
    <3>1. \A r \in pending : Rank(pending, r) \in Nat
      BY <1>0, RankType
    <3>2. \A r \in pending : ~(Rank(pending, r) < 0)
      BY <3>1
    <3>3. QED
      BY <2>1, <2>2, <3>2 DEF LoopAt, Waiting, Unflagged, Rank
  <2>5. WorkerTurn'
    BY <2>1, <2>2, <2>4 DEF WorkerTurn, WorkerAt, Bounded
  <2>6. QED
    BY <1>5, <2>3, <2>5, WorkerMoves DEF WorkerBegin, WorkerAt
<1>6. CASE WorkerNextFrame
  <2> DEFINE k == worker.index
  <2>1. k \in Nat /\ worker.pc = "iterate" /\ LoopAt(k) /\ Bounded(pending) /\ Walked = pending
    BY <1>0, <1>6 DEF WorkerNextFrame, WorkerTurn, WorkerAt, WorkerLocals, LoopAt, Walked
  <2>2. /\ worker'.pc = "score" /\ worker'.index = k + 1 /\ worker'.frame = FrameAt(pending, k)
        /\ worker'.same = worker.same /\ worker'.kept = worker.kept
        /\ UNCHANGED <<pending, place, flagged, seenIn, scored, released, packet>>
    BY <1>0, <1>6, <2>1 DEF WorkerNextFrame, WorkerLocals
  <2>3. FateIsOne' /\ NotLost' /\ AtRest'
    BY <1>0, <2>2 DEF FateIsOne, NotLost, Judged, AtRest, Quiet
  <2>4. \A r \in pending : Rank(pending, r) \in Nat /\ (r \in FrameAt(pending, k) <=> Rank(pending, r) = k)
    BY <1>0, RankType DEF FrameAt, Rank
  <2>5. FrameAt(pending, k) \subseteq pending
    BY FiltersShrink
  <2>6. FrameOut(worker.index, FALSE)'
    <3>0. worker'.index > 0 /\ worker'.index - 1 = k
      BY <2>1, <2>2
    <3>1. /\ FrameAt(pending, worker.index - 1)' = worker'.frame
          /\ \A r : Rank(pending, r)' = Rank(pending, r)
      BY <2>2, <3>0 DEF FrameAt, Rank
    <3>2. \A r \in pending : Rank(pending, r) >= k + 1 => Rank(pending, r) >= k
      BY <2>1, <2>4
    <3>3. \A r \in FrameAt(pending, k) : r \notin worker.kept /\ Waiting({r})
      BY <2>1, <2>4, <2>5 DEF LoopAt
    <3>4. QED
      BY <2>1, <2>2, <3>0, <3>1, <3>2, <3>3 DEF LoopAt, FrameOut, Waiting, Judged, Unflagged
  <2>7. WorkerTurn'
    BY <2>1, <2>2, <2>6 DEF WorkerTurn, WorkerAt, Bounded
  <2>8. QED
    BY <1>6, <2>1, <2>3, <2>7, WorkerMoves DEF WorkerNextFrame
<1>7. CASE WorkerScore
  <2> DEFINE k == worker.index
             rows == OfFlagged(worker.frame)
  <2>1. k \in Nat /\ worker.pc = "score" /\ FrameOut(k, FALSE) /\ Bounded(pending)
    BY <1>0, <1>7 DEF WorkerScore, WorkerTurn, WorkerAt, WorkerLocals
  <2>2. /\ worker'.pc = "keep" /\ worker'.index = k /\ worker'.frame = worker.frame
        /\ worker'.same = worker.same /\ worker'.kept = worker.kept
        /\ UNCHANGED <<pending, place, flagged, seenIn, packet>>
    BY <1>0, <1>7, <2>1 DEF WorkerScore, WorkerLocals
  <2>3. rows \in SUBSET worker.frame /\ worker.frame \subseteq pending /\ Waiting(rows) /\ rows \in SUBSET Rows
    BY <1>0, <2>1, FiltersShrink DEF FrameOut, Waiting, OfFlagged
  <2>4. /\ FateIsOne'
        /\ \A r \in rows : scored'[r] > 0 \/ r \in released'
        /\ \A r \in Rows \ rows : scored'[r] = scored[r] /\ (r \in released' <=> r \in released)
    BY <1>0, <1>7, <2>2, <2>3, ScoreJudges DEF WorkerScore
  <2>5. NotLost' /\ AtRest'
    BY <1>0, <2>2, <2>3, <2>4 DEF NotLost, Judged, AtRest, Quiet
  <2>6. \A r \in rows : Rank(pending, r) = k - 1
    BY <2>1, <2>3 DEF FrameOut, FrameAt, Rank
  <2>7. FrameOut(k, TRUE)'
    <3>1. /\ FrameAt(pending, k - 1)' = FrameAt(pending, k - 1)
          /\ \A r : Rank(pending, r)' = Rank(pending, r)
      BY <2>2 DEF FrameAt, Rank
    <3>2. \A r \in pending \cap rows : ~(Rank(pending, r) < k - 1) /\ ~(Rank(pending, r) >= k)
      BY <2>1, <2>6
    <3>3. \A r \in pending : /\ Rank(pending, r) < k - 1 => r \in worker.kept \/ Judged({r})'
                             /\ Rank(pending, r) >= k => r \notin worker.kept /\ Waiting({r})'
      BY <1>0, <2>1, <2>2, <2>4, <3>2 DEF FrameOut, Judged, Waiting
    <3>4. \A r \in worker.frame : IF SrcOf[r] \in flagged THEN Judged({r})' ELSE Waiting({r})'
      BY <1>0, <2>1, <2>2, <2>3, <2>4 DEF FrameOut, Judged, Waiting, OfFlagged
    <3>5. worker.kept \cap rows = {}
      BY <2>1, <2>3 DEF FrameOut
    <3>6. Waiting(worker.kept)'
      BY <1>0, <2>1, <2>2, <2>4, <3>5 DEF FrameOut, Waiting
    <3>7. QED
      BY <2>1, <2>2, <3>1, <3>3, <3>4, <3>6 DEF FrameOut, Unflagged
  <2>8. WorkerTurn'
    BY <2>1, <2>2, <2>7 DEF WorkerTurn, WorkerAt, Bounded
  <2>9. QED
    BY <1>7, <2>1, <2>2, <2>4, <2>5, <2>8, WorkerMoves DEF WorkerScore
<1>8. CASE WorkerKeep
  <2> DEFINE k == worker.index
  <2>1. k \in Nat /\ worker.pc = "keep" /\ FrameOut(k, TRUE) /\ Bounded(pending)
    BY <1>0, <1>8 DEF WorkerKeep, WorkerTurn, WorkerAt, WorkerLocals
  <2>2. /\ worker'.pc = "iterate" /\ worker'.index = k /\ worker'.same = worker.same
        /\ worker'.kept = worker.kept \cup (worker.frame \ OfFlagged(worker.frame))
        /\ UNCHANGED <<pending, place, flagged, seenIn, scored, released, packet>>
    BY <1>0, <1>8, <2>1 DEF WorkerKeep, WorkerLocals, StillWaiting
  <2>3. FateIsOne' /\ NotLost' /\ AtRest'
    BY <1>0, <2>2 DEF FateIsOne, NotLost, Judged, AtRest, Quiet
  <2>4. \A r \in pending : Rank(pending, r) \in Nat /\ (r \in worker.frame <=> Rank(pending, r) = k - 1)
    BY <1>0, <2>1, RankType DEF FrameOut, FrameAt, Rank
  <2>5. worker.frame \subseteq pending
    BY <2>1, FiltersShrink DEF FrameOut
  <2>6. LoopAt(k)'
    <3>1. \A r : Rank(pending, r)' = Rank(pending, r)
      BY <2>2 DEF Rank
    <3>2. Waiting(worker.kept)' /\ Unflagged(worker.kept)' /\ worker'.kept \subseteq pending
      BY <2>1, <2>2, <2>5 DEF FrameOut, Waiting, Unflagged, OfFlagged
    <3>3. ASSUME NEW r \in pending, Rank(pending, r) < k PROVE r \in worker'.kept \/ Judged({r})
      <4>1. Rank(pending, r) < k - 1 \/ r \in worker.frame
        BY <2>1, <2>4, <3>3
      <4>2. QED
        BY <2>1, <2>2, <4>1 DEF FrameOut, OfFlagged
    <3>4. ASSUME NEW r \in pending, Rank(pending, r) >= k PROVE r \notin worker'.kept /\ Waiting({r})
      <4>1. r \notin worker.frame
        BY <2>1, <2>4, <3>4
      <4>2. QED
        BY <2>1, <2>2, <3>4, <4>1 DEF FrameOut
    <3>5. QED
      BY <2>1, <2>2, <3>1, <3>2, <3>3, <3>4 DEF FrameOut, LoopAt, Judged, Waiting
  <2>7. WorkerTurn'
    BY <2>1, <2>2, <2>6 DEF WorkerTurn, WorkerAt, Bounded
  <2>8. QED
    BY <1>8, <2>1, <2>3, <2>7, WorkerMoves DEF WorkerKeep
<1>9. CASE WorkerLastFrame
  <2> DEFINE k == worker.index
  <2>1. k \in Nat /\ worker.pc = "iterate" /\ LoopAt(k) /\ Bounded(pending) /\ Walked = pending
    BY <1>0, <1>9 DEF WorkerLastFrame, WorkerTurn, WorkerAt, WorkerLocals, LoopAt, Walked
  <2>2. /\ worker'.pc = "assignKept" /\ worker'.kept = worker.kept
        /\ UNCHANGED <<pending, flagged, seenIn, scored, released, packet>>
    BY <1>0, <1>9, <2>1 DEF WorkerLastFrame, WorkerLocals
  <2>3. FateIsOne' /\ NotLost' /\ AtRest'
    BY <1>0, <2>2 DEF FateIsOne, NotLost, Judged, AtRest, Quiet
  <2>4. \A r \in pending : Rank(pending, r) < k
    BY <1>0, <1>9, <2>1, NoFrameNoRow DEF WorkerLastFrame
  <2>5. Judged(pending \ worker.kept)
    BY <2>1, <2>4 DEF LoopAt, Judged
  <2>6. WorkerTurn'
    BY <2>1, <2>2, <2>5 DEF WorkerTurn, WorkerAt, Bounded, LoopAt, Waiting, Unflagged, Judged
  <2>7. QED
    BY <1>9, <2>1, <2>3, <2>6, WorkerMoves DEF WorkerLastFrame
<1>10. CASE WorkerAssignKept
  <2>1. /\ worker.kept \subseteq pending /\ Waiting(worker.kept) /\ Unflagged(worker.kept)
        /\ Judged(pending \ worker.kept) /\ Bounded(pending)
    BY <1>0, <1>10 DEF WorkerAssignKept, WorkerTurn, WorkerAt
  <2>2. /\ worker'.pc = "idle" /\ pending' = worker.kept
        /\ UNCHANGED <<flagged, seenIn, scored, released, packet>>
    BY <1>10 DEF WorkerAssignKept, IdleWorker
  <2>3. Bounded(pending')
    BY <1>0, <2>1, <2>2, BoundShrinks
  <2>4. FateIsOne' /\ NotLost' /\ AtRest' /\ WorkerTurn'
    BY <1>0, <2>1, <2>2, <2>3 DEF FateIsOne, NotLost, Judged, AtRest, WorkerTurn, Waiting, Unflagged, Bounded
  <2>5. QED
    BY <1>10, <2>4, WorkerMoves DEF WorkerAssignKept, WorkerAt
<1>11. QED
  BY <1>1, <1>2, <1>3, <1>4, <1>5, <1>6, <1>7, <1>8, <1>9, <1>10 DEF WorkerStep

-----------------------------------------------------------------------------
(* A packet thread that is in its handler is alone in one.                 *)
LEMMA PacketAlone ==
  ASSUME TypeOK, IdleHoldsNothing, TurnInv, NEW t \in PacketThreads, packet[t].pc # "idle"
  PROVE  /\ worker.pc = "idle" /\ Detached = worker
         /\ \A u \in PacketThreads : u # t => packet[u].pc = "idle"
         /\ packet[t] \in PacketLocals /\ PacketTurn(t) /\ FateIsOne /\ NotLost
         /\ pending \in SUBSET Rows
<1>1. worker.pc = "idle" /\ \A u \in PacketThreads : u # t => packet[u].pc = "idle"
  BY DEF TurnInv, OneHandler
<1>2. worker = IdleWorker
  BY <1>1 DEF IdleHoldsNothing
<1>3. Detached = worker
  <2>1. Walked = {}
    BY <1>2 DEF Walked, IdleWorker
  <2>2. ASSUME NEW w, w = [IdleWorker EXCEPT !.list = {}, !.same = FALSE]
        PROVE  w = IdleWorker
    BY <2>2 DEF IdleWorker
  <2>3. QED
    BY <1>2, <2>1, <2>2 DEF Detached
<1>4. QED
  BY <1>1, <1>3 DEF TypeOK, TurnInv

(* A step loses no row that hands on what it held, or has it judged.       *)
LEMMA StillNotLost ==
  ASSUME TypeOK, NotLost, UNCHANGED seenIn,
         NEW t \in PacketThreads, NEW next \in PacketLocals, PacketGoes(t, next),
         \A r \in pending \cup packet[t].rows :
           r \in pending' \cup next.rows \/ scored'[r] > 0 \/ r \in released',
         \A r \in Rows : (scored[r] > 0 => scored'[r] > 0) /\ (r \in released => r \in released')
  PROVE  NotLost'
<1>1. packet'[t] = next /\ \A u \in PacketThreads : u # t => packet'[u] = packet[u]
  BY DEF PacketGoes, TypeOK
<1>2. QED
  BY <1>1 DEF NotLost, Judged

(* A batch of completed flows begins a packet thread's handler.            *)
LEMMA ArrivalTurn ==
  ASSUME TypeOK, IdleHoldsNothing, TurnInv, ~Overlap, NEW t \in PacketThreads, PacketBatch(t)
  PROVE  TurnInv'
<1>1. /\ Quiet /\ Waiting(pending) /\ Unflagged(pending) /\ Bounded(pending) /\ pending \in SUBSET Rows
      /\ FateIsOne /\ NotLost /\ session > 0
  BY DEF PacketBatch, MayEnter, TurnInv, AtRest, TypeOK
<1>2. PICK rows \in SUBSET {r \in Rows : seenIn[r] = 0} :
        /\ seenIn' = [r \in Rows |-> IF r \in rows THEN session ELSE seenIn[r]]
        /\ PacketGoes(t, [packet[t] EXCEPT !.pc = "expire", !.rows = rows])
  BY DEF PacketBatch
<1> DEFINE next == [packet[t] EXCEPT !.pc = "expire", !.rows = rows]
<1>3. packet[t] \in PacketLocals /\ packet[t].rows = {}
  BY <1>1 DEF TypeOK, Quiet, IdleHoldsNothing, IdlePacket
<1>4. next \in PacketLocals /\ next.pc = "expire" /\ next.rows = rows
  BY <1>3 DEF PacketLocals, PacketPcs
<1>5. packet'[t] = next /\ \A u \in PacketThreads : u # t => packet'[u] = packet[u]
  BY <1>2 DEF PacketGoes, TypeOK
<1>6. UNCHANGED <<session, pending, flagged, scored, released, worker>>
  BY DEF PacketBatch, shared
<1>7. FateIsOne'
  BY <1>1, <1>2, <1>6 DEF FateIsOne, TypeOK
<1>8. NotLost'
  BY <1>1, <1>2, <1>3, <1>4, <1>5, <1>6 DEF NotLost, Judged, TypeOK
<1>9. PacketTurn(t)'
  <2>1. Waiting(pending)' /\ Unflagged(pending)' /\ Bounded(pending)'
    BY <1>1, <1>2, <1>6 DEF Waiting, Unflagged, Bounded, TypeOK
  <2>2. Waiting(packet[t].rows)' /\ pending' \cap rows = {}
    BY <1>1, <1>2, <1>4, <1>5, <1>6 DEF Waiting, FateIsOne, TypeOK
  <2>3. QED
    BY <1>4, <1>5, <2>1, <2>2 DEF PacketTurn, Amid
<1>10. QED
  BY <1>1, <1>2, <1>4, <1>6, <1>7, <1>8, <1>9, PacketMoves DEF Quiet

(* The steps of a packet thread's handler. *)
LEMMA PacketTurns ==
  ASSUME TypeOK, IdleHoldsNothing, TurnInv, NEW t \in PacketThreads, PacketStep(t)
  PROVE  TurnInv'
<1> USE DEF shared, history
<1>0. packet[t].pc # "idle" /\ UNCHANGED session
  BY DEF PacketStep, PacketArrive, PacketAssignFresh, PacketScore, PacketMask, PacketQueue,
         PacketAssignQueue, PacketAppend, PacketSum, PacketTrim, PacketPop, PacketPopFails,
         PacketExpire, PacketAssign, PacketAt
<1>1. /\ worker.pc = "idle" /\ Detached = worker
      /\ \A u \in PacketThreads : u # t => packet[u].pc = "idle"
      /\ packet[t] \in PacketLocals /\ packet[t].rows \in SUBSET Rows
      /\ PacketTurn(t) /\ FateIsOne /\ NotLost /\ pending \in SUBSET Rows
  BY <1>0, PacketAlone DEF PacketLocals
(* Expired rows are released, on arrival and when queueing. *)
<1>2. ASSUME NEW from, NEW to, PacketExpire(t, from, to),
             \/ from = "expire" /\ to = "assignFresh"
             \/ from = "queue" /\ to = "queueFresh"
      PROVE  TurnInv'
  <2> DEFINE next == [packet[t] EXCEPT !.pc = to, !.fresh = Fresh(pending)]
  <2>1. /\ PacketGoes(t, next)
        /\ released' = released \cup (pending \ Fresh(pending))
        /\ UNCHANGED <<flagged, pending, seenIn, scored, worker>>
    BY <1>2 DEF PacketExpire
  <2>2. /\ next \in PacketLocals /\ next.pc = to /\ next.rows = packet[t].rows
        /\ next.fresh = Fresh(pending)
    BY <1>1, <1>2, FiltersShrink DEF PacketLocals, PacketPcs
  <2>3. packet'[t] = next
    BY <2>1 DEF PacketGoes, TypeOK
  <2>4. /\ Waiting(pending) /\ Waiting(packet[t].rows) /\ Unflagged(pending) /\ Bounded(pending)
        /\ pending \cap packet[t].rows = {}
        /\ from = "queue" => Unflagged(packet[t].rows)
    BY <1>1, <1>2 DEF PacketTurn, Amid, PacketExpire, PacketAt
  <2>5. FateIsOne' /\ \A r \in Fresh(pending) \cup packet[t].rows : r \notin released'
    <3>1. Waiting(pending \ Fresh(pending))
      BY <2>4 DEF Waiting
    <3>2. FateIsOne'
      BY <1>1, <2>1, <3>1, ReleaseJudges
    <3>3. QED
      BY <2>1, <2>4, <3>2, FiltersShrink DEF Waiting
  <2>6. NotLost'
    BY <1>1, <2>1, <2>2, StillNotLost
  <2>7. PacketTurn(t)'
    BY <1>2, <2>1, <2>2, <2>3, <2>4, <2>5, FiltersShrink
       DEF PacketTurn, Amid, Expired, Waiting, Judged, Unflagged, Bounded
  <2>8. QED
    BY <1>0, <1>1, <1>2, <2>1, <2>2, <2>5, <2>6, <2>7, PacketMoves
(* ... and leave the queue. *)
<1>3. ASSUME NEW from, NEW to, PacketAssign(t, from, to),
             \/ from = "assignFresh" /\ to = "score"
             \/ from = "queueFresh" /\ to = "append"
      PROVE  TurnInv'
  <2> DEFINE next == [packet[t] EXCEPT !.pc = to, !.fresh = {}]
  <2>1. /\ PacketGoes(t, next) /\ pending' = packet[t].fresh
        /\ UNCHANGED <<flagged, seenIn, scored, released, worker>>
    BY <1>1, <1>3 DEF PacketAssign
  <2>2. next \in PacketLocals /\ next.pc = to /\ next.rows = packet[t].rows
    BY <1>1, <1>3 DEF PacketLocals, PacketPcs
  <2>3. packet'[t] = next
    BY <2>1 DEF PacketGoes, TypeOK
  <2>4. /\ Expired(packet[t].fresh) /\ Unflagged(pending) /\ Bounded(pending)
        /\ Waiting(packet[t].rows) /\ pending \cap packet[t].rows = {}
        /\ from = "queueFresh" => Unflagged(packet[t].rows)
    BY <1>1, <1>3 DEF PacketTurn, Amid, PacketAssign, PacketAt
  <2>5. Bounded(pending')
    BY <1>1, <2>1, <2>4, BoundShrinks DEF Expired
  <2>6. FateIsOne' /\ NotLost'
    <3>1. FateIsOne'
      BY <1>1, <2>1 DEF FateIsOne
    <3>2. QED
      BY <1>1, <2>1, <2>2, <2>4, <3>1, StillNotLost DEF Expired, Judged
  <2>7. PacketTurn(t)'
    BY <1>3, <2>1, <2>2, <2>3, <2>4, <2>5
       DEF PacketTurn, Amid, Expired, Waiting, Unflagged, Bounded
  <2>8. QED
    BY <1>0, <1>1, <1>3, <2>1, <2>2, <2>6, <2>7, PacketMoves
<1>4. CASE PacketScore(t)
  <2> DEFINE rows == OfFlagged(packet[t].rows)
             next == [packet[t] EXCEPT !.pc = "mask"]
  <2>1. PacketGoes(t, next) /\ Score(rows) /\ UNCHANGED <<flagged, pending, seenIn, worker>>
    BY <1>4 DEF PacketScore
  <2>2. next \in PacketLocals /\ next.pc = "mask" /\ next.rows = packet[t].rows
    BY <1>1 DEF PacketLocals, PacketPcs
  <2>3. packet'[t] = next
    BY <2>1 DEF PacketGoes, TypeOK
  <2>4. /\ Waiting(pending) /\ Unflagged(pending) /\ Bounded(pending)
        /\ Waiting(packet[t].rows) /\ pending \cap packet[t].rows = {}
    BY <1>1, <1>4 DEF PacketTurn, Amid, PacketScore, PacketAt
  <2>5. rows \subseteq packet[t].rows /\ rows \in SUBSET Rows /\ Waiting(rows)
    BY <1>1, <2>4, FiltersShrink DEF Waiting
  <2>6. /\ FateIsOne'
        /\ \A r \in rows : scored'[r] > 0 \/ r \in released'
        /\ \A r \in Rows \ rows : scored'[r] = scored[r] /\ (r \in released' <=> r \in released)
    BY <1>1, <2>1, <2>5, ScoreJudges
  <2>7. NotLost'
    <3>1. \A r \in Rows : /\ scored[r] > 0 => scored'[r] > 0
                          /\ r \in released => r \in released'
      BY <2>1, <2>5, <2>6 DEF Score, Waiting
    <3>2. QED
      BY <1>1, <2>1, <2>2, <3>1, StillNotLost
  <2>8. PacketTurn(t)'
    <3>1. Waiting(pending)' /\ Unflagged(pending)' /\ Bounded(pending)'
      BY <1>1, <2>1, <2>4, <2>5, <2>6 DEF Waiting, Unflagged, Bounded
    <3>2. Judged(OfFlagged(packet[t].rows))' /\ Waiting(packet[t].rows \ OfFlagged(packet[t].rows))'
      BY <1>1, <2>1, <2>2, <2>3, <2>4, <2>6 DEF Judged, Waiting, OfFlagged
    <3>3. QED
      BY <2>1, <2>2, <2>3, <2>4, <3>1, <3>2 DEF PacketTurn, Amid
  <2>9. QED
    BY <1>0, <1>1, <2>1, <2>2, <2>6, <2>7, <2>8, PacketMoves
<1>5. CASE PacketMask(t)
  <2> DEFINE late == packet[t].rows \ OfFlagged(packet[t].rows)
             next == IF late = {} THEN IdlePacket
                     ELSE [packet[t] EXCEPT !.pc = "queue", !.rows = late]
  <2>1. PacketGoes(t, next) /\ UNCHANGED <<flagged, pending, seenIn, scored, released, worker>>
    BY <1>5 DEF PacketMask, StillWaiting
  <2>2. /\ next \in PacketLocals /\ next.rows = late
        /\ next.pc = IF late = {} THEN "idle" ELSE "queue"
    BY <1>1, IdleTypes DEF PacketLocals, PacketPcs, IdlePacket
  <2>3. packet'[t] = next
    BY <2>1 DEF PacketGoes, TypeOK
  <2>4. /\ Waiting(pending) /\ Unflagged(pending) /\ Bounded(pending)
        /\ pending \cap packet[t].rows = {}
        /\ Judged(OfFlagged(packet[t].rows)) /\ Waiting(late)
    BY <1>1, <1>5 DEF PacketTurn, Amid, PacketMask, PacketAt
  <2>5. FateIsOne' /\ NotLost'
    <3>1. FateIsOne'
      BY <1>1, <2>1 DEF FateIsOne
    <3>2. QED
      BY <1>1, <2>1, <2>2, <2>4, <3>1, StillNotLost DEF Judged
  <2>6. Waiting(pending)' /\ Unflagged(pending)' /\ Bounded(pending)'
    BY <2>1, <2>4 DEF Waiting, Unflagged, Bounded
  <2>7. next.pc = "queue" => PacketTurn(t)'
    <3>1. next.pc = "queue" => Waiting(packet[t].rows)' /\ Unflagged(packet[t].rows)'
      BY <2>1, <2>2, <2>3, <2>4 DEF Waiting, Unflagged, OfFlagged
    <3>2. QED
      BY <2>1, <2>2, <2>3, <2>4, <2>6, <3>1 DEF PacketTurn, Amid
  <2>8. QED
    BY <1>0, <1>1, <2>1, <2>2, <2>5, <2>6, <2>7, PacketMoves
<1>6. CASE PacketAppend(t)
  <2> DEFINE next == [packet[t] EXCEPT !.pc = "sum", !.rows = {}]
  <2>1. /\ PacketGoes(t, next) /\ pending' = pending \cup packet[t].rows
        /\ UNCHANGED <<flagged, seenIn, scored, released, worker>>
    BY <1>6 DEF PacketAppend
  <2>2. next \in PacketLocals /\ next.pc = "sum" /\ next.rows = {}
    BY <1>1 DEF PacketLocals, PacketPcs
  <2>3. packet'[t] = next
    BY <2>1 DEF PacketGoes, TypeOK
  <2>4. /\ Waiting(pending) /\ Unflagged(pending)
        /\ Waiting(packet[t].rows) /\ Unflagged(packet[t].rows)
    BY <1>1, <1>6 DEF PacketTurn, Amid, PacketAppend, PacketAt
  <2>5. FateIsOne' /\ NotLost'
    <3>1. FateIsOne'
      BY <1>1, <2>1 DEF FateIsOne
    <3>2. QED
      BY <1>1, <2>1, <2>2, <3>1, StillNotLost
  <2>6. PacketTurn(t)'
    BY <2>1, <2>2, <2>3, <2>4 DEF PacketTurn, Amid, Waiting, Unflagged
  <2>7. QED
    BY <1>0, <1>1, <2>1, <2>2, <2>5, <2>6, PacketMoves
<1>7. CASE PacketSum(t)
  <2> DEFINE next == [packet[t] EXCEPT !.pc = "trim", !.total = Cardinality(pending)]
  <2>1. PacketGoes(t, next) /\ UNCHANGED <<flagged, pending, seenIn, scored, released, worker>>
    BY <1>7 DEF PacketSum
  <2>2. /\ next \in PacketLocals /\ next.pc = "trim" /\ next.rows = packet[t].rows
        /\ next.total = Cardinality(pending)
    BY <1>1, LengthType DEF PacketLocals, PacketPcs
  <2>3. packet'[t] = next
    BY <2>1 DEF PacketGoes, TypeOK
  <2>4. Waiting(pending) /\ Unflagged(pending) /\ packet[t].rows = {}
    BY <1>1, <1>7 DEF PacketTurn, Amid, PacketSum, PacketAt
  <2>5. FateIsOne' /\ NotLost'
    <3>1. FateIsOne'
      BY <1>1, <2>1 DEF FateIsOne
    <3>2. QED
      BY <1>1, <2>1, <2>2, <3>1, StillNotLost
  <2>6. PacketTurn(t)'
    BY <2>1, <2>2, <2>3, <2>4 DEF PacketTurn, Amid, Waiting, Unflagged
  <2>7. QED
    BY <1>0, <1>1, <2>1, <2>2, <2>5, <2>6, PacketMoves
<1>8. CASE PacketTrim(t)
  <2> DEFINE more == packet[t].total > MaxRows /\ pending # {}
             next == IF more THEN [packet[t] EXCEPT !.pc = "pop"] ELSE IdlePacket
  <2>1. PacketGoes(t, next) /\ UNCHANGED <<flagged, pending, seenIn, scored, released, worker>>
    BY <1>8 DEF PacketTrim
  <2>2. /\ Waiting(pending) /\ Unflagged(pending) /\ packet[t].rows = {}
        /\ packet[t].total = Cardinality(pending)
    BY <1>1, <1>8 DEF PacketTurn, Amid, PacketTrim, PacketAt
  <2>3. /\ next \in PacketLocals /\ next.rows = {} /\ next.pc = IF more THEN "pop" ELSE "idle"
        /\ more => next.total = packet[t].total
    BY <1>1, <2>2, IdleTypes DEF PacketLocals, PacketPcs, IdlePacket
  <2>4. packet'[t] = next
    BY <2>1 DEF PacketGoes, TypeOK
  <2>5. FateIsOne' /\ NotLost'
    <3>1. FateIsOne'
      BY <1>1, <2>1 DEF FateIsOne
    <3>2. QED
      BY <1>1, <2>1, <2>2, <2>3, <3>1, StillNotLost
  <2>6. ~more => Bounded(pending)
    BY <1>1, <2>2, LengthType, LimitAssumption, FS_EmptySet DEF Bounded
  <2>7. next.pc = "pop" => PacketTurn(t)'
    BY <2>1, <2>2, <2>3, <2>4 DEF PacketTurn, Amid, Waiting, Unflagged
  <2>8. next.pc = "idle" => Waiting(pending)' /\ Unflagged(pending)' /\ Bounded(pending)'
    BY <2>1, <2>2, <2>3, <2>6 DEF Waiting, Unflagged, Bounded
  <2>9. QED
    BY <1>0, <1>1, <2>1, <2>3, <2>5, <2>7, <2>8, PacketMoves
<1>9. CASE PacketPop(t)
  <2> DEFINE gone == Oldest(pending)
             next == [packet[t] EXCEPT !.pc = "trim",
                        !.total = IF packet[t].total > Cardinality(gone)
                                  THEN packet[t].total - Cardinality(gone) ELSE 0]
  <2>1. /\ PacketGoes(t, next) /\ pending' = pending \ gone /\ released' = released \cup gone
        /\ UNCHANGED <<flagged, seenIn, scored, worker>>
    BY <1>9 DEF PacketPop
  <2>2. /\ Waiting(pending) /\ Unflagged(pending) /\ packet[t].rows = {}
        /\ packet[t].total = Cardinality(pending)
    BY <1>1, <1>9 DEF PacketTurn, Amid, PacketPop, PacketAt
  <2>3. gone \in SUBSET pending /\ gone \in SUBSET Rows /\ Waiting(gone)
    BY <1>1, <2>2, FiltersShrink DEF Waiting
  <2>4. /\ Cardinality(gone) \in Nat /\ Cardinality(pending) \in Nat
        /\ Cardinality(pending \ gone) = Cardinality(pending) - Cardinality(gone)
        /\ Cardinality(pending \ gone) \in Nat
    <3>1. IsFiniteSet(pending) /\ pending \cap gone = gone
      BY <1>1, <2>3, RowAssumption, FS_Subset
    <3>2. Cardinality(pending \ gone) = Cardinality(pending) - Cardinality(pending \cap gone)
      BY <3>1, FS_Difference
    <3>3. pending \ gone \in SUBSET Rows
      BY <1>1
    <3>4. QED
      BY <1>1, <2>3, <3>1, <3>2, <3>3, LengthType
  <2>5. /\ next \in PacketLocals /\ next.rows = {} /\ next.pc = "trim"
        /\ next.total = Cardinality(pending \ gone)
    <3> DEFINE left == IF packet[t].total > Cardinality(gone)
                       THEN packet[t].total - Cardinality(gone) ELSE 0
    <3>1. left = Cardinality(pending \ gone)
      BY <2>2, <2>4
    <3>2. ASSUME NEW n \in Nat PROVE [packet[t] EXCEPT !.pc = "trim", !.total = n] \in PacketLocals
      BY <1>1 DEF PacketLocals, PacketPcs
    <3>3. QED
      BY <1>1, <2>2, <2>4, <3>1, <3>2 DEF PacketLocals
  <2>6. packet'[t] = next
    BY <2>1 DEF PacketGoes, TypeOK
  <2>7. FateIsOne'
    BY <1>1, <2>1, <2>3, ReleaseJudges
  <2>8. NotLost'
    BY <1>1, <2>1, <2>2, <2>5, StillNotLost
  <2>9. PacketTurn(t)'
    <3>1. Waiting(pending)' /\ Unflagged(pending)'
      BY <1>1, <2>1, <2>2, <2>3 DEF Waiting, Unflagged
    <3>2. QED
      BY <2>1, <2>5, <2>6, <3>1 DEF PacketTurn, Amid
  <2>10. QED
    BY <1>0, <1>1, <2>1, <2>5, <2>7, <2>8, <2>9, PacketMoves
<1>10. CASE PacketPopFails(t)
  <2>1. /\ PacketGoes(t, IdlePacket) /\ pending = {}
        /\ UNCHANGED <<flagged, pending, seenIn, scored, released, worker>>
    BY <1>10 DEF PacketPopFails
  <2>2. packet[t].rows = {} /\ IdlePacket.pc = "idle"
    BY <1>1, <1>10 DEF PacketTurn, Amid, PacketPopFails, PacketAt, IdlePacket
  <2>3. FateIsOne'
    BY <1>1, <2>1 DEF FateIsOne
  <2>4. NotLost'
    BY <1>1, <2>1, <2>2, IdleTypes, StillNotLost
  <2>5. Waiting(pending)' /\ Unflagged(pending)' /\ Bounded(pending)'
    BY <2>1, FS_EmptySet, LimitAssumption DEF Waiting, Unflagged, Bounded
  <2>6. QED
    BY <1>0, <1>1, <2>1, <2>2, <2>3, <2>4, <2>5, IdleTypes, PacketMoves
<1>11. QED
  BY <1>2, <1>3, <1>4, <1>5, <1>6, <1>7, <1>8, <1>9, <1>10
     DEF PacketStep, PacketArrive, PacketQueue, PacketAssignFresh, PacketAssignQueue

-----------------------------------------------------------------------------
(* A new session gives up what waits, and only that.                       *)
LEMMA ResetTurn == TypeOK /\ TurnInv /\ CleanStop /\ Reset => TurnInv'
<1> SUFFICES ASSUME TypeOK, TurnInv, CleanStop, Reset PROVE TurnInv'
  OBVIOUS
<1>1. Quiet /\ Waiting(pending) /\ FateIsOne /\ NotLost /\ session > 0 /\ session \in Nat
  BY DEF Reset, TurnInv, AtRest, TypeOK
<1>2. /\ pending' = {} /\ released' = released \cup pending /\ session' = session + 1
      /\ UNCHANGED <<seenIn, scored, worker, packet>>
  BY DEF Reset
<1>3. FateIsOne'
  BY <1>1, <1>2, ReleaseJudges DEF TypeOK
<1>4. NotLost'
  BY <1>1, <1>2 DEF NotLost, Judged
<1>5. AtRest'
  BY <1>2, FS_EmptySet, LimitAssumption DEF AtRest, Waiting, Unflagged, Bounded
<1>6. OneHandler' /\ WorkerTurn' /\ \A t \in PacketThreads : packet'[t].pc = "idle"
  BY <1>1, <1>2 DEF Quiet, OneHandler, WorkerTurn
<1>7. session' > 0
  BY <1>1, <1>2
<1>8. QED
  BY <1>3, <1>4, <1>5, <1>6, <1>7 DEF TurnInv

(* Nothing that the invariant speaks of depends on the clock.              *)
LEMMA IdleTurn == TurnInv /\ (Tick \/ UNCHANGED vars) => TurnInv'
<1> SUFFICES ASSUME TurnInv, Tick \/ UNCHANGED vars PROVE TurnInv'
  OBVIOUS
<1>1. UNCHANGED <<session, shared, worker, packet, history>>
  BY DEF Tick, vars
<1> USE <1>1 DEF shared, history
<1>2. OneHandler' /\ FateIsOne' /\ NotLost' /\ AtRest'
  BY DEF TurnInv, OneHandler, FateIsOne, NotLost, AtRest, Quiet, Judged, Waiting, Unflagged, Bounded
<1>3. WorkerTurn'
  BY DEF TurnInv, WorkerTurn, WorkerAt, Expired, LoopAt, FrameOut, Rank, FrameAt,
         Judged, Waiting, Unflagged, Bounded
<1>4. \A t \in PacketThreads : packet'[t].pc # "idle" => PacketTurn(t)'
  BY DEF TurnInv, PacketTurn, Amid, Expired, OfFlagged, Judged, Waiting, Unflagged, Bounded
<1>5. QED
  BY <1>2, <1>3, <1>4 DEF TurnInv

(* While handlers run one after the other and sessions are separated by    *)
(* clean stops, every reachable state is one of TurnInv.                   *)
THEOREM TurnInvariant == ~Overlap /\ CleanStop => (Spec => []TurnInv)
<1> SUFFICES ASSUME ~Overlap, CleanStop PROVE Spec => []TurnInv
  OBVIOUS
<1>1. Init => TurnInv
  BY InitTurn
<1>2. TypeOK /\ SessionInv /\ TurnInv /\ [Next]_vars => TurnInv'
  BY BatchTurn, WorkerTurns, ArrivalTurn, PacketTurns, ResetTurn, IdleTurn DEF Next, SessionInv
<1>3. QED
  BY <1>1, <1>2, TypeCorrect, SessionInvariant, PTL DEF Spec

(* live_pipeline.py:36-38: a packet seen before its source is flagged is    *)
(* not silently discarded. Between two handlers every row that completed   *)
(* has been scored, still waits, or was given up for a stated reason.      *)
THEOREM NothingLost == ~Overlap /\ CleanStop => (Spec => []NotSilentlyDiscarded)
<1> SUFFICES ASSUME ~Overlap, CleanStop PROVE Spec => []NotSilentlyDiscarded
  OBVIOUS
<1>1. SessionInv /\ TurnInv => NotSilentlyDiscarded
  BY DEF SessionInv, IdleHoldsNothing, IdlePacket, TurnInv, NotLost, Judged, NotSilentlyDiscarded, Quiet
<1>2. QED
  BY <1>1, TurnInvariant, SessionInvariant, PTL

(* live_pipeline.py:217-218: a row waits only while its source is          *)
(* unflagged; the replay of a flagged source leaves none of its rows.      *)
THEOREM FlaggedReplayed == ~Overlap /\ CleanStop => (Spec => []FlaggedRowsReplayed)
<1> SUFFICES ASSUME ~Overlap, CleanStop PROVE Spec => []FlaggedRowsReplayed
  OBVIOUS
<1>1. TurnInv => FlaggedRowsReplayed
  BY DEF TurnInv, AtRest, Unflagged, FlaggedRowsReplayed
<1>2. QED
  BY <1>1, TurnInvariant, PTL

(* A row is scored at most once, a scored row does not go on waiting, and  *)
(* a row that was given up is never scored (live_pipeline.py:207-238).     *)
THEOREM OneFateSafe == ~Overlap /\ CleanStop => (Spec => []OneFate)
<1> SUFFICES ASSUME ~Overlap, CleanStop PROVE Spec => []OneFate
  OBVIOUS
<1>1. TypeOK /\ TurnInv => OneFate
  BY DEF TypeOK, TurnInv, FateIsOne, AtRest, Waiting, OneFate
<1>2. QED
  BY <1>1, TurnInvariant, TypeCorrect, PTL

(* live_pipeline.py:36-37: between two handlers the queue is within its    *)
(* bound, whatever the sizes of the frames that were queued and popped.    *)
THEOREM QueueSafe == ~Overlap /\ CleanStop => (Spec => []QueueBounded)
<1> SUFFICES ASSUME ~Overlap, CleanStop PROVE Spec => []QueueBounded
  OBVIOUS
<1>1. TurnInv => QueueBounded
  BY DEF TurnInv, AtRest, Bounded, QueueBounded
<1>2. QED
  BY <1>1, TurnInvariant, PTL
-----------------------------------------------------------------------------
(* The life of a row                                                       *)

(* Rows that completed and have not been judged or given up.               *)
Unjudged == {r \in Rows : seenIn[r] # 0 /\ scored[r] = 0 /\ r \notin released}

(* None of them is anywhere but where the next handler finds it.           *)
LEMMA InHandIs ==
  ASSUME SessionInv, TurnInv
  PROVE  InHand = Unjudged
<1>1. TypeOK /\ NotLost /\ session > 0 /\ session \in Nat
  BY DEF SessionInv, TurnInv, TypeOK
<1>2. \A r \in Unjudged : r \in pending \/ \E t \in PacketThreads : r \in packet[t].rows
  BY <1>1 DEF Unjudged, NotLost, Judged, TypeOK
<1>3. Unjudged \subseteq InHand
  BY <1>2 DEF Unjudged, InHand
<1>4. \A r \in Held : r \in Rows /\ seenIn[r] # 0
  BY <1>1 DEF SessionInv, HeldRowsAreCurrent, Held
<1>5. \A r \in InHand : r \in Held
  BY <1>1, LocalsAreHeld DEF InHand, PacketHolds
<1>6. InHand \subseteq Unjudged
  BY <1>4, <1>5 DEF InHand, Unjudged
<1>7. QED
  BY <1>3, <1>6

(* A step that judges nobody and completes nothing is no step of a life.   *)
LEMMA LifeRests ==
  ASSUME InHand = Unjudged, InHand' = Unjudged', UNCHANGED <<seenIn, scored, released>>
  PROVE  UNCHANGED Life!life
BY DEF Unjudged, Life!life

(* Waiting rows that leave the queue unscored are given up. *)
LEMMA LifeEnds ==
  ASSUME InHand = Unjudged, InHand' = Unjudged', NEW rows \in SUBSET Rows, Waiting(rows),
         released' = released \cup rows, UNCHANGED <<seenIn, scored>>
  PROVE  Life!LifeNext
<1>1. rows \in SUBSET InHand /\ InHand' = InHand \ rows
  BY DEF Unjudged, Waiting
<1>2. Life!GiveUp(rows)
  BY <1>1 DEF Life!GiveUp
<1>3. QED
  BY <1>1, <1>2 DEF Life!LifeNext

(* Waiting rows that the models get are judged, or given up when they fail. *)
LEMMA LifeJudges ==
  ASSUME InHand = Unjudged, InHand' = Unjudged', scored \in [Rows -> Nat],
         NEW rows \in SUBSET Rows, Waiting(rows), Score(rows), UNCHANGED seenIn
  PROVE  Life!LifeNext
<1>1. CASE /\ scored' = [r \in Rows |-> IF r \in rows THEN scored[r] + 1 ELSE scored[r]]
           /\ UNCHANGED released
  <2>1. \A r \in Rows : scored'[r] > 0 <=> scored[r] > 0 \/ r \in rows
    BY <1>1
  <2>2. \A r \in Rows : (scored[r] = 0 <=> ~(scored[r] > 0)) /\ (scored'[r] = 0 <=> ~(scored'[r] > 0))
    BY <1>1
  <2>3. rows \in SUBSET InHand /\ InHand' = InHand \ rows
    BY <1>1, <2>1, <2>2 DEF Unjudged, Waiting
  <2>4. {r \in Rows : scored'[r] > 0} = {r \in Rows : scored[r] > 0} \cup rows
    BY <2>1
  <2>5. Life!Judge(rows)
    BY <1>1, <2>3, <2>4 DEF Life!Judge
  <2>6. QED
    BY <2>3, <2>5 DEF Life!LifeNext
<1>2. CASE rows # {} /\ released' = released \cup rows /\ UNCHANGED scored
  BY <1>2, LifeEnds
<1>3. QED
  BY <1>1, <1>2 DEF Score

(* Rows that complete begin to wait. *)
LEMMA LifeBegins ==
  ASSUME SessionInv, TurnInv, InHand = Unjudged, InHand' = Unjudged',
         NEW t \in PacketThreads, PacketBatch(t)
  PROVE  Life!LifeNext
<1>1. PICK rows \in SUBSET {r \in Rows : seenIn[r] = 0} :
        seenIn' = [r \in Rows |-> IF r \in rows THEN session ELSE seenIn[r]]
  BY DEF PacketBatch
<1>2. session # 0 /\ FateIsOne /\ seenIn \in [Rows -> Nat] /\ UNCHANGED <<scored, released>>
  BY DEF PacketBatch, TurnInv, SessionInv, TypeOK
<1>3. \A r \in rows : r \in Rows /\ scored[r] = 0 /\ r \notin released /\ r \notin Unjudged
  BY <1>1, <1>2 DEF FateIsOne, Unjudged
<1>4. InHand' = InHand \cup rows
  BY <1>1, <1>2, <1>3 DEF Unjudged
<1>5. {r \in Rows : seenIn'[r] # 0} = {r \in Rows : seenIn[r] # 0} \cup rows
  BY <1>1, <1>2
<1>6. Life!Complete(rows)
  BY <1>2, <1>4, <1>5 DEF Life!Complete
<1>7. QED
  BY <1>1, <1>6 DEF Life!LifeNext

(* What a step judges or gives up was waiting. *)
LEMMA StepOfLife ==
  ASSUME CleanStop, SessionInv, TurnInv, InHand = Unjudged, InHand' = Unjudged', [Next]_vars
  PROVE  [Life!LifeNext]_Life!life
<1> SUFFICES Life!LifeNext \/ UNCHANGED Life!life
  OBVIOUS
<1>1. InHand = Unjudged /\ InHand' = Unjudged'
  OBVIOUS
<1>2. TypeOK /\ scored \in [Rows -> Nat] /\ pending \in SUBSET Rows
  BY DEF SessionInv, TypeOK
<1>3. CASE WorkerExpire
  <2>1. Waiting(pending)
    BY <1>3 DEF TurnInv, WorkerTurn, WorkerExpire, WorkerAt
  <2>2. Waiting(pending \ Fresh(pending)) /\ pending \ Fresh(pending) \in SUBSET Rows
    BY <1>2, <2>1 DEF Waiting
  <2>3. QED
    BY <1>1, <1>3, <2>2, LifeEnds DEF WorkerExpire
<1>4. CASE WorkerScore
  <2>1. FrameOut(worker.index, FALSE)
    BY <1>4 DEF TurnInv, WorkerTurn, WorkerScore, WorkerAt
  <2>2. Waiting(OfFlagged(worker.frame))
    BY <2>1 DEF FrameOut, Waiting, OfFlagged
  <2>3. OfFlagged(worker.frame) \in SUBSET Rows
    BY <1>2 DEF TypeOK, WorkerLocals, OfFlagged
  <2>4. QED
    BY <1>1, <1>2, <1>4, <2>2, <2>3, LifeJudges DEF WorkerScore
<1>5. ASSUME NEW t \in PacketThreads, PacketStep(t)
      PROVE  Life!LifeNext \/ UNCHANGED Life!life
  <2>1. packet[t].pc # "idle" => PacketTurn(t)
    BY DEF TurnInv
  <2>2. CASE PacketArrive(t) \/ PacketQueue(t) \/ PacketPop(t)
    <3>1. packet[t].pc \in {"expire", "queue", "pop"}
      BY <2>2 DEF PacketArrive, PacketQueue, PacketExpire, PacketPop, PacketAt
    <3>2. Waiting(pending)
      BY <2>1, <3>1 DEF PacketTurn, Amid
    <3>3. PICK rows \in SUBSET pending : released' = released \cup rows /\ UNCHANGED <<seenIn, scored>>
      BY <2>2 DEF PacketArrive, PacketQueue, PacketExpire, PacketPop, Oldest, FrameAt
    <3>4. Waiting(rows) /\ rows \in SUBSET Rows
      BY <1>2, <3>2 DEF Waiting
    <3>5. QED
      BY <1>1, <3>3, <3>4, LifeEnds
  <2>3. CASE PacketScore(t)
    <3>1. Waiting(packet[t].rows)
      BY <2>1, <2>3 DEF PacketTurn, Amid, PacketScore, PacketAt
    <3>2. Waiting(OfFlagged(packet[t].rows))
      BY <3>1 DEF Waiting, OfFlagged
    <3>3. OfFlagged(packet[t].rows) \in SUBSET Rows
      BY <1>2 DEF TypeOK, PacketLocals, OfFlagged
    <3>4. QED
      BY <1>1, <1>2, <2>3, <3>2, <3>3, LifeJudges DEF PacketScore
  <2>4. CASE UNCHANGED <<seenIn, scored, released>>
    BY <1>1, <2>4, LifeRests
  <2>5. QED
    BY <1>5, <2>2, <2>3, <2>4
       DEF PacketStep, history, PacketAssignFresh, PacketAssignQueue, PacketAssign, PacketMask,
           PacketAppend, PacketSum, PacketTrim, PacketPopFails
<1>6. ASSUME NEW t \in PacketThreads, PacketBatch(t) PROVE Life!LifeNext
  BY <1>1, <1>6, LifeBegins
<1>7. CASE Reset
  <2>1. Waiting(pending) /\ released' = released \cup pending /\ UNCHANGED <<seenIn, scored>>
    BY <1>7 DEF Reset, TurnInv, AtRest
  <2>2. QED
    BY <1>1, <1>2, <2>1, LifeEnds
<1>8. CASE UNCHANGED <<seenIn, scored, released>>
  BY <1>1, <1>8, LifeRests
<1>9. QED
  BY <1>3, <1>4, <1>5, <1>6, <1>7, <1>8
     DEF Next, WorkerStep, RuleBatch, FlushNothing, FlushSome, WorkerAssignFresh, WorkerBegin,
         WorkerNextFrame, WorkerKeep, WorkerLastFrame, WorkerAssignKept, Tick, vars, history

(* With handlers in turn and clean stops the pipeline implements RowLife    *)
(* (live_pipeline.py:36-38, 205-238): at no step, whatever it does to its    *)
(* lists, is a row lost, and what was judged or given up stays so, for any   *)
(* rows, sources, threads and limits.                                      *)
THEOREM PipelineKeepsRows == ~Overlap /\ CleanStop => (Spec => KeepsRows)
<1> SUFFICES ASSUME ~Overlap, CleanStop PROVE Spec => KeepsRows
  OBVIOUS
<1>1. Init => Life!LifeInit
  BY DEF Init, Life!LifeInit, InHand, IdlePacket
<1>2. SessionInv /\ TurnInv => InHand = Unjudged
  BY InHandIs
<1>3. SessionInv /\ TurnInv /\ InHand = Unjudged /\ (InHand = Unjudged)' /\ [Next]_vars
        => [Life!LifeNext]_Life!life
  BY StepOfLife
<1>4. QED
  BY <1>1, <1>2, <1>3, TurnInvariant, SessionInvariant, PTL DEF Spec, KeepsRows, Life!LifeSpec

-----------------------------------------------------------------------------
(* Why a handler returns though others change the list it loops over: what  *)
(* is left of it, in steps of its own. The worker's loop meets a frame at    *)
(* an index below the number of rows, whatever list it walks by then; the    *)
(* trimming loop counts its own total down.                                *)

RowCount == Cardinality(Rows)

WorkerLeft ==
  CASE WorkerAt("idle")        -> 0
    [] WorkerAt("assignKept")  -> 1
    [] WorkerAt("iterate")     -> 2 + 3 * (RowCount - worker.index)
    [] WorkerAt("keep")        -> 3 + 3 * (RowCount - worker.index)
    [] WorkerAt("score")       -> 4 + 3 * (RowCount - worker.index)
    [] WorkerAt("begin")       -> 3 + 3 * RowCount
    [] WorkerAt("assignFresh") -> 4 + 3 * RowCount
    [] WorkerAt("expire")      -> 5 + 3 * RowCount
    [] WorkerAt("flush")       -> 6 + 3 * RowCount

PacketLeft(t) ==
  CASE PacketAt(t, "idle")        -> 0
    [] PacketAt(t, "pop")         -> 2 * packet[t].total
    [] PacketAt(t, "trim")        -> 1 + 2 * packet[t].total
    [] PacketAt(t, "sum")         -> 2 + 2 * RowCount
    [] PacketAt(t, "append")      -> 3 + 2 * RowCount
    [] PacketAt(t, "queueFresh")  -> 4 + 2 * RowCount
    [] PacketAt(t, "queue")       -> 5 + 2 * RowCount
    [] PacketAt(t, "mask")        -> 6 + 2 * RowCount
    [] PacketAt(t, "score")       -> 7 + 2 * RowCount
    [] PacketAt(t, "assignFresh") -> 8 + 2 * RowCount
    [] PacketAt(t, "expire")      -> 9 + 2 * RowCount

(* A handler has a bounded number of steps left; each of its own makes it    *)
(* fewer, and nothing else changes it.                                     *)
HandlersGoForward ==
  /\ ~WorkerAt("idle") =>
       /\ WorkerLeft \in 1..(6 + 3 * RowCount)
       /\ IF WorkerStep THEN WorkerLeft' < WorkerLeft ELSE WorkerLeft' = WorkerLeft
  /\ \A t \in PacketThreads : ~PacketAt(t, "idle") =>
       /\ PacketLeft(t) \in 1..(9 + 2 * RowCount)
       /\ IF PacketStep(t) THEN PacketLeft(t)' < PacketLeft(t) ELSE PacketLeft(t)' = PacketLeft(t)

InLoop == worker.pc \in {"iterate", "score", "keep"} => worker.index <= RowCount
InTrim(t) ==
  /\ packet[t].pc \in {"trim", "pop"} => packet[t].total <= RowCount
  /\ packet[t].pc = "pop" => packet[t].total > 0
LoopInv == InLoop /\ \A t \in PacketThreads : InTrim(t)

LEMMA CountType == RowCount \in Nat
BY LengthType DEF RowCount

(* No index is as large as the number of rows. *)
LEMMA IndexBelow ==
  ASSUME TypeOK, NEW rows \in SUBSET Rows, NEW k \in Nat, FrameAt(rows, k) # {}
  PROVE  k < RowCount
<1>1. PICK r \in rows : Rank(rows, r) = k
  BY DEF FrameAt, Rank
<1> DEFINE before == {q \in rows : place[q] < place[r]}
           f == [q \in before |-> place[q]]
<1>2. before \in SUBSET (Rows \ {r})
  BY DEF TypeOK
<1>3. IsFiniteSet(Rows \ {r}) /\ Cardinality(Rows \ {r}) = RowCount - 1
  BY RowAssumption, FS_RemoveElement DEF RowCount
<1>4. IsFiniteSet(before) /\ Cardinality(before) <= RowCount - 1
  BY <1>2, <1>3, FS_Subset
<1>5. f \in Surjection(before, {place[q] : q \in before})
  BY DEF Surjection
<1>6. Cardinality({place[q] : q \in before}) <= Cardinality(before)
  BY <1>4, <1>5, FS_Surjection
<1>7. Cardinality(before) \in Nat /\ RowCount \in Nat
  BY <1>4, CountType, FS_CardinalityType
<1>8. k <= Cardinality(before)
  BY <1>1, <1>6 DEF Rank
<1>9. QED
  BY <1>4, <1>7, <1>8

(* A list that is not empty has an oldest frame. *)
LEMMA OldestIsThere ==
  ASSUME TypeOK, pending # {}
  PROVE  Cardinality(Oldest(pending)) \in Nat \ {0}
<1>1. pending \subseteq Rows /\ place \in [Rows -> Nat]
  BY DEF TypeOK
<1> DEFINE P == {place[r] : r \in pending}
<1>2. P \in SUBSET Nat /\ P # {}
  BY <1>1
<1>3. PICK p \in P : \A q \in P : p <= q
  BY <1>2, FirstPlace
<1>4. PICK r \in pending : place[r] = p
  BY <1>3
<1>5. {q \in pending : place[q] < place[r]} = {}
  BY <1>1, <1>3, <1>4
<1>6. {place[q] : q \in {q \in pending : place[q] < place[r]}} = {}
  BY <1>5
<1>7. r \in Oldest(pending)
  BY <1>4, <1>6, FS_EmptySet DEF Oldest, FrameAt
<1>8. IsFiniteSet(Oldest(pending))
  BY <1>1, FiltersShrink, RowAssumption, FS_Subset
<1>9. QED
  BY <1>7, <1>8, FS_EmptySet, FS_CardinalityType

LEMMA WorkerForward ==
  ASSUME TypeOK, InLoop, WorkerStep
  PROVE  InLoop' /\ WorkerLeft' < WorkerLeft /\ packet' = packet /\ ~WorkerAt("idle")
<1> USE CountType DEF WorkerLeft, InLoop, WorkerAt, TypeOK, WorkerLocals
<1>1. CASE FlushNothing
  BY <1>1 DEF FlushNothing, IdleWorker
<1>2. CASE FlushSome
  BY <1>2 DEF FlushSome
<1>3. CASE WorkerExpire
  BY <1>3 DEF WorkerExpire
<1>4. CASE WorkerAssignFresh
  BY <1>4 DEF WorkerAssignFresh
<1>5. CASE WorkerBegin
  BY <1>5 DEF WorkerBegin
<1>6. CASE WorkerNextFrame
  <2>1. Walked \in SUBSET Rows /\ worker.index \in Nat
    BY DEF Walked
  <2>2. worker.index < RowCount
    BY <1>6, <2>1, IndexBelow DEF WorkerNextFrame
  <2>3. worker'.pc = "score" /\ worker'.index = worker.index + 1 /\ worker.pc = "iterate" /\ packet' = packet
    BY <1>6 DEF WorkerNextFrame
  <2>4. QED
    BY <2>1, <2>2, <2>3
<1>7. CASE WorkerScore
  BY <1>7 DEF WorkerScore
<1>8. CASE WorkerKeep
  BY <1>8 DEF WorkerKeep
<1>9. CASE WorkerLastFrame
  BY <1>9 DEF WorkerLastFrame
<1>10. CASE WorkerAssignKept
  BY <1>10 DEF WorkerAssignKept, IdleWorker
<1>11. QED
  BY <1>1, <1>2, <1>3, <1>4, <1>5, <1>6, <1>7, <1>8, <1>9, <1>10 DEF WorkerStep

LEMMA PacketForward ==
  ASSUME TypeOK, NEW t \in PacketThreads, InTrim(t), PacketStep(t)
  PROVE  /\ InTrim(t)' /\ PacketLeft(t)' < PacketLeft(t) /\ ~PacketAt(t, "idle")
         /\ \A u \in PacketThreads \ {t} : packet'[u] = packet[u]
         /\ worker'.pc = worker.pc /\ worker'.index = worker.index
<1>1. PICK next : packet' = [packet EXCEPT ![t] = next]
  BY DEF PacketStep, PacketArrive, PacketExpire, PacketAssignFresh, PacketAssignQueue, PacketAssign, PacketScore,
     PacketMask, PacketQueue, PacketAppend, PacketSum, PacketTrim, PacketPop, PacketPopFails, PacketGoes
<1>2. packet'[t] = next /\ \A u \in PacketThreads \ {t} : packet'[u] = packet[u]
  BY <1>1 DEF TypeOK
<1>3. worker'.pc = worker.pc /\ worker'.index = worker.index
  BY DEF PacketStep, PacketArrive, PacketExpire, PacketAssignFresh, PacketAssignQueue, PacketAssign, PacketScore,
     PacketMask, PacketQueue, PacketAppend, PacketSum, PacketTrim, PacketPop, PacketPopFails, Detached, TypeOK, WorkerLocals
<1>4. packet[t] \in PacketLocals
  BY DEF TypeOK
<1>5. InTrim(t)' /\ PacketLeft(t)' < PacketLeft(t) /\ ~PacketAt(t, "idle")
  <2>1. CASE PacketArrive(t) \/ PacketAssignFresh(t) \/ PacketScore(t) \/ PacketQueue(t) \/ PacketAssignQueue(t) \/ PacketAppend(t)
    <3> USE <1>4 DEF PacketExpire, PacketAssign, PacketGoes, PacketAt, PacketLocals, TypeOK
    <3>1. PacketArrive(t) => packet[t].pc = "expire" /\ packet'[t].pc = "assignFresh"
      BY DEF PacketArrive
    <3>2. PacketAssignFresh(t) => packet[t].pc = "assignFresh" /\ packet'[t].pc = "score"
      BY DEF PacketAssignFresh
    <3>3. PacketScore(t) => packet[t].pc = "score" /\ packet'[t].pc = "mask"
      BY DEF PacketScore
    <3>4. PacketQueue(t) => packet[t].pc = "queue" /\ packet'[t].pc = "queueFresh"
      BY DEF PacketQueue
    <3>5. PacketAssignQueue(t) => packet[t].pc = "queueFresh" /\ packet'[t].pc = "append"
      BY DEF PacketAssignQueue
    <3>6. PacketAppend(t) => packet[t].pc = "append" /\ packet'[t].pc = "sum"
      BY DEF PacketAppend
    <3>7. QED
      BY <2>1, <3>1, <3>2, <3>3, <3>4, <3>5, <3>6, CountType DEF PacketLeft, InTrim
  <2>2. CASE PacketMask(t)
    <3>1. packet[t].pc = "mask" /\ packet'[t].pc \in {"idle", "queue"}
      BY <2>2, <1>4 DEF PacketMask, PacketGoes, PacketAt, PacketLocals, IdlePacket, TypeOK
    <3>2. QED
      BY <3>1, CountType DEF PacketLeft, PacketAt, InTrim
  <2>3. CASE PacketSum(t)
    <3>1. Cardinality(pending) \in Nat /\ Cardinality(pending) <= RowCount
      BY RowAssumption, LengthType, FS_Subset DEF TypeOK, RowCount
    <3>2. packet[t].pc = "sum" /\ packet'[t].pc = "trim" /\ packet'[t].total = Cardinality(pending)
      BY <2>3, <1>4 DEF PacketSum, PacketGoes, PacketAt, PacketLocals, TypeOK
    <3>3. QED
      BY <3>1, <3>2, CountType DEF PacketLeft, PacketAt, InTrim
  <2>4. CASE PacketTrim(t)
    <3>1. /\ packet[t].pc = "trim" /\ packet[t].total \in Nat
          /\ \/ packet'[t].pc = "idle"
             \/ packet'[t].pc = "pop" /\ packet'[t].total = packet[t].total /\ packet[t].total > 0
      BY <2>4, <1>4, LimitAssumption DEF PacketTrim, PacketGoes, PacketAt, PacketLocals, IdlePacket, TypeOK
    <3>2. QED
      BY <3>1, CountType DEF PacketLeft, PacketAt, InTrim
  <2>5. CASE PacketPop(t)
    <3> DEFINE n == Cardinality(Oldest(pending))
    <3>1. n \in Nat \ {0}
      BY <2>5, OldestIsThere DEF PacketPop
    <3>2. /\ packet[t].pc = "pop" /\ packet[t].total \in Nat /\ packet'[t].pc = "trim"
          /\ packet'[t].total = IF packet[t].total > n THEN packet[t].total - n ELSE 0
      <4> HIDE DEF n
      <4>1. packet[t].pc = "pop" /\ packet[t].total \in Nat
        BY <2>5, <1>4 DEF PacketPop, PacketAt, PacketLocals
      <4>2. PacketGoes(t, [packet[t] EXCEPT !.pc = "trim", !.total = IF @ > n THEN @ - n ELSE 0])
        BY <2>5 DEF PacketPop, n
      <4>3. QED
        BY <1>4, <4>1, <4>2 DEF PacketGoes, PacketLocals, TypeOK
    <3>3. QED
      <4> HIDE DEF n
      <4>1. QED
        BY <3>1, <3>2, CountType DEF PacketLeft, PacketAt, InTrim
  <2>6. CASE PacketPopFails(t)
    <3>1. packet[t].pc = "pop" /\ packet[t].total \in Nat /\ packet'[t].pc = "idle"
      BY <2>6, <1>4 DEF PacketPopFails, PacketGoes, PacketAt, PacketLocals, IdlePacket, TypeOK
    <3>2. QED
      BY <3>1 DEF PacketLeft, PacketAt, InTrim
  <2>7. QED
    BY <2>1, <2>2, <2>3, <2>4, <2>5, <2>6 DEF PacketStep
<1>6. QED
  BY <1>2, <1>3, <1>5

LEMMA LeftTypes ==
  /\ TypeOK /\ InLoop /\ ~WorkerAt("idle") => WorkerLeft \in 1..(6 + 3 * RowCount)
  /\ \A t \in PacketThreads : TypeOK /\ InTrim(t) /\ ~PacketAt(t, "idle") => PacketLeft(t) \in 1..(9 + 2 * RowCount)
<1>1. TypeOK /\ InLoop /\ ~WorkerAt("idle") => WorkerLeft \in 1..(6 + 3 * RowCount)
  BY CountType DEF WorkerLeft, WorkerAt, InLoop, TypeOK, WorkerLocals, WorkerPcs
<1>2. ASSUME NEW t \in PacketThreads, TypeOK, InTrim(t), ~PacketAt(t, "idle")
      PROVE  PacketLeft(t) \in 1..(9 + 2 * RowCount)
  <2>1. packet[t].pc \in PacketPcs /\ packet[t].total \in Nat
    BY <1>2 DEF TypeOK, PacketLocals
  <2>2. packet[t].pc \in {"trim", "pop"} => packet[t].total <= RowCount
    BY <1>2 DEF InTrim
  <2>3. packet[t].pc = "pop" => packet[t].total > 0
    BY <1>2 DEF InTrim
  <2>4. CASE packet[t].pc \in {"trim", "pop"}
    <3>1. PacketLeft(t) = IF packet[t].pc = "pop" THEN 2 * packet[t].total ELSE 1 + 2 * packet[t].total
      BY <2>4 DEF PacketLeft, PacketAt
    <3>2. QED
      BY <2>1, <2>2, <2>3, <2>4, <3>1, CountType
  <2>5. CASE packet[t].pc \in {"sum", "append", "queueFresh", "queue"}
    <3>1. \E k \in 2..5 : PacketLeft(t) = k + 2 * RowCount
      BY <2>5 DEF PacketLeft, PacketAt
    <3>2. QED
      BY <3>1, CountType
  <2>6. CASE packet[t].pc \in {"mask", "score", "assignFresh", "expire"}
    <3>1. \E k \in 6..9 : PacketLeft(t) = k + 2 * RowCount
      BY <2>6 DEF PacketLeft, PacketAt
    <3>2. QED
      BY <3>1, CountType
  <2>7. QED
    BY <1>2, <2>1, <2>4, <2>5, <2>6 DEF PacketPcs, PacketAt
<1>3. QED
  BY <1>1, <1>2

LEMMA LoopKeeps == TypeOK /\ TypeOK' /\ LoopInv /\ [Next]_vars => LoopInv' /\ [HandlersGoForward]_vars
<1> SUFFICES ASSUME TypeOK, TypeOK', LoopInv, [Next]_vars PROVE LoopInv' /\ [HandlersGoForward]_vars
  OBVIOUS
<1>1. worker'.pc = worker.pc /\ worker'.index = worker.index => InLoop' /\ WorkerLeft' = WorkerLeft
  BY DEF LoopInv, InLoop, WorkerLeft, WorkerAt
<1>2. ASSUME NEW t \in PacketThreads, packet'[t] = packet[t] PROVE InTrim(t)' /\ PacketLeft(t)' = PacketLeft(t)
  BY <1>2 DEF LoopInv, InTrim, PacketLeft, PacketAt
<1>3. WorkerStep => WorkerLeft' < WorkerLeft
  BY WorkerForward DEF LoopInv
<1>4. \A t \in PacketThreads : PacketStep(t) => PacketLeft(t)' < PacketLeft(t)
  BY PacketForward DEF LoopInv
<1> DEFINE Stays(t) == PacketStep(t) \/ PacketAt(t, "idle") \/ PacketLeft(t)' = PacketLeft(t)
<1>6. /\ LoopInv'
      /\ WorkerStep \/ WorkerAt("idle") \/ WorkerLeft' = WorkerLeft
      /\ \A t \in PacketThreads : Stays(t)
  <2>1. CASE WorkerStep
    BY <1>2, <2>1, WorkerForward DEF LoopInv
  <2>2. CASE \E t \in PacketThreads : PacketStep(t)
    <3>1. PICK t \in PacketThreads : PacketStep(t)
      BY <2>2
    <3>2. /\ InTrim(t)' /\ \A u \in PacketThreads \ {t} : packet'[u] = packet[u]
          /\ worker'.pc = worker.pc /\ worker'.index = worker.index
      BY <3>1, PacketForward DEF LoopInv
    <3>3. QED
      BY <1>1, <1>2, <3>1, <3>2 DEF LoopInv
  <2>3. CASE RuleBatch
    <3>1. worker.pc = "idle" /\ worker'.pc = "flush" /\ packet' = packet
      BY <2>3 DEF RuleBatch, WorkerAt, TypeOK, WorkerLocals
    <3>2. QED
      BY <1>2, <3>1 DEF WorkerAt, LoopInv, InLoop
  <2>4. CASE \E t \in PacketThreads : PacketBatch(t)
    <3>1. PICK t \in PacketThreads : PacketBatch(t)
      BY <2>4
    <3>2. packet[t].pc = "idle" /\ worker' = worker /\ packet[t] \in PacketLocals
      BY <3>1 DEF PacketBatch, PacketAt, TypeOK
    <3>3. PICK rows : PacketGoes(t, [packet[t] EXCEPT !.pc = "expire", !.rows = rows])
      BY <3>1 DEF PacketBatch
    <3>4. packet'[t].pc = "expire" /\ \A u \in PacketThreads \ {t} : packet'[u] = packet[u]
      BY <3>2, <3>3 DEF PacketGoes, TypeOK, PacketLocals
    <3>5. InTrim(t)'
      BY <3>4 DEF InTrim
    <3>6. QED
      BY <1>1, <1>2, <3>2, <3>4, <3>5 DEF LoopInv, PacketAt
  <2>5. CASE Reset \/ Tick \/ UNCHANGED vars
    BY <1>1, <1>2, <2>5 DEF Reset, Tick, vars, LoopInv
  <2>6. QED
    BY <2>1, <2>2, <2>3, <2>4, <2>5 DEF Next
<1>7. QED
  BY <1>3, <1>4, <1>6, LeftTypes DEF LoopInv, HandlersGoForward

(* In turns or not, after a clean stop or not: every step of a handler        *)
(* brings it nearer to its return, no step of another thread takes it back,  *)
(* and the steps a handler has are bounded by the rows there are             *)
(* (live_pipeline.py:155-231): HandlersReturn needs only that a thread runs.  *)
THEOREM HandlersAdvance == Spec => [][HandlersGoForward]_vars
<1>1. Init => LoopInv
  BY DEF Init, LoopInv, InLoop, InTrim, IdleWorker, IdlePacket
<1>2. TypeOK /\ TypeOK' /\ LoopInv /\ [Next]_vars => LoopInv' /\ [HandlersGoForward]_vars
  BY LoopKeeps
<1>3. QED
  BY <1>1, <1>2, TypeCorrect, PTL DEF Spec

-----------------------------------------------------------------------------
(* What a packet thread may rely on between its two reads of the flags,      *)
(* although other threads raise flags, replay the queue and rebind it: its  *)
(* rows are its own until it appends them, and no flag is taken back.       *)

(* Rows in the queue's list or in a list taken from it. *)
OnQueue == {r \in Rows : r \in pending \cup WorkerHolds \/ \E t \in PacketThreads : r \in packet[t].fresh}

Untouched(r) == scored[r] = 0 /\ r \notin released

ArrivalOf(t) ==
  /\ Amid(t, {"idle", "sum", "trim", "pop"}) => packet[t].rows = {}
  /\ \A r \in packet[t].rows :
       /\ seenIn[r] # 0 /\ r \notin OnQueue /\ scored[r] <= 1
       /\ Untouched(r) \/ (Amid(t, {"mask"}) /\ SrcOf[r] \in flagged)

ArrivalInv ==
  /\ \A r \in Rows : seenIn[r] = 0 => Untouched(r)
  /\ \A r \in OnQueue : seenIn[r] # 0
  /\ \A t \in PacketThreads : ArrivalOf(t)
  /\ \A t, u \in PacketThreads : t = u \/ packet[t].rows \cap packet[u].rows = {}

(* A batch of new packet flows goes one of two ways: what the thread queues  *)
(* was not judged by it, nor by anybody else, and none of its rows is        *)
(* judged twice on arrival.                                                *)
ArrivalsOnce ==
  \A t \in PacketThreads : \A r \in packet[t].rows :
    /\ scored[r] <= 1
    /\ Amid(t, {"queue", "queueFresh", "append"}) => Untouched(r)

SameFate(r) == scored'[r] = scored[r] /\ (r \in released' <=> r \in released)

LEMMA OnQueueHas ==
  ASSUME TypeOK
  PROVE  /\ pending \subseteq OnQueue /\ WorkerHolds \subseteq OnQueue /\ Walked \subseteq OnQueue
         /\ Fresh(pending) \subseteq OnQueue
         /\ \A t \in PacketThreads : packet[t].fresh \subseteq OnQueue
BY FiltersShrink DEF TypeOK, OnQueue, WorkerHolds, Walked, WorkerLocals, PacketLocals

(* Steps of others: they move rows of the queue and judge rows of the queue, *)
(* and take flags back only when no thread has rows.                       *)
LEMMA BesideArrives ==
  ASSUME TypeOK, ArrivalInv, UNCHANGED <<packet, seenIn>>,
         pending' \subseteq OnQueue, WorkerHolds' \subseteq OnQueue,
         flagged \subseteq flagged' \/ Quiet,
         \A r \in Rows \ OnQueue : SameFate(r)
  PROVE  ArrivalInv'
<1>1. OnQueue' \subseteq OnQueue
  BY OnQueueHas DEF OnQueue
<1>2. \A t \in PacketThreads : packet[t].rows \subseteq Rows
  BY DEF TypeOK, PacketLocals
<1>3. \A r \in Rows : seenIn[r] = 0 => Untouched(r)'
  BY DEF ArrivalInv, Untouched, SameFate
<1>4. ASSUME NEW t \in PacketThreads PROVE ArrivalOf(t)'
  <2>1. Quiet => packet[t].rows = {}
    BY DEF Quiet, ArrivalInv, ArrivalOf, Amid
  <2>2. \A r \in packet[t].rows : r \in Rows \ OnQueue /\ SameFate(r)
    BY <1>2 DEF ArrivalInv, ArrivalOf
  <2>3. QED
    BY <1>1, <2>1, <2>2 DEF ArrivalInv, ArrivalOf, Amid, Untouched, SameFate
<1>5. QED
  BY <1>1, <1>3, <1>4 DEF ArrivalInv

(* A step of the thread itself. *)
LEMMA OwnArrives ==
  ASSUME TypeOK, ArrivalInv, UNCHANGED <<seenIn, flagged>>,
         NEW t \in PacketThreads, NEW next \in PacketLocals, PacketGoes(t, next),
         next.rows \subseteq packet[t].rows,
         next.pc \in {"idle", "sum", "trim", "pop"} => next.rows = {},
         pending' \cup WorkerHolds' \cup next.fresh \subseteq OnQueue \cup (packet[t].rows \ next.rows),
         \A r \in Rows \ (OnQueue \cup packet[t].rows) : SameFate(r),
         \A r \in next.rows : /\ scored'[r] <= 1
                              /\ Untouched(r)' \/ (next.pc = "mask" /\ SrcOf[r] \in flagged)
  PROVE  ArrivalInv'
<1>1. packet'[t] = next /\ \A u \in PacketThreads \ {t} : packet'[u] = packet[u]
  BY DEF PacketGoes, TypeOK
<1>2. OnQueue' \subseteq OnQueue \cup (packet[t].rows \ next.rows)
  BY <1>1, OnQueueHas DEF OnQueue
<1>3. \A u \in PacketThreads : packet[u].rows \subseteq Rows
  BY DEF TypeOK, PacketLocals
<1>4. \A r \in packet[t].rows : seenIn[r] # 0 /\ r \notin OnQueue
  BY DEF ArrivalInv, ArrivalOf
<1>5. \A r \in Rows : seenIn[r] = 0 => Untouched(r)'
  BY <1>4 DEF ArrivalInv, Untouched, SameFate
<1>6. ASSUME NEW u \in PacketThreads \ {t} PROVE ArrivalOf(u)'
  <2>1. \A r \in packet[u].rows : r \in Rows \ (OnQueue \cup packet[t].rows) /\ SameFate(r)
    BY <1>3 DEF ArrivalInv, ArrivalOf
  <2>2. QED
    BY <1>1, <1>2, <2>1 DEF ArrivalInv, ArrivalOf, Amid, Untouched, SameFate
<1>7. ArrivalOf(t)'
  BY <1>1, <1>2, <1>4 DEF ArrivalOf, Amid
<1>8. \A u, v \in PacketThreads : u = v \/ packet'[u].rows \cap packet'[v].rows = {}
  BY <1>1 DEF ArrivalInv
<1>9. \A r \in OnQueue' : seenIn'[r] # 0
  BY <1>2, <1>4 DEF ArrivalInv
<1>10. QED
  BY <1>5, <1>6, <1>7, <1>8, <1>9 DEF ArrivalInv

(* The models' outcome touches the rows they were given. *)
LEMMA ScoreTouches ==
  ASSUME TypeOK, NEW rows \in SUBSET Rows, Score(rows)
  PROVE  /\ \A r \in Rows \ rows : SameFate(r)
         /\ \A r \in rows : scored'[r] <= scored[r] + 1
BY DEF TypeOK, Score, SameFate

LEMMA DetachedOnQueue ==
  ASSUME TypeOK, worker' = Detached PROVE WorkerHolds' \subseteq OnQueue
<1>1. /\ worker'.fresh = worker.fresh /\ worker'.list = Walked
      /\ worker'.frame = worker.frame /\ worker'.kept = worker.kept
  BY DEF TypeOK, Detached, WorkerLocals
<1>2. QED
  BY <1>1, OnQueueHas DEF WorkerHolds

LEMMA WorkerArrives ==
  ASSUME TypeOK, ArrivalInv, RuleBatch \/ WorkerStep
  PROVE  ArrivalInv'
<1> USE OnQueueHas DEF SameFate, shared, history
<1> SUFFICES ASSUME UNCHANGED <<packet, seenIn>>, flagged \subseteq flagged'
             PROVE  /\ pending' \subseteq OnQueue /\ WorkerHolds' \subseteq OnQueue
                    /\ \A r \in Rows \ OnQueue : SameFate(r)
  <2>1. UNCHANGED <<packet, seenIn>> /\ flagged \subseteq flagged'
    BY DEF RuleBatch, WorkerStep, FlushNothing, FlushSome, WorkerExpire, WorkerAssignFresh, WorkerBegin, WorkerNextFrame,
       WorkerScore, WorkerKeep, WorkerLastFrame, WorkerAssignKept
  <2>2. QED
    BY <2>1, BesideArrives
<1> USE DEF WorkerHolds, TypeOK, WorkerLocals
<1>1. CASE RuleBatch
  BY <1>1 DEF RuleBatch
<1>2. CASE FlushNothing
  BY <1>2 DEF FlushNothing, IdleWorker
<1>3. CASE FlushSome
  BY <1>3 DEF FlushSome
<1>4. CASE WorkerExpire
  BY <1>4 DEF WorkerExpire
<1>5. CASE WorkerAssignFresh
  BY <1>5 DEF WorkerAssignFresh
<1>6. CASE WorkerBegin
  BY <1>6 DEF WorkerBegin
<1>7. CASE WorkerNextFrame
  BY <1>7, FiltersShrink DEF WorkerNextFrame
<1>8. CASE WorkerScore
  <2>1. OfFlagged(worker.frame) \in SUBSET Rows /\ OfFlagged(worker.frame) \subseteq OnQueue
    BY FiltersShrink
  <2>2. \A r \in Rows \ OnQueue : SameFate(r)
    BY <1>8, <2>1, ScoreTouches DEF WorkerScore
  <2>3. QED
    BY <1>8, <2>2 DEF WorkerScore
<1>9. CASE WorkerKeep
  BY <1>9 DEF WorkerKeep, StillWaiting
<1>10. CASE WorkerLastFrame
  BY <1>10 DEF WorkerLastFrame
<1>11. CASE WorkerAssignKept
  BY <1>11 DEF WorkerAssignKept, IdleWorker
<1>12. QED
  BY <1>1, <1>2, <1>3, <1>4, <1>5, <1>6, <1>7, <1>8, <1>9, <1>10, <1>11 DEF WorkerStep

(* A batch that begins has rows nobody has seen. *)
LEMMA BatchArrives ==
  ASSUME TypeOK, session > 0, ArrivalInv, NEW t \in PacketThreads, PacketBatch(t)
  PROVE  ArrivalInv'
<1>1. PICK rows \in SUBSET {r \in Rows : seenIn[r] = 0} :
        /\ seenIn' = [r \in Rows |-> IF r \in rows THEN session ELSE seenIn[r]]
        /\ PacketGoes(t, [packet[t] EXCEPT !.pc = "expire", !.rows = rows])
  BY DEF PacketBatch
<1>2. /\ packet[t].pc = "idle" /\ packet[t] \in PacketLocals
      /\ UNCHANGED <<flagged, pending, worker, scored, released>>
  BY DEF PacketBatch, PacketAt, TypeOK, shared
<1>3. /\ packet'[t].pc = "expire" /\ packet'[t].rows = rows /\ packet'[t].fresh = packet[t].fresh
      /\ \A u \in PacketThreads \ {t} : packet'[u] = packet[u]
  BY <1>1, <1>2 DEF PacketGoes, TypeOK, PacketLocals
<1>4. OnQueue' = OnQueue
  BY <1>2, <1>3 DEF OnQueue, WorkerHolds
<1>5. \A r \in Rows : seenIn[r] # 0 => seenIn'[r] # 0 /\ r \notin rows
  BY <1>1
<1>6. \A r \in rows : seenIn'[r] # 0 /\ r \notin OnQueue /\ Untouched(r) /\ scored[r] = 0 /\ r \in Rows
  BY <1>1 DEF ArrivalInv, Untouched
<1>7. \A r \in Rows : seenIn'[r] = 0 => Untouched(r)'
  BY <1>1, <1>2 DEF ArrivalInv, Untouched, TypeOK
<1>8. \A u \in PacketThreads \ {t} : ArrivalOf(u)' /\ packet[u].rows \cap rows = {}
  <2>1. ASSUME NEW u \in PacketThreads \ {t} PROVE ArrivalOf(u)' /\ packet[u].rows \cap rows = {}
    <3>1. \A r \in packet[u].rows : r \in Rows /\ seenIn[r] # 0
      BY DEF ArrivalInv, ArrivalOf, TypeOK, PacketLocals
    <3>2. QED
      BY <1>2, <1>3, <1>4, <1>5, <3>1 DEF ArrivalInv, ArrivalOf, Amid, Untouched
  <2>2. QED
    BY <2>1
<1>9. ArrivalOf(t)'
  BY <1>2, <1>3, <1>4, <1>6 DEF ArrivalOf, Amid, Untouched
<1>10. \A u, v \in PacketThreads : u = v \/ packet'[u].rows \cap packet'[v].rows = {}
  BY <1>3, <1>8 DEF ArrivalInv
<1>11. \A r \in OnQueue' : seenIn'[r] # 0
  BY <1>4, <1>5 DEF ArrivalInv, OnQueue
<1>12. QED
  BY <1>7, <1>8, <1>9, <1>10, <1>11 DEF ArrivalInv

(* A step of a thread that only touches the queue, or leaves its handler. *)
LEMMA QuietlyArrives ==
  ASSUME TypeOK, ArrivalInv, UNCHANGED <<seenIn, flagged>>,
         NEW t \in PacketThreads, NEW next \in PacketLocals, PacketGoes(t, next), ~Amid(t, {"mask"}),
         next.rows = packet[t].rows \/ next.rows = {},
         next.pc \in {"idle", "sum", "trim", "pop"} => next.rows = {},
         pending' \cup WorkerHolds' \cup next.fresh \subseteq OnQueue \cup (packet[t].rows \ next.rows),
         \A r \in Rows \ OnQueue : SameFate(r)
  PROVE  ArrivalInv'
<1>1. packet[t].rows \subseteq Rows
  BY DEF TypeOK, PacketLocals
<1>2. \A r \in packet[t].rows : Untouched(r) /\ scored[r] <= 1 /\ SameFate(r)
  BY <1>1 DEF ArrivalInv, ArrivalOf, Amid
<1>3. \A r \in next.rows : scored'[r] <= 1 /\ Untouched(r)'
  BY <1>2 DEF Untouched, SameFate
<1>4. QED
  BY <1>3, OwnArrives

LEMMA PacketArrives ==
  ASSUME TypeOK, ArrivalInv, NEW t \in PacketThreads, PacketStep(t)
  PROVE  ArrivalInv'
<1>1. packet[t] \in PacketLocals /\ packet[t].rows \in SUBSET Rows
  BY DEF TypeOK, PacketLocals
<1>2. packet[t].rows \cap OnQueue = {}
  BY DEF ArrivalInv, ArrivalOf
<1> USE <1>1, OnQueueHas DEF shared, history, SameFate, Amid
<1>3. UNCHANGED <<seenIn, flagged>>
  BY DEF PacketStep, PacketArrive, PacketExpire, PacketAssignFresh, PacketAssignQueue, PacketAssign, PacketScore,
     PacketMask, PacketQueue, PacketAppend, PacketSum, PacketTrim, PacketPop, PacketPopFails
<1>4. ASSUME NEW from \in {"expire", "queue"}, NEW to \in {"assignFresh", "queueFresh"}, PacketExpire(t, from, to)
      PROVE  ArrivalInv'
  <2> DEFINE next == [packet[t] EXCEPT !.pc = to, !.fresh = Fresh(pending)]
  <2>1. Fresh(pending) \in SUBSET Rows
    BY FiltersShrink DEF TypeOK
  <2>2. next \in PacketLocals /\ next.rows = packet[t].rows /\ next.pc = to /\ next.fresh = Fresh(pending)
    BY <2>1 DEF PacketLocals, PacketPcs
  <2>3. PacketGoes(t, next) /\ packet[t].pc = from
    BY <1>4 DEF PacketExpire, PacketAt
  <2>4. pending' = pending /\ WorkerHolds' = WorkerHolds /\ \A r \in Rows \ OnQueue : SameFate(r)
    BY <1>4 DEF PacketExpire, WorkerHolds
  <2> HIDE DEF next
  <2>5. QED
    BY <1>3, <2>2, <2>3, <2>4, QuietlyArrives
<1>5. ASSUME NEW from \in {"assignFresh", "queueFresh"}, NEW to \in {"score", "append"}, PacketAssign(t, from, to)
      PROVE  ArrivalInv'
  <2> DEFINE next == [packet[t] EXCEPT !.pc = to, !.fresh = {}]
  <2>1. next \in PacketLocals /\ next.rows = packet[t].rows /\ next.pc = to /\ next.fresh = {}
    BY DEF PacketLocals, PacketPcs
  <2>2. PacketGoes(t, next) /\ packet[t].pc = from
    BY <1>5 DEF PacketAssign, PacketAt
  <2>3. pending' \subseteq OnQueue /\ WorkerHolds' \subseteq OnQueue /\ \A r \in Rows \ OnQueue : SameFate(r)
    BY <1>5, DetachedOnQueue DEF PacketAssign
  <2> HIDE DEF next
  <2>4. QED
    BY <1>3, <2>1, <2>2, <2>3, QuietlyArrives
<1>6. CASE PacketScore(t)
  <2> DEFINE next == [packet[t] EXCEPT !.pc = "mask"]
  <2>1. /\ next \in PacketLocals /\ next.rows = packet[t].rows /\ next.pc = "mask"
        /\ next.fresh = packet[t].fresh
    BY DEF PacketLocals, PacketPcs
  <2>2. PacketGoes(t, next) /\ packet[t].pc = "score" /\ pending' = pending /\ WorkerHolds' = WorkerHolds
    BY <1>6 DEF PacketScore, PacketAt, WorkerHolds
  <2>3. OfFlagged(packet[t].rows) \in SUBSET packet[t].rows /\ Score(OfFlagged(packet[t].rows))
    BY <1>6, FiltersShrink DEF PacketScore
  <2>4. /\ \A r \in Rows \ OfFlagged(packet[t].rows) : SameFate(r)
        /\ \A r \in OfFlagged(packet[t].rows) : scored'[r] <= scored[r] + 1
    BY <2>3, ScoreTouches
  <2>5. \A r \in packet[t].rows : Untouched(r) /\ scored[r] = 0
    BY <2>2 DEF ArrivalInv, ArrivalOf, Untouched
  <2>6. \A r \in packet[t].rows : scored'[r] <= 1 /\ (Untouched(r)' \/ SrcOf[r] \in flagged)
    <3>1. \A r \in OfFlagged(packet[t].rows) : SrcOf[r] \in flagged /\ scored'[r] <= 1
      BY <2>3, <2>4, <2>5 DEF OfFlagged
    <3>2. \A r \in packet[t].rows \ OfFlagged(packet[t].rows) : scored'[r] = 0 /\ Untouched(r)'
      BY <2>4, <2>5 DEF Untouched
    <3>3. QED
      BY <3>1, <3>2
  <2>7. \A r \in Rows \ (OnQueue \cup packet[t].rows) : SameFate(r)
    BY <2>3, <2>4
  <2> HIDE DEF next
  <2>8. QED
    BY <1>3, <2>1, <2>2, <2>6, <2>7, OwnArrives
<1>7. CASE PacketMask(t)
  <2> DEFINE late == StillWaiting(packet[t].rows)
             next == IF late = {} THEN IdlePacket ELSE [packet[t] EXCEPT !.pc = "queue", !.rows = late]
  <2>1. late \in SUBSET packet[t].rows /\ \A r \in late : SrcOf[r] \notin flagged
    BY DEF StillWaiting, OfFlagged
  <2>2. /\ next \in PacketLocals /\ next.rows = late /\ next.fresh \subseteq packet[t].fresh
        /\ next.pc \in {"idle", "queue"} /\ (next.pc = "idle" => late = {})
    BY <2>1, IdleTypes DEF PacketLocals, PacketPcs, IdlePacket
  <2>3. /\ PacketGoes(t, next) /\ pending' = pending /\ WorkerHolds' = WorkerHolds
        /\ UNCHANGED <<scored, released>>
    BY <1>7 DEF PacketMask, WorkerHolds
  <2>4. \A r \in late : scored'[r] <= 1 /\ Untouched(r)'
    BY <2>1, <2>3 DEF ArrivalInv, ArrivalOf, Untouched
  <2> HIDE DEF next, late
  <2>5. QED
    BY <1>3, <2>1, <2>2, <2>3, <2>4, OwnArrives
<1>8. CASE PacketAppend(t)
  <2> DEFINE next == [packet[t] EXCEPT !.pc = "sum", !.rows = {}]
  <2>1. next \in PacketLocals /\ next.rows = {} /\ next.pc = "sum" /\ next.fresh = packet[t].fresh
    BY DEF PacketLocals, PacketPcs
  <2>2. PacketGoes(t, next) /\ packet[t].pc = "append"
    BY <1>8 DEF PacketAppend, PacketAt
  <2>3. /\ pending' = pending \cup packet[t].rows /\ WorkerHolds' = WorkerHolds
        /\ \A r \in Rows \ OnQueue : SameFate(r)
    BY <1>8 DEF PacketAppend, WorkerHolds
  <2> HIDE DEF next
  <2>4. QED
    BY <1>3, <2>1, <2>2, <2>3, QuietlyArrives
<1>9. CASE PacketSum(t) \/ PacketTrim(t) \/ PacketPop(t) \/ PacketPopFails(t)
  <2>1. packet[t].pc \in {"sum", "trim", "pop"} /\ packet[t].rows = {}
    <3>1. packet[t].pc \in {"sum", "trim", "pop"}
      BY <1>9 DEF PacketSum, PacketTrim, PacketPop, PacketPopFails, PacketAt
    <3>2. QED
      BY <3>1 DEF ArrivalInv, ArrivalOf
  <2>2. \E next \in PacketLocals : PacketGoes(t, next) /\ next.rows = {} /\ next.fresh \subseteq packet[t].fresh
    <3> DEFINE Fits(next) == next \in PacketLocals /\ next.rows = {} /\ next.fresh \subseteq packet[t].fresh
    <3>1. Fits(IdlePacket)
      BY IdleTypes DEF IdlePacket
    <3>2. \A total \in Nat : /\ Fits([packet[t] EXCEPT !.pc = "trim", !.total = total])
                           /\ Fits([packet[t] EXCEPT !.pc = "pop"])
      BY <2>1 DEF PacketLocals, PacketPcs
    <3>3. \A rows \in SUBSET Rows : Cardinality(rows) \in Nat
      BY LengthType
    <3>4. packet[t].total \in Nat /\ Cardinality(pending) \in Nat /\ Cardinality(Oldest(pending)) \in Nat
      BY <3>3, FiltersShrink DEF TypeOK, PacketLocals
    <3> HIDE DEF Fits
    <3>5. CASE PacketSum(t)
      BY <3>2, <3>4, <3>5 DEF PacketSum, Fits
    <3>6. CASE PacketTrim(t)
      BY <3>1, <3>2, <3>6 DEF PacketTrim, Fits
    <3>7. CASE PacketPop(t)
      <4> DEFINE total == IF packet[t].total > Cardinality(Oldest(pending))
                          THEN packet[t].total - Cardinality(Oldest(pending)) ELSE 0
      <4>1. total \in Nat
        BY <3>4
      <4>2. PacketGoes(t, [packet[t] EXCEPT !.pc = "trim", !.total = total])
        BY <3>7 DEF PacketPop
      <4> HIDE DEF total
      <4>3. QED
        BY <3>2, <4>1, <4>2 DEF Fits
    <3>8. CASE PacketPopFails(t)
      BY <3>1, <3>8 DEF PacketPopFails, Fits
    <3>9. QED
      BY <1>9, <3>5, <3>6, <3>7, <3>8
  <2>3. pending' \subseteq pending /\ WorkerHolds' = WorkerHolds
    BY <1>9, FiltersShrink DEF PacketSum, PacketTrim, PacketPop, PacketPopFails, WorkerHolds
  <2>4. \A r \in Rows \ OnQueue : SameFate(r)
    BY <1>9, FiltersShrink DEF PacketSum, PacketTrim, PacketPop, PacketPopFails
  <2>5. QED
    BY <1>3, <2>1, <2>2, <2>3, <2>4, QuietlyArrives
<1>10. QED
  <2>1. CASE PacketArrive(t) \/ PacketQueue(t)
    BY <2>1, <1>4 DEF PacketArrive, PacketQueue
  <2>2. CASE PacketAssignFresh(t) \/ PacketAssignQueue(t)
    BY <2>2, <1>5 DEF PacketAssignFresh, PacketAssignQueue
  <2>3. QED
    BY <2>1, <2>2, <1>6, <1>7, <1>8, <1>9 DEF PacketStep

LEMMA ArrivalKeeps == CleanStop /\ TypeOK /\ session > 0 /\ ArrivalInv /\ [Next]_vars => ArrivalInv'
<1> SUFFICES ASSUME CleanStop, TypeOK, session > 0, ArrivalInv, [Next]_vars PROVE ArrivalInv'
  OBVIOUS
<1>1. CASE Reset
  <2>1. \A r \in Rows \ OnQueue : SameFate(r)
    BY <1>1, OnQueueHas DEF Reset, SameFate
  <2>2. UNCHANGED <<packet, seenIn>> /\ pending' = {} /\ WorkerHolds' = WorkerHolds /\ Quiet
    BY <1>1 DEF Reset, WorkerHolds
  <2>3. QED
    BY <2>1, <2>2, OnQueueHas, BesideArrives
<1>2. CASE Tick \/ UNCHANGED vars
  BY <1>2, OnQueueHas, BesideArrives DEF Tick, vars, shared, history, WorkerHolds, SameFate
<1>3. QED
  BY <1>1, <1>2, WorkerArrives, BatchArrives, PacketArrives DEF Next

(* However the threads interleave between clean stops, a row is judged on     *)
(* arrival or queued, never both, though its thread reads the flags twice     *)
(* with the models' run in between (live_pipeline.py:225-231): flags are only *)
(* added while it runs, and its rows are in nobody else's hands.             *)
THEOREM ArrivalsOnceSafe == CleanStop => (Spec => []ArrivalsOnce)
<1> SUFFICES ASSUME CleanStop PROVE Spec => []ArrivalsOnce
  OBVIOUS
<1>1. Init => session > 0 /\ ArrivalInv
  BY DEF Init, ArrivalInv, ArrivalOf, Untouched, OnQueue, WorkerHolds, IdleWorker, IdlePacket, Amid
<1>2. TypeOK /\ session > 0 /\ [Next]_vars => (session > 0)'
  <2>1. RuleBatch \/ WorkerStep => session' = session
    BY DEF RuleBatch, WorkerStep, FlushNothing, FlushSome, WorkerExpire, WorkerAssignFresh, WorkerBegin, WorkerNextFrame,
       WorkerScore, WorkerKeep, WorkerLastFrame, WorkerAssignKept
  <2>2. \A t \in PacketThreads : PacketBatch(t) \/ PacketStep(t) => session' = session
    BY DEF PacketBatch, PacketStep, PacketArrive, PacketExpire, PacketAssignFresh, PacketAssignQueue, PacketAssign,
       PacketScore, PacketMask, PacketQueue, PacketAppend, PacketSum, PacketTrim, PacketPop, PacketPopFails
  <2>3. Reset => session' = session + 1
    BY DEF Reset
  <2>4. Tick \/ UNCHANGED vars => session' = session
    BY DEF Tick, vars
  <2>5. QED
    BY <2>1, <2>2, <2>3, <2>4 DEF Next, TypeOK
<1>3. ArrivalInv => ArrivalsOnce
  BY DEF ArrivalInv, ArrivalOf, ArrivalsOnce, Amid
<1>4. TypeOK /\ session > 0 /\ ArrivalInv /\ [Next]_vars => ArrivalInv'
  BY ArrivalKeeps
<1>5. QED
  BY <1>1, <1>2, <1>3, <1>4, TypeCorrect, PTL DEF Spec
=============================================================================
