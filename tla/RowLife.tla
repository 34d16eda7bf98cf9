------------------------------ MODULE RowLife ------------------------------
(***************************************************************************)
(* What the pipeline promises a packet-flow row that completed              *)
(* (live_pipeline.py:36-38, 205-238), whatever list or local it lies in:    *)
(* it waits until the models judge it or it is given up, it is never lost   *)
(* on the way, and either is final.                                        *)
(***************************************************************************)
CONSTANT Rows

VARIABLES completed, waiting, judged, givenUp

life == <<completed, waiting, judged, givenUp>>

LifeInit == completed = {} /\ waiting = {} /\ judged = {} /\ givenUp = {}

Complete(some) ==
  /\ some \cap completed = {}
  /\ completed' = completed \cup some
  /\ waiting' = waiting \cup some
  /\ UNCHANGED <<judged, givenUp>>

Judge(some) ==
  /\ some \subseteq waiting
  /\ waiting' = waiting \ some
  /\ judged' = judged \cup some
  /\ UNCHANGED <<completed, givenUp>>

GiveUp(some) ==
  /\ some \subseteq waiting
  /\ waiting' = waiting \ some
  /\ givenUp' = givenUp \cup some
  /\ UNCHANGED <<completed, judged>>

LifeNext ==
  \/ \E some \in SUBSET Rows : Complete(some)
  \/ \E some \in SUBSET waiting : Judge(some) \/ GiveUp(some)

LifeSpec == LifeInit /\ [][LifeNext]_life
=============================================================================
