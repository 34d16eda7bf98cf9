----------------------------- MODULE ChatMemory -----------------------------
(***************************************************************************)
(* The memory of the dashboard's chat (dashboard.py:144-313, 958-1027,      *)
(* 1184-1209): for each source a Gemini session in the process, its turns   *)
(* saved in chat_history, and the bubbles shown in chat_display. Every       *)
(* question is a request thread of its own; a thread works on without a      *)
(* lock, so that an action is what it does between two calls of the         *)
(* database or of Gemini. A question stands for its turn, its answer        *)
(* included. What Gemini does is external.                                 *)
(***************************************************************************)
EXTENDS Naturals, Sequences, FiniteSets

CONSTANTS
  Questions,   \* each asked once, by a request of its own
  GroupIds,     \* group_id
  SourceOf,    \* the source a question is about
  MaxAttempts, \* max_attempts
  MaxInWork,   \* bound: requests at the same time
  MaxRestarts  \* bound: restarts of the dashboard

ASSUME ChatAssumption ==
  SourceOf \in [Questions -> GroupIds] /\ MaxAttempts \in Nat \ {0}
  /\ MaxInWork \in Nat /\ MaxRestarts \in Nat

VARIABLES
  rejects,   \* the model rejects thinking_level; chosen once
  thinking,  \* _flags["thinking_ok"]
  sessions,  \* chat objects of this process: their turns, and were they created thinking?
  cached,    \* _gemini_chats: the number of a source's session, 0 for none
  saved,     \* chat_history
  bubbles,     \* chat_display
  asker,     \* request threads: position, session, attempt, what they read
  answered,  \* questions answered with 200, in that order
  met,       \* history: pairs of questions that were in work at the same time
  restarts

chatVars == <<rejects, thinking, sessions, cached, saved, bubbles, asker, answered, met, restarts>>

Idle(pc) == [pc |-> pc, chat |-> 0, attempt |-> 1, read |-> <<>>]
InWork   == {q \in Questions : asker[q].pc \notin {"unasked", "ok", "error", "rejected", "died"}}
Holds(turns, q) == \E i \in DOMAIN turns : turns[i] = q

ChatInit ==
  /\ rejects \in BOOLEAN /\ thinking = TRUE
  /\ sessions = <<>> /\ cached = [s \in GroupIds |-> 0]
  /\ saved = [s \in GroupIds |-> <<>>] /\ bubbles = [s \in GroupIds |-> <<>>]
  /\ asker = [q \in Questions |-> Idle("unasked")]
  /\ answered = <<>> /\ met = {} /\ restarts = 0

AskerAt(q, pc)  == asker[q].pc = pc
AskerTo(q, pc)  == asker' = [asker EXCEPT ![q].pc = pc]
Disk    == <<saved, bubbles>>
Process == <<thinking, sessions, cached>>
Books   == <<rejects, answered, met, restarts>>

AskQuestion(q) ==
  /\ AskerAt(q, "unasked") /\ Cardinality(InWork) < MaxInWork
  /\ AskerTo(q, "lookup")
  /\ met' = met \cup {{q, r} : r \in InWork}
  /\ UNCHANGED <<rejects, answered, restarts, Process, Disk>>

(* get_or_create_group_chat: the cached session, *)
LookUp(q) ==
  /\ AskerAt(q, "lookup")
  /\ LET chat == cached[SourceOf[q]]
     IN  asker' = [asker EXCEPT ![q].pc = IF chat = 0 THEN "load" ELSE "send", ![q].chat = chat]
  /\ UNCHANGED <<Books, Process, Disk>>

(* or one that goes on from the saved turns, *)
LoadHistory(q) ==
  /\ AskerAt(q, "load")
  /\ asker' = [asker EXCEPT ![q].pc = "create", ![q].read = saved[SourceOf[q]]]
  /\ UNCHANGED <<Books, Process, Disk>>

(* Mutant of CreateSession: the saved turns are not taken up. *)
CreateEmpty(q) ==
  /\ AskerAt(q, "create")
  /\ sessions' = Append(sessions, [turns |-> <<>>, think |-> thinking])
  /\ cached' = [cached EXCEPT ![SourceOf[q]] = Len(sessions')]
  /\ asker' = [asker EXCEPT ![q].pc = "send", ![q].chat = Len(sessions'), ![q].read = <<>>]
  /\ UNCHANGED <<Books, thinking, Disk>>

(* which becomes the cached one; opening it may fail. *)
CreateSession(q) ==
  /\ AskerAt(q, "create")
  /\ \/ /\ sessions' = Append(sessions, [turns |-> asker[q].read, think |-> thinking])
        /\ cached' = [cached EXCEPT ![SourceOf[q]] = Len(sessions')]
        /\ asker' = [asker EXCEPT ![q].pc = "send", ![q].chat = Len(sessions'), ![q].read = <<>>]
     \/ AskerTo(q, "error") /\ UNCHANGED <<sessions, cached>>
  /\ UNCHANGED <<Books, thinking, Disk>>

Rejected(q) == rejects /\ sessions[asker[q].chat].think

(* Mutant of Sent: an empty reply is asked for once more. *)
SentAgain(q) ==
  /\ AskerAt(q, "send") /\ ~Rejected(q)
  /\ sessions' = [sessions EXCEPT ![asker[q].chat].turns = Append(@, q)]
  /\ AskerTo(q, "dump") \/ AskerTo(q, "send")
  /\ UNCHANGED <<Books, thinking, cached, Disk>>

(* Gemini answers, perhaps with nothing; the session has the turn. *)
Sent(q) ==
  /\ AskerAt(q, "send") /\ ~Rejected(q)
  /\ sessions' = [sessions EXCEPT ![asker[q].chat].turns = Append(@, q)]
  /\ AskerTo(q, "dump") \/ AskerTo(q, "dumpEmpty")
  /\ UNCHANGED <<Books, thinking, cached, Disk>>

(* A server error is tried again, a few times. *)
ServerError(q) ==
  /\ AskerAt(q, "send") /\ asker[q].attempt < MaxAttempts
  /\ asker' = [asker EXCEPT ![q].attempt = @ + 1]
  /\ UNCHANGED <<Books, Process, Disk>>

(* The last server error, or any other error, in whatever session: the       *)
(* session is dropped.                                                     *)
Fails(q) ==
  /\ AskerAt(q, "send")
  /\ AskerTo(q, "error")
  /\ cached' = [cached EXCEPT ![SourceOf[q]] = 0]
  /\ UNCHANGED <<Books, thinking, sessions, Disk>>

(* Mutant of ThinkingRejected: the session is not dropped. *)
RejectedKeepsSession(q) ==
  /\ AskerAt(q, "send") /\ Rejected(q)
  /\ IF thinking
     THEN /\ thinking' = FALSE
          /\ asker' = [asker EXCEPT ![q] = Idle("lookup")]
     ELSE AskerTo(q, "rejected") /\ UNCHANGED thinking
  /\ UNCHANGED <<Books, sessions, cached, Disk>>

(* The model rejects thinking_level: it is switched off and the question is *)
(* asked again in a new session, unless another thread switched it off.    *)
ThinkingRejected(q) ==
  /\ AskerAt(q, "send") /\ Rejected(q)
  /\ cached' = [cached EXCEPT ![SourceOf[q]] = 0]
  /\ IF thinking
     THEN /\ thinking' = FALSE
          /\ asker' = [asker EXCEPT ![q] = Idle("lookup")]
     ELSE AskerTo(q, "rejected") /\ UNCHANGED thinking
  /\ UNCHANGED <<Books, sessions, Disk>>

(* save_history: the turns as they are now, *)
DumpHistory(q) ==
  /\ asker[q].pc \in {"dump", "dumpEmpty"}
  /\ asker' = [asker EXCEPT ![q].read = sessions[asker[q].chat].turns,
                            ![q].pc = IF @ = "dump" THEN "save" ELSE "saveEmpty"]
  /\ UNCHANGED <<Books, Process, Disk>>

(* written before the reply is looked at; an empty one is an error. The     *)
(* database may fail.                                                      *)
SaveHistory(q) ==
  /\ asker[q].pc \in {"save", "saveEmpty"}
  /\ \/ /\ saved' = [saved EXCEPT ![SourceOf[q]] = asker[q].read]
        /\ AskerTo(q, IF AskerAt(q, "save") THEN "show" ELSE "error")
     \/ AskerTo(q, "died") /\ UNCHANGED saved
  /\ UNCHANGED <<Books, Process, bubbles>>

(* append_display_turns: the bubbles so far, *)
LoadDisplay(q) ==
  /\ AskerAt(q, "show")
  /\ asker' = [asker EXCEPT ![q].pc = "append", ![q].read = bubbles[SourceOf[q]]]
  /\ UNCHANGED <<Books, Process, Disk>>

(* and with the two new ones; the request is answered. *)
AppendDisplay(q) ==
  /\ AskerAt(q, "append")
  /\ bubbles' = [bubbles EXCEPT ![SourceOf[q]] = Append(asker[q].read, q)]
  /\ AskerTo(q, "ok") /\ answered' = Append(answered, q)
  /\ UNCHANGED <<rejects, met, restarts, Process, saved>>

(* The process ends and is started again. *)
RestartDashboard ==
  /\ restarts < MaxRestarts
  /\ restarts' = restarts + 1
  /\ sessions' = <<>> /\ cached' = [s \in GroupIds |-> 0] /\ thinking' = TRUE
  /\ asker' = [q \in Questions |-> IF q \in InWork THEN Idle("died") ELSE Idle(asker[q].pc)]
  /\ UNCHANGED <<rejects, answered, met, Disk>>

Answering(q) ==
  \/ LookUp(q) \/ LoadHistory(q) \/ CreateSession(q)
  \/ Sent(q) \/ ServerError(q) \/ Fails(q) \/ ThinkingRejected(q)
  \/ DumpHistory(q) \/ SaveHistory(q) \/ LoadDisplay(q) \/ AppendDisplay(q)

ChatNext == (\E q \in Questions : AskQuestion(q) \/ Answering(q)) \/ RestartDashboard

ChatSpec == ChatInit /\ [][ChatNext]_chatVars

-----------------------------------------------------------------------------
Turns == {<<>>} \cup UNION {[1..n -> Questions] : n \in 1..Cardinality(Questions)}

ChatTypeOK ==
  /\ rejects \in BOOLEAN /\ thinking \in BOOLEAN
  /\ \A i \in DOMAIN sessions : sessions[i].turns \in Turns /\ sessions[i].think \in BOOLEAN
  /\ cached \in [GroupIds -> 0..Len(sessions)]
  /\ saved \in [GroupIds -> Turns] /\ bubbles \in [GroupIds -> Turns] /\ answered \in Turns
  /\ \A q \in Questions : asker[q].chat \in 0..Len(sessions) /\ asker[q].read \in Turns

Alone(q) == \A r \in Questions : {q, r} \in met => SourceOf[r] # SourceOf[q]

(* An answer is not forgotten: a question that was answered while no other  *)
(* one about its source was in work stays in the bubbles and in the saved    *)
(* turns, whatever is asked later, in whatever overlap, across failures and  *)
(* restarts (dashboard.py:193-245, 1014, 1208).                            *)
AnsweredIsKept ==
  \A i \in DOMAIN answered : LET q == answered[i] IN
    Alone(q) => Holds(bubbles[SourceOf[q]], q) /\ Holds(saved[SourceOf[q]], q)

(* The model is asked with that memory: the session a question is sent in   *)
(* has every such answer that was given before the question was put         *)
(* (dashboard.py:958-960), after a restart, a dropped session or a          *)
(* rejected setting too.                                                  *)
AskedWithMemory ==
  \A q \in Questions : AskerAt(q, "send") =>
    \A i \in DOMAIN answered : LET r == answered[i] IN
      SourceOf[r] = SourceOf[q] /\ Alone(r) => Holds(sessions[asker[q].chat].turns, r)

(* Trying again never puts a turn twice into a session, the saved turns or  *)
(* the bubbles (dashboard.py:280-296, 990-1007).                           *)
NoTurnTwice ==
  LET Once(turns) == \A i, j \in DOMAIN turns : turns[i] = turns[j] => i = j
  IN  /\ \A i \in DOMAIN sessions : Once(sessions[i].turns)
      /\ \A s \in GroupIds : Once(saved[s]) /\ Once(bubbles[s])

(* The bubbles hold only questions that were answered with 200              *)
(* (dashboard.py:1196, 1205-1208).                                         *)
OnlyAnsweredShown ==
  \A s \in GroupIds : \A i \in DOMAIN bubbles[s] : Holds(answered, bubbles[s][i])

(* What is kept of a source's questions: each that was answered alone, once, *)
(* and in the bubbles no other than answered ones.                         *)
KeptOnce == AnsweredIsKept /\ NoTurnTwice /\ OnlyAnsweredShown

(* A model that rejects the thinking setting costs a question only if        *)
(* another one, about whatever source, was in work at that time: its thread *)
(* may have switched the setting off first (dashboard.py:993-1007).         *)
RejectedOnlyInOverlap ==
  \A q \in Questions : AskerAt(q, "rejected") => \E r \in Questions : {q, r} \in met
=============================================================================
