-------------------------- MODULE ChatMemoryProofs --------------------------
(***************************************************************************)
(* What holds of the chat's memory for every set of questions and sources, *)
(* every number of requests at a time, of attempts and of restarts. A       *)
(* question is in no store before it is sent (Written); one that is          *)
(* answered alone is then in every store and every local from which a store *)
(* of its source can still be written (Kept); a session that the model       *)
(* would reject is cached only while a request that it will reject is in    *)
(* it (Refused).                                                           *)
(***************************************************************************)
EXTENDS ChatMemory, SequenceTheorems, TLAPS

Over    == {"ok", "error", "rejected", "died"}
Asking  == {"lookup", "load", "create", "send"}
Unsent  == {"unasked"} \cup Asking
Storing == {"dump", "dumpEmpty", "save", "saveEmpty", "show", "append"}
Turning == {"send"} \cup Storing
Session == [turns : Seq(Questions), think : BOOLEAN]
Asker   == [pc : Unsent \cup Storing \cup Over, chat : Nat, attempt : Nat, read : Seq(Questions)]

ChatTypes ==
  /\ rejects \in BOOLEAN /\ thinking \in BOOLEAN
  /\ sessions \in Seq(Session) /\ cached \in [GroupIds -> {0} \cup DOMAIN sessions]
  /\ saved \in [GroupIds -> Seq(Questions)] /\ bubbles \in [GroupIds -> Seq(Questions)]
  /\ asker \in [Questions -> Asker] /\ answered \in Seq(Questions)
  /\ \A q \in Questions : asker[q].pc \in Turning => asker[q].chat \in DOMAIN sessions

(* Who is in work at the same time is remembered. *)
Meet == \A q, r \in InWork : q # r => {q, r} \in met

OnlyOnce(turns) == \A i, j \in DOMAIN turns : turns[i] = turns[j] => i = j

(* Nothing is written of a question before it is sent, nor shown of it      *)
(* before it is answered, and nothing is written twice.                    *)
Unwritten(q) ==
  /\ \A i \in DOMAIN sessions : ~Holds(sessions[i].turns, q)
  /\ \A s \in GroupIds : ~Holds(saved[s], q)
  /\ \A r \in Questions : ~Holds(asker[r].read, q)

Written ==
  /\ \A q \in Questions : /\ asker[q].pc \in Unsent => Unwritten(q)
                          /\ Holds(answered, q) => asker[q].pc = "ok"
                          /\ OnlyOnce(asker[q].read)
  /\ \A i \in DOMAIN sessions : OnlyOnce(sessions[i].turns)
  /\ \A s \in GroupIds : OnlyOnce(saved[s]) /\ OnlyOnce(bubbles[s])
  /\ \A r \in Questions :
       /\ \A s \in GroupIds : Holds(bubbles[s], r) => Holds(answered, r)
       /\ \A q \in Questions : AskerAt(q, "append") /\ Holds(asker[q].read, r) => Holds(answered, r)

(* Whatever is written of a source from now on has question q. *)
Remembered(q) ==
  LET s == SourceOf[q]
  IN  /\ Holds(saved[s], q) /\ Holds(bubbles[s], q)
      /\ cached[s] # 0 => Holds(sessions[cached[s]].turns, q)
      /\ \A r \in Questions : SourceOf[r] = s =>
           /\ asker[r].pc \in {"create", "save", "saveEmpty", "append"} => Holds(asker[r].read, q)
           /\ asker[r].pc \in {"send", "dump", "dumpEmpty"} => Holds(sessions[asker[r].chat].turns, q)

(* A question that is alone is in what it has written so far. *)
Underway(q) ==
  LET s == SourceOf[q]
  IN  /\ asker[q].pc \in {"send", "dump", "save", "show", "append"} => cached[s] = asker[q].chat
      /\ asker[q].pc \in {"dump", "save", "show", "append"} => Holds(sessions[asker[q].chat].turns, q)
      /\ asker[q].pc = "save" => Holds(asker[q].read, q)
      /\ asker[q].pc \in {"show", "append"} => Holds(saved[s], q)

Kept == \A q \in Questions : Alone(q) => Underway(q) /\ (Holds(answered, q) => Remembered(q))

(* Where the model rejects the setting, a session that has it is cached only *)
(* while a request is about to find out.                                    *)
Refused ==
  rejects =>
    /\ \A s \in GroupIds : cached[s] # 0 /\ sessions[cached[s]].think =>
         \E q \in Questions : SourceOf[q] = s /\ AskerAt(q, "send") /\ asker[q].chat = cached[s]
    /\ \A q \in Questions : ~thinking /\ AskerAt(q, "send") /\ sessions[asker[q].chat].think =>
         \E r \in Questions : {q, r} \in met

ChatInv == ChatTypes /\ Meet /\ Written /\ Kept /\ Refused /\ RejectedOnlyInOverlap

Others(q) == \A r \in Questions \ {q} : asker'[r] = asker[r]
Moved(q, pc, chat, read) ==
  /\ asker' \in [Questions -> Asker] /\ Others(q)
  /\ asker'[q].pc = pc /\ asker'[q].chat = chat /\ asker'[q].read = read
Stays(q, pc) == Moved(q, pc, asker[q].chat, asker[q].read)

-----------------------------------------------------------------------------
(* Sequences of turns *)

LEMMA OneTurnMore ==
  ASSUME NEW turns \in Seq(Questions), NEW q \in Questions
  PROVE  /\ Append(turns, q) \in Seq(Questions)
         /\ \A r \in Questions : Holds(Append(turns, q), r) <=> Holds(turns, r) \/ r = q
         /\ OnlyOnce(turns) /\ ~Holds(turns, q) => OnlyOnce(Append(turns, q))
<1> DEFINE more == Append(turns, q)
<1>1. /\ more \in Seq(Questions) /\ Len(turns) \in Nat /\ DOMAIN turns = 1..Len(turns)
      /\ DOMAIN more = 1..(Len(turns) + 1)
  OBVIOUS
<1>2. \A i \in DOMAIN turns : i \in DOMAIN more /\ more[i] = turns[i]
  BY <1>1
<1>3. Len(turns) + 1 \in DOMAIN more /\ more[Len(turns) + 1] = q
  BY <1>1
<1>4. \A i \in DOMAIN more : i \in DOMAIN turns \/ i = Len(turns) + 1
  BY <1>1
<1> HIDE DEF more
<1>5. \A r \in Questions : Holds(more, r) <=> Holds(turns, r) \/ r = q
  BY <1>2, <1>3, <1>4 DEF Holds
<1>6. OnlyOnce(turns) /\ ~Holds(turns, q) => OnlyOnce(more)
  BY <1>2, <1>3, <1>4 DEF Holds, OnlyOnce
<1>7. QED
  BY <1>1, <1>5, <1>6 DEF more

LEMMA NoTurn == \A q : ~Holds(<<>>, q) /\ OnlyOnce(<<>>)
BY DEF Holds, OnlyOnce

LEMMA SessionOpened ==
  ASSUME sessions \in Seq(Session), NEW new \in Session, sessions' = Append(sessions, new)
  PROVE  /\ sessions' \in Seq(Session) /\ Len(sessions') \in Nat \ {0}
         /\ Len(sessions') \notin DOMAIN sessions
         /\ DOMAIN sessions' = DOMAIN sessions \cup {Len(sessions')}
         /\ sessions'[Len(sessions')] = new /\ \A i \in DOMAIN sessions : sessions'[i] = sessions[i]
<1>1. Len(sessions) \in Nat /\ DOMAIN sessions = 1..Len(sessions)
  OBVIOUS
<1>2. Len(sessions') = Len(sessions) + 1 /\ sessions' \in Seq(Session) /\ DOMAIN sessions' = 1..(Len(sessions) + 1)
  OBVIOUS
<1>3. sessions'[Len(sessions) + 1] = new /\ \A i \in 1..Len(sessions) : sessions'[i] = sessions[i]
  OBVIOUS
<1>4. QED
  BY <1>1, <1>2, <1>3

LEMMA SessionTurns ==
  ASSUME sessions \in Seq(Session), NEW c \in DOMAIN sessions, NEW q \in Questions,
         sessions' = [sessions EXCEPT ![c].turns = Append(@, q)]
  PROVE  /\ sessions' \in Seq(Session) /\ DOMAIN sessions' = DOMAIN sessions
         /\ \A i \in DOMAIN sessions \ {c} : sessions'[i] = sessions[i]
         /\ sessions'[c].turns = Append(sessions[c].turns, q) /\ sessions'[c].think = sessions[c].think
<1> DEFINE new == [turns |-> Append(sessions[c].turns, q), think |-> sessions[c].think]
<1>1. sessions[c] \in Session
  OBVIOUS
<1>2. new \in Session /\ [sessions[c] EXCEPT !.turns = Append(@, q)] = new
  <2>1. PICK t \in Seq(Questions), b \in BOOLEAN : sessions[c] = [turns |-> t, think |-> b]
    BY <1>1 DEF Session
  <2>2. sessions[c].turns = t /\ sessions[c].think = b /\ Append(t, q) \in Seq(Questions)
    BY <2>1, OneTurnMore
  <2>3. \A u : [[turns |-> t, think |-> b] EXCEPT !.turns = u] = [turns |-> u, think |-> b]
    OBVIOUS
  <2>4. QED
    BY <2>1, <2>2, <2>3 DEF Session
<1>3. sessions' = [sessions EXCEPT ![c] = new]
  BY <1>2
<1>4. new.turns = Append(sessions[c].turns, q) /\ new.think = sessions[c].think
  OBVIOUS
<1> HIDE DEF new
<1>5. sessions' \in Seq(Session) /\ DOMAIN sessions' = DOMAIN sessions
  <2>1. Len(sessions) \in Nat /\ DOMAIN sessions = 1..Len(sessions)
    OBVIOUS
  <2>2. c \in 1..Len(sessions)
    BY <2>1
  <2>3. sessions' \in Seq(Session) /\ Len(sessions') = Len(sessions)
    <3>1. new \in Session
      BY <1>2
    <3>2. [sessions EXCEPT ![c] = new] \in Seq(Session) /\ Len([sessions EXCEPT ![c] = new]) = Len(sessions)
      BY <2>2, <3>1, ExceptSeq, Zenon
    <3>3. QED
      BY <1>3, <3>2
  <2>4. DOMAIN sessions' = 1..Len(sessions')
    BY <2>3
  <2>5. QED
    BY <2>1, <2>3, <2>4
<1>6. QED
  BY <1>3, <1>4, <1>5

-----------------------------------------------------------------------------
(* What the steps do *)

LEMMA OneMoves ==
  ASSUME asker \in [Questions -> Asker], NEW q \in Questions, NEW new \in Asker, asker' = [asker EXCEPT ![q] = new]
  PROVE  Moved(q, new.pc, new.chat, new.read)
BY DEF Moved, Others

Pcs == Unsent \cup Storing \cup Over

Has(a, pc, chat, read) == a \in Asker /\ a.pc = pc /\ a.chat = chat /\ a.read = read

WithPc(a, pc)             == [a EXCEPT !.pc = pc]
WithChat(a, pc, chat)     == [a EXCEPT !.pc = pc, !.chat = chat]
WithRead(a, pc, read)     == [a EXCEPT !.pc = pc, !.read = read]
ReadWith(a, read, pc)     == [a EXCEPT !.read = read, !.pc = pc]
WithAll(a, pc, chat, read) == [a EXCEPT !.pc = pc, !.chat = chat, !.read = read]
OneMore(a)                == [a EXCEPT !.attempt = @ + 1]

LEMMA FieldsSet ==
  ASSUME NEW a \in Asker, NEW pc \in Pcs, NEW chat \in Nat, NEW read \in Seq(Questions)
  PROVE  /\ Has(WithPc(a, pc), pc, a.chat, a.read)
         /\ Has(WithChat(a, pc, chat), pc, chat, a.read)
         /\ Has(WithRead(a, pc, read), pc, a.chat, read)
         /\ Has(ReadWith(a, read, pc), pc, a.chat, read)
         /\ Has(WithAll(a, pc, chat, read), pc, chat, read)
         /\ Has(OneMore(a), a.pc, a.chat, a.read)
<1>1. PICK p \in Pcs, c \in Nat, n \in Nat, r \in Seq(Questions) :
        a = [pc |-> p, chat |-> c, attempt |-> n, read |-> r]
  BY DEF Asker, Pcs
<1>2. a.pc = p /\ a.chat = c /\ a.attempt = n /\ a.read = r
  BY <1>1
<1>3. [a EXCEPT !.pc = pc] = [pc |-> pc, chat |-> c, attempt |-> n, read |-> r]
  BY <1>1
<1>4. [[pc |-> pc, chat |-> c, attempt |-> n, read |-> r] EXCEPT !.chat = chat]
        = [pc |-> pc, chat |-> chat, attempt |-> n, read |-> r]
  OBVIOUS
<1>5. [[pc |-> pc, chat |-> c, attempt |-> n, read |-> r] EXCEPT !.read = read]
        = [pc |-> pc, chat |-> c, attempt |-> n, read |-> read]
  OBVIOUS
<1>6. [[pc |-> pc, chat |-> chat, attempt |-> n, read |-> r] EXCEPT !.read = read]
        = [pc |-> pc, chat |-> chat, attempt |-> n, read |-> read]
  OBVIOUS
<1>7. [[a EXCEPT !.read = read] EXCEPT !.pc = pc] = [pc |-> pc, chat |-> c, attempt |-> n, read |-> read]
  <2>1. [a EXCEPT !.read = read] = [pc |-> p, chat |-> c, attempt |-> n, read |-> read]
    BY <1>1
  <2>2. [[pc |-> p, chat |-> c, attempt |-> n, read |-> read] EXCEPT !.pc = pc]
          = [pc |-> pc, chat |-> c, attempt |-> n, read |-> read]
    OBVIOUS
  <2>3. QED
    BY <2>1, <2>2
<1>8. [a EXCEPT !.attempt = a.attempt + 1] = [pc |-> p, chat |-> c, attempt |-> n + 1, read |-> r]
  BY <1>1
<1>9. \A x \in Pcs, y \in Nat, z \in Nat, u \in Seq(Questions) :
        Has([pc |-> x, chat |-> y, attempt |-> z, read |-> u], x, y, u)
  BY DEF Has, Asker, Pcs
<1>10. WithPc(a, pc) = [pc |-> pc, chat |-> c, attempt |-> n, read |-> r]
  BY <1>3 DEF WithPc
<1>11. WithChat(a, pc, chat) = [pc |-> pc, chat |-> chat, attempt |-> n, read |-> r]
  BY <1>3, <1>4 DEF WithChat
<1>12. WithRead(a, pc, read) = [pc |-> pc, chat |-> c, attempt |-> n, read |-> read]
  BY <1>3, <1>5 DEF WithRead
<1>13. ReadWith(a, read, pc) = [pc |-> pc, chat |-> c, attempt |-> n, read |-> read]
  BY <1>7 DEF ReadWith
<1>14. WithAll(a, pc, chat, read) = [pc |-> pc, chat |-> chat, attempt |-> n, read |-> read]
  BY <1>3, <1>4, <1>6 DEF WithAll
<1>15. OneMore(a) = [pc |-> p, chat |-> c, attempt |-> n + 1, read |-> r]
  BY <1>2, <1>8 DEF OneMore
<1>16. n + 1 \in Nat
  OBVIOUS
<1>17. Has(WithPc(a, pc), pc, c, r)
  BY <1>9, <1>10
<1>18. Has(WithChat(a, pc, chat), pc, chat, r)
  BY <1>9, <1>11
<1>19. Has(WithRead(a, pc, read), pc, c, read)
  BY <1>9, <1>12
<1>20. Has(ReadWith(a, read, pc), pc, c, read)
  BY <1>9, <1>13
<1>21. Has(WithAll(a, pc, chat, read), pc, chat, read)
  BY <1>9, <1>14
<1>22. Has(OneMore(a), p, c, r)
  BY <1>9, <1>15, <1>16
<1>23. QED
  BY <1>2, <1>17, <1>18, <1>19, <1>20, <1>21, <1>22

(* One question's record changes. *)
LEMMA RecordSet ==
  ASSUME ChatTypes, NEW q \in Questions, NEW pc, NEW chat, NEW read, NEW new,
         Has(new, pc, chat, read), asker' = [asker EXCEPT ![q] = new]
  PROVE  Moved(q, pc, chat, read)
<1>1. asker \in [Questions -> Asker] /\ new \in Asker /\ new.pc = pc /\ new.chat = chat /\ new.read = read
  BY DEF ChatTypes, Has
<1>2. Moved(q, new.pc, new.chat, new.read)
  BY <1>1, OneMoves
<1>3. QED
  BY <1>1, <1>2

LEMMA AskerTyped ==
  ASSUME ChatTypes, NEW q \in Questions
  PROVE  /\ asker[q] \in Asker /\ asker[q].chat \in Nat /\ asker[q].read \in Seq(Questions) /\ asker[q].pc \in Pcs
         /\ SourceOf[q] \in GroupIds
BY ChatAssumption DEF ChatTypes, Asker, Pcs

LEMMA PcSet == ASSUME ChatTypes, NEW q \in Questions, NEW pc \in Pcs, AskerTo(q, pc) PROVE Stays(q, pc)
<1>1. asker' = [asker EXCEPT ![q] = WithPc(asker[q], pc)]
  BY DEF AskerTo, WithPc
<1>2. asker[q] \in Asker /\ asker[q].chat \in Nat /\ asker[q].read \in Seq(Questions)
  BY AskerTyped
<1>3. Has(WithPc(asker[q], pc), pc, asker[q].chat, asker[q].read)
  BY <1>2, FieldsSet
<1>4. QED
  BY <1>1, <1>3, RecordSet DEF Stays

LEMMA IdleSet ==
  ASSUME ChatTypes, NEW q \in Questions, NEW pc \in Pcs, asker' = [asker EXCEPT ![q] = Idle(pc)]
  PROVE  Moved(q, pc, 0, <<>>)
<1>1. Has(Idle(pc), pc, 0, <<>>)
  BY DEF Has, Idle, Asker, Pcs
<1>2. QED
  BY <1>1, RecordSet

LEMMA LookUpMoves ==
  ASSUME ChatTypes, NEW q \in Questions, LookUp(q)
  PROVE  Moved(q, IF cached[SourceOf[q]] = 0 THEN "load" ELSE "send", cached[SourceOf[q]], asker[q].read)
<1> DEFINE c == cached[SourceOf[q]]
           pc == IF c = 0 THEN "load" ELSE "send"
<1>1. asker' = [asker EXCEPT ![q] = WithChat(asker[q], pc, c)]
  BY DEF LookUp, WithChat
<1>2. c \in Nat
  <2>1. c \in {0} \cup DOMAIN sessions /\ sessions \in Seq(Session)
    BY AskerTyped DEF ChatTypes
  <2>2. QED
    BY <2>1
<1>3. pc \in Pcs
  BY DEF Pcs, Unsent, Asking
<1> HIDE DEF c, pc
<1>4. asker[q] \in Asker /\ asker[q].read \in Seq(Questions)
  BY AskerTyped
<1>5. Has(WithChat(asker[q], pc, c), pc, c, asker[q].read)
  BY <1>2, <1>3, <1>4, FieldsSet
<1>6. Moved(q, pc, c, asker[q].read)
  BY <1>1, <1>5, RecordSet
<1>7. QED
  BY <1>6 DEF c, pc

LEMMA ReadSet ==
  ASSUME ChatTypes, NEW q \in Questions, NEW pc \in Pcs, NEW read \in Seq(Questions),
         \/ asker' = [asker EXCEPT ![q].pc = pc, ![q].read = read]
         \/ asker' = [asker EXCEPT ![q].read = read, ![q].pc = pc]
  PROVE  Moved(q, pc, asker[q].chat, read)
<1>1. \/ asker' = [asker EXCEPT ![q] = WithRead(asker[q], pc, read)]
      \/ asker' = [asker EXCEPT ![q] = ReadWith(asker[q], read, pc)]
  BY DEF WithRead, ReadWith
<1>2. asker[q] \in Asker /\ asker[q].chat \in Nat
  BY AskerTyped
<1>3. /\ Has(WithRead(asker[q], pc, read), pc, asker[q].chat, read)
      /\ Has(ReadWith(asker[q], read, pc), pc, asker[q].chat, read)
  BY <1>2, FieldsSet
<1>4. QED
  BY <1>1, <1>3, RecordSet

LEMMA LoadMoves ==
  ASSUME ChatTypes, NEW q \in Questions, LoadHistory(q) PROVE Moved(q, "create", asker[q].chat, saved[SourceOf[q]])
<1>1. "create" \in Pcs /\ saved[SourceOf[q]] \in Seq(Questions)
  BY AskerTyped DEF ChatTypes, Pcs, Unsent, Asking
<1>2. QED
  BY <1>1, ReadSet DEF LoadHistory

LEMMA ShowMoves ==
  ASSUME ChatTypes, NEW q \in Questions, LoadDisplay(q) PROVE Moved(q, "append", asker[q].chat, bubbles[SourceOf[q]])
<1>1. "append" \in Pcs /\ bubbles[SourceOf[q]] \in Seq(Questions)
  BY AskerTyped DEF ChatTypes, Pcs, Storing
<1>2. QED
  BY <1>1, ReadSet DEF LoadDisplay

LEMMA DumpMoves ==
  ASSUME ChatTypes, NEW q \in Questions, DumpHistory(q)
  PROVE  Moved(q, IF asker[q].pc = "dump" THEN "save" ELSE "saveEmpty", asker[q].chat, sessions[asker[q].chat].turns)
<1> DEFINE read == sessions[asker[q].chat].turns
           pc == IF asker[q].pc = "dump" THEN "save" ELSE "saveEmpty"
<1>1. asker[q].chat \in DOMAIN sessions
  BY DEF DumpHistory, ChatTypes, Turning, Storing
<1>2. read \in Seq(Questions)
  <2>1. sessions[asker[q].chat] \in Session
    BY <1>1 DEF ChatTypes
  <2>2. QED
    BY <2>1 DEF Session
<1>3. pc \in Pcs
  BY DEF Pcs, Storing
<1>4. asker' = [asker EXCEPT ![q].read = read, ![q].pc = pc]
  BY DEF DumpHistory
<1> HIDE DEF read, pc
<1>5. Moved(q, pc, asker[q].chat, read)
  BY <1>2, <1>3, <1>4, ReadSet
<1>6. QED
  BY <1>5 DEF pc, read

LEMMA ErrorMoves ==
  ASSUME ChatTypes, NEW q \in Questions, ServerError(q) PROVE Stays(q, "send")
<1>1. asker' = [asker EXCEPT ![q] = OneMore(asker[q])]
  BY DEF ServerError, OneMore
<1>2. asker[q] \in Asker /\ asker[q].chat \in Nat /\ asker[q].read \in Seq(Questions) /\ asker[q].pc \in Pcs
  BY AskerTyped
<1>3. Has(OneMore(asker[q]), asker[q].pc, asker[q].chat, asker[q].read)
  BY <1>2, FieldsSet
<1>4. asker[q].pc = "send"
  BY DEF ServerError, AskerAt
<1>5. QED
  BY <1>1, <1>3, <1>4, RecordSet DEF Stays

(* A session is opened with the turns that were read, and cached. *)
Opens(q) ==
  LET n == Len(sessions')
  IN  /\ n \in Nat \ {0} /\ n \notin DOMAIN sessions /\ sessions' \in Seq(Session)
      /\ DOMAIN sessions' = DOMAIN sessions \cup {n} /\ \A i \in DOMAIN sessions : sessions'[i] = sessions[i]
      /\ sessions'[n].turns = asker[q].read /\ sessions'[n].think = thinking
      /\ cached' = [cached EXCEPT ![SourceOf[q]] = n]
      /\ Moved(q, "send", n, <<>>)

LEMMA CreateMoves ==
  ASSUME ChatTypes, NEW q \in Questions, CreateSession(q)
  PROVE  Opens(q) \/ (Stays(q, "error") /\ sessions' = sessions /\ cached' = cached)
<1>1. CASE AskerTo(q, "error") /\ UNCHANGED <<sessions, cached>>
  <2>1. "error" \in Pcs
    BY DEF Pcs, Over
  <2>2. QED
    BY <1>1, <2>1, PcSet
<1>2. CASE /\ sessions' = Append(sessions, [turns |-> asker[q].read, think |-> thinking])
           /\ cached' = [cached EXCEPT ![SourceOf[q]] = Len(sessions')]
           /\ asker' = [asker EXCEPT ![q].pc = "send", ![q].chat = Len(sessions'), ![q].read = <<>>]
  <2> DEFINE n == Len(sessions')
             new == [turns |-> asker[q].read, think |-> thinking]
  <2>1. new \in Session /\ new.turns = asker[q].read /\ new.think = thinking /\ sessions \in Seq(Session)
    BY AskerTyped DEF Session, ChatTypes
  <2>2. sessions' = Append(sessions, new)
    BY <1>2
  <2> HIDE DEF new
  <2>3. /\ sessions' \in Seq(Session) /\ n \in Nat \ {0} /\ n \notin DOMAIN sessions
        /\ DOMAIN sessions' = DOMAIN sessions \cup {n}
        /\ sessions'[n] = new /\ \A i \in DOMAIN sessions : sessions'[i] = sessions[i]
    BY <2>1, <2>2, SessionOpened
  <2>4. asker' = [asker EXCEPT ![q] = WithAll(asker[q], "send", n, <<>>)]
    BY <1>2 DEF WithAll
  <2>5. "send" \in Pcs /\ <<>> \in Seq(Questions) /\ asker[q] \in Asker
    BY AskerTyped DEF Pcs, Unsent, Asking
  <2> HIDE DEF n
  <2>6. Has(WithAll(asker[q], "send", n, <<>>), "send", n, <<>>)
    BY <2>3, <2>5, FieldsSet
  <2>7. Moved(q, "send", n, <<>>)
    BY <2>4, <2>6, RecordSet
  <2>8. QED
    BY <1>2, <2>1, <2>3, <2>7 DEF Opens, n
<1>3. QED
  BY <1>1, <1>2 DEF CreateSession

(* The session of q has its turn. *)
Turns1(q) ==
  LET c == asker[q].chat
  IN  /\ c \in DOMAIN sessions /\ sessions' \in Seq(Session) /\ DOMAIN sessions' = DOMAIN sessions
      /\ \A i \in DOMAIN sessions \ {c} : sessions'[i] = sessions[i]
      /\ sessions'[c].turns = Append(sessions[c].turns, q) /\ sessions'[c].think = sessions[c].think
      /\ sessions[c].turns \in Seq(Questions)

LEMMA SentMoves ==
  ASSUME ChatTypes, NEW q \in Questions, Sent(q)
  PROVE  Turns1(q) /\ (Stays(q, "dump") \/ Stays(q, "dumpEmpty"))
<1>1. asker[q].chat \in DOMAIN sessions /\ sessions \in Seq(Session)
  BY DEF Sent, AskerAt, ChatTypes, Turning
<1>2. sessions[asker[q].chat].turns \in Seq(Questions)
  <2>1. sessions[asker[q].chat] \in Session
    BY <1>1
  <2>2. QED
    BY <2>1 DEF Session
<1>3. sessions' = [sessions EXCEPT ![asker[q].chat].turns = Append(@, q)]
  BY DEF Sent
<1>4. "dump" \in Pcs /\ "dumpEmpty" \in Pcs
  BY DEF Pcs, Storing
<1>5. Stays(q, "dump") \/ Stays(q, "dumpEmpty")
  BY <1>4, PcSet DEF Sent
<1>6. QED
  BY <1>1, <1>2, <1>3, <1>5, SessionTurns DEF Turns1

LEMMA FailureMoves == ASSUME ChatTypes, NEW q \in Questions, Fails(q) PROVE Stays(q, "error")
<1>1. "error" \in Pcs
  BY DEF Pcs, Over
<1>2. QED
  BY <1>1, PcSet DEF Fails

LEMMA AskMoves == ASSUME ChatTypes, NEW q \in Questions, AskQuestion(q) PROVE Stays(q, "lookup")
<1>1. "lookup" \in Pcs
  BY DEF Pcs, Unsent, Asking
<1>2. QED
  BY <1>1, PcSet DEF AskQuestion

LEMMA RejectedMoves ==
  ASSUME ChatTypes, NEW q \in Questions, ThinkingRejected(q)
  PROVE  IF thinking THEN Moved(q, "lookup", 0, <<>>) ELSE Stays(q, "rejected")
<1>1. "lookup" \in Pcs /\ "rejected" \in Pcs
  BY DEF Pcs, Unsent, Asking, Over
<1>2. QED
  BY <1>1, PcSet, IdleSet DEF ThinkingRejected

Saves(q) ==
  /\ saved' = [saved EXCEPT ![SourceOf[q]] = asker[q].read]
  /\ \/ AskerAt(q, "save") /\ Stays(q, "show")
     \/ AskerAt(q, "saveEmpty") /\ Stays(q, "error")

LEMMA SaveMoves ==
  ASSUME ChatTypes, NEW q \in Questions, SaveHistory(q) PROVE Saves(q) \/ (Stays(q, "died") /\ saved' = saved)
<1>1. "show" \in Pcs /\ "error" \in Pcs /\ "died" \in Pcs
  BY DEF Pcs, Storing, Over
<1>2. CASE AskerTo(q, "died") /\ UNCHANGED saved
  BY <1>1, <1>2, PcSet
<1>3. CASE saved' = [saved EXCEPT ![SourceOf[q]] = asker[q].read]
           /\ AskerTo(q, IF AskerAt(q, "save") THEN "show" ELSE "error")
  <2>1. CASE AskerAt(q, "save")
    BY <1>1, <1>3, <2>1, PcSet DEF Saves
  <2>2. CASE AskerAt(q, "saveEmpty")
    <3>1. ~AskerAt(q, "save")
      BY <2>2 DEF AskerAt
    <3>2. QED
      BY <1>1, <1>3, <2>2, <3>1, PcSet DEF Saves
  <2>3. QED
    BY <2>1, <2>2 DEF SaveHistory, AskerAt
<1>4. QED
  BY <1>2, <1>3 DEF SaveHistory

LEMMA AppendMoves == ASSUME ChatTypes, NEW q \in Questions, AppendDisplay(q) PROVE Stays(q, "ok")
<1>1. "ok" \in Pcs
  BY DEF Pcs, Over
<1>2. QED
  BY <1>1, PcSet DEF AppendDisplay

(* A restart ends what is in work. *)
LEMMA RestartMoves ==
  ASSUME ChatTypes, RestartDashboard
  PROVE  /\ asker' \in [Questions -> Asker] /\ sessions' = <<>> /\ DOMAIN sessions' = {} /\ thinking' = TRUE
         /\ cached' = [s \in GroupIds |-> 0]
         /\ \A q \in Questions : /\ asker'[q].pc = IF q \in InWork THEN "died" ELSE asker[q].pc
                                 /\ asker'[q].read = <<>> /\ q \notin InWork'
<1>1. asker' = [q \in Questions |-> IF q \in InWork THEN Idle("died") ELSE Idle(asker[q].pc)]
  BY DEF RestartDashboard
<1>2. \A q \in Questions : asker[q].pc \in Pcs
  BY AskerTyped
<1>3. \A pc \in Pcs : Idle(pc) \in Asker /\ Idle(pc).pc = pc /\ Idle(pc).read = <<>>
  BY DEF Idle, Asker, Pcs
<1>4. "died" \in Pcs
  BY DEF Pcs, Over
<1>5. \A q \in Questions : /\ asker'[q].pc = IF q \in InWork THEN "died" ELSE asker[q].pc
                           /\ asker'[q].read = <<>> /\ asker'[q] \in Asker
  BY <1>1, <1>2, <1>3, <1>4
<1>6. \A q \in Questions : q \notin InWork'
  BY <1>5 DEF InWork
<1>7. QED
  BY <1>1, <1>5, <1>6 DEF RestartDashboard

-----------------------------------------------------------------------------
(* A question's step touches what is its own and its source's. *)

Step(q) == AskQuestion(q) \/ Answering(q)

Grows == \A i \in DOMAIN sessions : /\ i \in DOMAIN sessions' /\ sessions'[i].think = sessions[i].think
                                    /\ \A r \in Questions : Holds(sessions[i].turns, r) => Holds(sessions'[i].turns, r)

Framed(q) ==
  /\ Others(q) /\ Grows /\ rejects' = rejects /\ met \subseteq met'
  /\ \A s \in GroupIds \ {SourceOf[q]} :
       cached'[s] = cached[s] /\ saved'[s] = saved[s] /\ bubbles'[s] = bubbles[s]

LEMMA SessionsGrow == ASSUME NEW q \in Questions, sessions' = sessions \/ Opens(q) \/ Turns1(q) PROVE Grows
<1>1. CASE Turns1(q)
  <2> DEFINE c == asker[q].chat
  <2>1. sessions[c].turns \in Seq(Questions) /\ sessions'[c].turns = Append(sessions[c].turns, q)
    BY <1>1 DEF Turns1
  <2>2. \A r \in Questions : Holds(sessions[c].turns, r) => Holds(sessions'[c].turns, r)
    BY <2>1, OneTurnMore
  <2>3. QED
    BY <1>1, <2>2 DEF Turns1, Grows
<1>2. CASE Opens(q)
  BY <1>2 DEF Opens, Grows
<1>3. QED
  BY <1>1, <1>2 DEF Grows

LEMMA StepFramed == ASSUME ChatTypes, NEW q \in Questions, Step(q) PROVE Framed(q)
<1>1. Others(q)
  BY AskMoves, LookUpMoves, LoadMoves, CreateMoves, SentMoves, ErrorMoves, FailureMoves, RejectedMoves, DumpMoves,
     SaveMoves, ShowMoves, AppendMoves DEF Step, Answering, Opens, Saves, Stays, Moved
<1>2. sessions' = sessions \/ Opens(q) \/ Turns1(q)
  BY CreateMoves, SentMoves
     DEF Step, Answering, AskQuestion, LookUp, LoadHistory, ServerError, Fails, ThinkingRejected, DumpHistory,
         SaveHistory, LoadDisplay, AppendDisplay, Process, Disk, Books
<1>3. rejects' = rejects /\ met \subseteq met'
  BY DEF Step, Answering, AskQuestion, LookUp, LoadHistory, CreateSession, Sent, ServerError, Fails,
         ThinkingRejected, DumpHistory, SaveHistory, LoadDisplay, AppendDisplay, Process, Disk, Books
<1>4. ASSUME NEW s \in GroupIds \ {SourceOf[q]}
      PROVE  cached'[s] = cached[s] /\ saved'[s] = saved[s] /\ bubbles'[s] = bubbles[s]
  BY <1>4 DEF ChatTypes, Step, Answering, AskQuestion, LookUp, LoadHistory, CreateSession, Sent, ServerError, Fails,
         ThinkingRejected, DumpHistory, SaveHistory, LoadDisplay, AppendDisplay, Process, Disk, Books
<1>5. QED
  BY <1>1, <1>2, <1>3, <1>4, SessionsGrow DEF Framed

LEMMA TypesKept ==
  ASSUME ChatTypes, NEW q \in Questions, NEW pc, NEW chat, NEW read, Moved(q, pc, chat, read), Grows,
         rejects' = rejects, thinking' \in BOOLEAN, sessions' \in Seq(Session),
         cached' \in [GroupIds -> {0} \cup DOMAIN sessions'], saved' \in [GroupIds -> Seq(Questions)],
         bubbles' \in [GroupIds -> Seq(Questions)], answered' \in Seq(Questions),
         pc \in Turning => chat \in DOMAIN sessions'
  PROVE  ChatTypes'
<1>1. ASSUME NEW r \in Questions, asker'[r].pc \in Turning PROVE asker'[r].chat \in DOMAIN sessions'
  <2>1. CASE r = q
    BY <1>1, <2>1 DEF Moved
  <2>2. CASE r # q
    BY <1>1, <2>2 DEF Moved, Others, ChatTypes, Grows
  <2>3. QED
    BY <2>1, <2>2
<1>2. QED
  BY <1>1 DEF ChatTypes, Moved

LEMMA StepTypes == ASSUME ChatTypes, NEW q \in Questions, Step(q) PROVE ChatTypes'
<1>1. /\ Grows /\ rejects' = rejects /\ SourceOf[q] \in GroupIds
  BY StepFramed, AskerTyped DEF Framed
<1>2. /\ sessions \in Seq(Session) /\ thinking \in BOOLEAN /\ cached \in [GroupIds -> {0} \cup DOMAIN sessions]
      /\ saved \in [GroupIds -> Seq(Questions)] /\ bubbles \in [GroupIds -> Seq(Questions)]
      /\ answered \in Seq(Questions) /\ asker[q].read \in Seq(Questions)
      /\ asker[q].pc \in Turning => asker[q].chat \in DOMAIN sessions
  BY AskerTyped DEF ChatTypes
<1>3. CASE AskQuestion(q)
  <2>1. Moved(q, "lookup", asker[q].chat, asker[q].read)
    BY <1>3, AskMoves DEF Stays
  <2>2. QED
    BY <1>1, <1>2, <1>3, <2>1, TypesKept DEF AskQuestion, Process, Disk, Turning, Storing
<1>4. CASE LookUp(q)
  <2> DEFINE c == cached[SourceOf[q]]
             pc == IF c = 0 THEN "load" ELSE "send"
  <2>1. Moved(q, pc, c, asker[q].read)
    BY <1>4, LookUpMoves
  <2>2. c # 0 => c \in DOMAIN sessions
    BY <1>1, <1>2
  <2>3. pc \in Turning => c # 0
    BY DEF Turning, Storing
  <2> HIDE DEF c, pc
  <2>4. UNCHANGED <<thinking, sessions, cached, saved, bubbles, answered>>
    BY <1>4 DEF LookUp, Books, Process, Disk
  <2>5. QED
    BY <1>1, <1>2, <2>1, <2>2, <2>3, <2>4, TypesKept
<1>5. CASE LoadHistory(q)
  <2>1. Moved(q, "create", asker[q].chat, saved[SourceOf[q]])
    BY <1>5, LoadMoves
  <2>2. QED
    BY <1>1, <1>2, <1>5, <2>1, TypesKept DEF LoadHistory, Books, Process, Disk, Turning, Storing
<1>6. CASE CreateSession(q)
  <2>1. UNCHANGED <<thinking, saved, bubbles, answered>>
    BY <1>6 DEF CreateSession, Books, Disk
  <2>2. CASE Stays(q, "error") /\ sessions' = sessions /\ cached' = cached
    BY <1>1, <1>2, <2>1, <2>2, TypesKept DEF Stays, Turning, Storing
  <2>3. CASE Opens(q)
    <3> DEFINE n == Len(sessions')
    <3>1. Moved(q, "send", n, <<>>) /\ n \in DOMAIN sessions' /\ sessions' \in Seq(Session)
      BY <2>3 DEF Opens
    <3>2. cached' \in [GroupIds -> {0} \cup DOMAIN sessions']
      BY <1>2, <2>3 DEF Opens
    <3> HIDE DEF n
    <3>3. QED
      BY <1>1, <1>2, <2>1, <3>1, <3>2, TypesKept
  <2>4. QED
    BY <1>6, <2>2, <2>3, CreateMoves
<1>7. CASE Sent(q)
  <2>1. UNCHANGED <<thinking, cached, saved, bubbles, answered>>
    BY <1>7 DEF Sent, Books, Disk
  <2>2. PICK pc \in {"dump", "dumpEmpty"} : Moved(q, pc, asker[q].chat, asker[q].read)
    BY <1>7, SentMoves DEF Stays
  <2>3. sessions' \in Seq(Session) /\ DOMAIN sessions' = DOMAIN sessions /\ asker[q].chat \in DOMAIN sessions'
    BY <1>7, SentMoves DEF Turns1
  <2>4. QED
    BY <1>1, <1>2, <2>1, <2>2, <2>3, TypesKept
<1>8. CASE ServerError(q)
  <2>1. Moved(q, "send", asker[q].chat, asker[q].read) /\ asker[q].pc = "send"
    BY <1>8, ErrorMoves DEF Stays, ServerError, AskerAt
  <2>2. QED
    BY <1>1, <1>2, <1>8, <2>1, TypesKept DEF ServerError, Books, Process, Disk, Turning
<1>9. CASE Fails(q)
  <2>1. Moved(q, "error", asker[q].chat, asker[q].read)
    BY <1>9, FailureMoves DEF Stays
  <2>2. cached' \in [GroupIds -> {0} \cup DOMAIN sessions]
    BY <1>2, <1>9 DEF Fails
  <2>3. QED
    BY <1>1, <1>2, <1>9, <2>1, <2>2, TypesKept DEF Fails, Books, Disk, Turning, Storing
<1>10. CASE ThinkingRejected(q)
  <2>0. PICK pc \in {"lookup", "rejected"} : \E chat, read : Moved(q, pc, chat, read)
    BY <1>10, RejectedMoves DEF Stays
  <2>1. PICK chat, read : Moved(q, pc, chat, read)
    BY <2>0
  <2>2. cached' \in [GroupIds -> {0} \cup DOMAIN sessions]
    BY <1>2, <1>10 DEF ThinkingRejected
  <2>3. thinking' \in BOOLEAN
    BY <1>2, <1>10 DEF ThinkingRejected
  <2>4. QED
    BY <1>1, <1>2, <1>10, <2>1, <2>2, <2>3, TypesKept DEF ThinkingRejected, Books, Disk, Turning, Storing
<1>11. CASE DumpHistory(q)
  <2> DEFINE pc == IF asker[q].pc = "dump" THEN "save" ELSE "saveEmpty"
  <2>1. Moved(q, pc, asker[q].chat, sessions[asker[q].chat].turns) /\ asker[q].pc \in Turning
    BY <1>11, DumpMoves DEF DumpHistory, Turning, Storing
  <2> HIDE DEF pc
  <2>2. QED
    BY <1>1, <1>2, <1>11, <2>1, TypesKept DEF DumpHistory, Books, Process, Disk
<1>12. CASE SaveHistory(q)
  <2>1. PICK pc \in {"show", "error", "died"} : Moved(q, pc, asker[q].chat, asker[q].read)
    BY <1>12, SaveMoves DEF Saves, Stays
  <2>2. saved' \in [GroupIds -> Seq(Questions)]
    BY <1>2, <1>12, SaveMoves DEF Saves
  <2>3. asker[q].pc \in Turning
    BY <1>12 DEF SaveHistory, Turning, Storing
  <2>4. QED
    BY <1>1, <1>2, <1>12, <2>1, <2>2, <2>3, TypesKept DEF SaveHistory, Books, Process
<1>13. CASE LoadDisplay(q)
  <2>1. Moved(q, "append", asker[q].chat, bubbles[SourceOf[q]]) /\ asker[q].pc \in Turning
    BY <1>13, ShowMoves DEF LoadDisplay, AskerAt, Turning, Storing
  <2>2. QED
    BY <1>1, <1>2, <1>13, <2>1, TypesKept DEF LoadDisplay, Books, Process, Disk
<1>14. CASE AppendDisplay(q)
  <2>1. Moved(q, "ok", asker[q].chat, asker[q].read)
    BY <1>14, AppendMoves DEF Stays
  <2>2. Append(asker[q].read, q) \in Seq(Questions) /\ answered' \in Seq(Questions)
    BY <1>2, <1>14 DEF AppendDisplay
  <2>3. bubbles' \in [GroupIds -> Seq(Questions)]
    BY <1>2, <1>14, <2>2 DEF AppendDisplay
  <2>4. QED
    BY <1>1, <1>2, <1>14, <2>1, <2>2, <2>3, TypesKept DEF AppendDisplay, Process, Turning, Storing
<1>15. QED
  BY <1>3, <1>4, <1>5, <1>6, <1>7, <1>8, <1>9, <1>10, <1>11, <1>12, <1>13, <1>14 DEF Step, Answering

(* Who takes a step is in work, or just asked. *)
LEMMA AskerWorks ==
  ASSUME NEW q \in Questions, Step(q)
  PROVE  (q \in InWork /\ asker[q].pc # "unasked") \/ (AskQuestion(q) /\ asker[q].pc = "unasked")
BY DEF Step, Answering, AskQuestion, LookUp, LoadHistory, CreateSession, Sent, ServerError, Fails,
       ThinkingRejected, DumpHistory, SaveHistory, LoadDisplay, AppendDisplay, AskerAt, InWork

(* Who else is in work has met it. *)
LEMMA OthersMet ==
  ASSUME Meet, ChatTypes, NEW q \in Questions, Step(q), NEW r \in InWork, r # q
  PROVE  {q, r} \in met'
<1>1. CASE q \in InWork
  BY <1>1, StepFramed DEF Framed, Meet
<1>2. CASE AskQuestion(q)
  BY <1>2 DEF AskQuestion
<1>3. QED
  BY <1>1, <1>2, AskerWorks

LEMMA StepMeets == ASSUME ChatTypes, Meet, NEW q \in Questions, Step(q) PROVE Meet'
<1> SUFFICES ASSUME NEW a \in InWork', NEW b \in InWork', a # b PROVE {a, b} \in met'
  BY DEF Meet
<1>1. \A r \in InWork' : r # q => r \in InWork
  BY StepFramed DEF Framed, Others, InWork
<1>2. CASE a = q
  BY <1>1, <1>2, OthersMet
<1>3. CASE b = q
  <2>1. {b, a} = {a, b}
    OBVIOUS
  <2>2. QED
    BY <1>1, <1>3, <2>1, OthersMet
<1>4. CASE a # q /\ b # q
  BY <1>1, <1>4, StepFramed DEF Framed, Meet
<1>5. QED
  BY <1>2, <1>3, <1>4

-----------------------------------------------------------------------------
(* Nothing twice, and nothing too early *)

(* A step that writes nothing, and reads what is written. *)
LEMMA ReadsKeepWritten ==
  ASSUME ChatTypes, Written, NEW q \in Questions, NEW pc, NEW chat, NEW read, Moved(q, pc, chat, read),
         UNCHANGED <<sessions, saved, bubbles, answered>>,
         asker[q].pc # "ok", pc \in Unsent => asker[q].pc \in Unsent, OnlyOnce(read),
         \A r \in Questions : Holds(read, r) => asker[r].pc \notin Unsent,
         \A r \in Questions : pc = "append" /\ Holds(read, r) => Holds(answered, r)
  PROVE  Written'
<1>1. sessions' = sessions /\ saved' = saved /\ bubbles' = bubbles /\ answered' = answered
  OBVIOUS
<1>2. /\ \A r \in Questions \ {q} : asker'[r] = asker[r]
      /\ asker'[q].pc = pc /\ asker'[q].read = read
  BY DEF Moved, Others
<1>3. \A r \in Questions : asker'[r].pc \in Unsent => asker[r].pc \in Unsent
  BY <1>2
<1>4. ASSUME NEW r \in Questions, asker'[r].pc \in Unsent PROVE Unwritten(r)'
  <2>1. Unwritten(r) /\ ~Holds(read, r)
    BY <1>3, <1>4 DEF Written
  <2>2. QED
    BY <1>1, <1>2, <2>1 DEF Unwritten
<1>5. ASSUME NEW r \in Questions PROVE (Holds(answered', r) => asker'[r].pc = "ok") /\ OnlyOnce(asker'[r].read)
  BY <1>1, <1>2 DEF Written
<1>6. ASSUME NEW r \in Questions, NEW a \in Questions, asker'[a].pc = "append", Holds(asker'[a].read, r)
      PROVE  Holds(answered', r)
  <2>1. CASE a = q
    BY <1>1, <1>2, <1>6, <2>1
  <2>2. CASE a # q
    BY <1>1, <1>2, <1>6, <2>2 DEF Written, AskerAt
  <2>3. QED
    BY <2>1, <2>2
<1>7. QED
  BY <1>1, <1>4, <1>5, <1>6 DEF Written, AskerAt

(* What a question has read is written, or nothing. *)
LEMMA ReadIsWritten ==
  ASSUME Written, NEW q \in Questions
  PROVE  OnlyOnce(asker[q].read) /\ \A r \in Questions : Holds(asker[q].read, r) => asker[r].pc \notin Unsent
BY DEF Written, Unwritten

LEMMA SessionIsWritten ==
  ASSUME Written, NEW i \in DOMAIN sessions
  PROVE  OnlyOnce(sessions[i].turns) /\ \A r \in Questions : Holds(sessions[i].turns, r) => asker[r].pc \notin Unsent
BY DEF Written, Unwritten

LEMMA SourceIsWritten ==
  ASSUME Written, NEW s \in GroupIds
  PROVE  /\ OnlyOnce(saved[s]) /\ \A r \in Questions : Holds(saved[s], r) => asker[r].pc \notin Unsent
         /\ OnlyOnce(bubbles[s])
         /\ \A r \in Questions : Holds(bubbles[s], r) => Holds(answered, r) /\ asker[r].pc = "ok"
BY DEF Written, Unwritten

LEMMA OpensKeepWritten ==
  ASSUME ChatTypes, Written, NEW q \in Questions, AskerAt(q, "create"), Opens(q), UNCHANGED <<saved, bubbles, answered>>
  PROVE  Written'
<1> DEFINE n == Len(sessions')
<1>1. /\ DOMAIN sessions' = DOMAIN sessions \cup {n} /\ \A i \in DOMAIN sessions : sessions'[i] = sessions[i]
      /\ sessions'[n].turns = asker[q].read
      /\ \A r \in Questions \ {q} : asker'[r] = asker[r]
      /\ asker'[q].pc = "send" /\ asker'[q].read = <<>> /\ asker[q].pc = "create"
  BY DEF Opens, Moved, Others, AskerAt
<1> HIDE DEF n
<1>2. \A r \in Questions : asker'[r].pc \in Unsent => asker[r].pc \in Unsent
  BY <1>1 DEF Unsent, Asking
<1>3. ASSUME NEW r \in Questions, asker'[r].pc \in Unsent PROVE Unwritten(r)'
  <2>1. Unwritten(r) /\ ~Holds(asker[q].read, r) /\ ~Holds(<<>>, r)
    BY <1>2, <1>3, NoTurn DEF Written, Unwritten
  <2>2. QED
    BY <1>1, <2>1 DEF Unwritten
<1>4. ASSUME NEW r \in Questions PROVE (Holds(answered', r) => asker'[r].pc = "ok") /\ OnlyOnce(asker'[r].read)
  BY <1>1, NoTurn DEF Written
<1>5. \A i \in DOMAIN sessions' : OnlyOnce(sessions'[i].turns)
  BY <1>1 DEF Written
<1>6. ASSUME NEW r \in Questions, NEW a \in Questions, asker'[a].pc = "append", Holds(asker'[a].read, r)
      PROVE  Holds(answered', r)
  <2>1. a # q
    BY <1>1, <1>6
  <2>2. QED
    BY <1>1, <1>6, <2>1 DEF Written, AskerAt
<1>7. QED
  BY <1>3, <1>4, <1>5, <1>6 DEF Written, AskerAt

LEMMA SentKeepsWritten ==
  ASSUME ChatTypes, Written, NEW q \in Questions, AskerAt(q, "send"), Turns1(q), Stays(q, "dump") \/ Stays(q, "dumpEmpty"),
         UNCHANGED <<saved, bubbles, answered>>
  PROVE  Written'
<1> DEFINE c == asker[q].chat
<1>1. /\ c \in DOMAIN sessions /\ DOMAIN sessions' = DOMAIN sessions /\ sessions[c].turns \in Seq(Questions)
      /\ \A i \in DOMAIN sessions \ {c} : sessions'[i] = sessions[i]
      /\ sessions'[c].turns = Append(sessions[c].turns, q)
      /\ \A r \in Questions \ {q} : asker'[r] = asker[r]
      /\ asker'[q].pc \in {"dump", "dumpEmpty"} /\ asker'[q].read = asker[q].read
  BY DEF Turns1, Stays, Moved, Others
<1>2. Unwritten(q) /\ asker[q].pc = "send"
  BY DEF Written, AskerAt, Unsent, Asking
<1>3. /\ \A r \in Questions : Holds(sessions'[c].turns, r) => Holds(sessions[c].turns, r) \/ r = q
      /\ OnlyOnce(sessions'[c].turns)
  BY <1>1, <1>2, OneTurnMore DEF Written, Unwritten
<1> HIDE DEF c
<1>4. \A r \in Questions : asker'[r].pc \in Unsent => asker[r].pc \in Unsent /\ r # q
  BY <1>1 DEF Unsent, Asking
<1>5. ASSUME NEW r \in Questions, asker'[r].pc \in Unsent PROVE Unwritten(r)'
  <2>1. Unwritten(r) /\ r # q
    BY <1>4, <1>5 DEF Written
  <2>2. QED
    BY <1>1, <1>3, <2>1 DEF Unwritten
<1>6. ASSUME NEW r \in Questions PROVE (Holds(answered', r) => asker'[r].pc = "ok") /\ OnlyOnce(asker'[r].read)
  BY <1>1, <1>2 DEF Written
<1>7. \A i \in DOMAIN sessions' : OnlyOnce(sessions'[i].turns)
  BY <1>1, <1>3 DEF Written
<1>8. ASSUME NEW r \in Questions, NEW a \in Questions, asker'[a].pc = "append", Holds(asker'[a].read, r)
      PROVE  Holds(answered', r)
  <2>1. a # q
    BY <1>1, <1>8
  <2>2. QED
    BY <1>1, <1>8, <2>1 DEF Written, AskerAt
<1>9. QED
  BY <1>5, <1>6, <1>7, <1>8 DEF Written, AskerAt

LEMMA SaveKeepsWritten ==
  ASSUME ChatTypes, Written, NEW q \in Questions, Saves(q), UNCHANGED <<sessions, bubbles, answered>>
  PROVE  Written'
<1>1. /\ saved' = [saved EXCEPT ![SourceOf[q]] = asker[q].read] /\ saved \in [GroupIds -> Seq(Questions)]
      /\ \A r \in Questions \ {q} : asker'[r] = asker[r]
      /\ asker'[q].pc \in {"show", "error"} /\ asker'[q].read = asker[q].read
      /\ asker[q].pc \in {"save", "saveEmpty"} /\ sessions' = sessions /\ bubbles' = bubbles /\ answered' = answered
  BY DEF Saves, Stays, Moved, Others, ChatTypes, AskerAt
<1>2. \A s \in GroupIds : saved'[s] = saved[s] \/ saved'[s] = asker[q].read
  BY <1>1
<1>3. \A r \in Questions : asker'[r].pc \in Unsent => asker[r].pc \in Unsent
  BY <1>1 DEF Unsent, Asking
<1>4. ASSUME NEW r \in Questions, asker'[r].pc \in Unsent PROVE Unwritten(r)'
  <2>1. Unwritten(r)
    BY <1>3, <1>4 DEF Written
  <2>2. QED
    BY <1>1, <1>2, <2>1 DEF Unwritten
<1>5. ASSUME NEW r \in Questions PROVE (Holds(answered', r) => asker'[r].pc = "ok") /\ OnlyOnce(asker'[r].read)
  BY <1>1 DEF Written
<1>6. \A s \in GroupIds : OnlyOnce(saved'[s])
  BY <1>2 DEF Written
<1>7. ASSUME NEW r \in Questions, NEW a \in Questions, asker'[a].pc = "append", Holds(asker'[a].read, r)
      PROVE  Holds(answered', r)
  <2>1. a # q
    BY <1>1, <1>7
  <2>2. QED
    BY <1>1, <1>7, <2>1 DEF Written, AskerAt
<1>8. QED
  BY <1>1, <1>4, <1>5, <1>6, <1>7 DEF Written, AskerAt

LEMMA AppendKeepsWritten ==
  ASSUME ChatTypes, Written, NEW q \in Questions, AppendDisplay(q) PROVE Written'
<1> DEFINE more == Append(asker[q].read, q)
<1>1. /\ bubbles' = [bubbles EXCEPT ![SourceOf[q]] = more] /\ bubbles \in [GroupIds -> Seq(Questions)]
      /\ \A r \in Questions \ {q} : asker'[r] = asker[r]
      /\ asker'[q].pc = "ok" /\ asker'[q].read = asker[q].read
      /\ asker[q].pc = "append" /\ sessions' = sessions /\ saved' = saved /\ answered' = Append(answered, q)
  BY AppendMoves DEF AppendDisplay, AskerAt, Stays, Moved, Others, ChatTypes, Process
<1>2. ~Holds(answered, q) /\ ~Holds(asker[q].read, q)
  BY <1>1 DEF Written, AskerAt
<1>3. asker[q].read \in Seq(Questions) /\ answered \in Seq(Questions)
  BY AskerTyped DEF ChatTypes
<1>4. /\ OnlyOnce(more) /\ \A r \in Questions : Holds(more, r) <=> Holds(asker[q].read, r) \/ r = q
      /\ \A r \in Questions : Holds(answered', r) <=> Holds(answered, r) \/ r = q
  BY <1>1, <1>2, <1>3, OneTurnMore DEF Written
<1> HIDE DEF more
<1>5. \A s \in GroupIds : bubbles'[s] = bubbles[s] \/ bubbles'[s] = more
  BY <1>1
<1>6. \A r \in Questions : asker'[r].pc \in Unsent => asker[r].pc \in Unsent
  BY <1>1 DEF Unsent, Asking
<1>7. ASSUME NEW r \in Questions, asker'[r].pc \in Unsent PROVE Unwritten(r)'
  <2>1. Unwritten(r)
    BY <1>6, <1>7 DEF Written
  <2>2. QED
    BY <1>1, <2>1 DEF Unwritten
<1>8. ASSUME NEW r \in Questions PROVE (Holds(answered', r) => asker'[r].pc = "ok") /\ OnlyOnce(asker'[r].read)
  BY <1>1, <1>4 DEF Written
<1>9. ASSUME NEW s \in GroupIds
      PROVE  OnlyOnce(bubbles'[s]) /\ \A r \in Questions : Holds(bubbles'[s], r) => Holds(answered', r)
  BY <1>1, <1>4, <1>5 DEF Written, AskerAt
<1>10. ASSUME NEW r \in Questions, NEW a \in Questions, asker'[a].pc = "append", Holds(asker'[a].read, r)
       PROVE  Holds(answered', r)
  <2>1. a # q
    BY <1>1, <1>10
  <2>2. QED
    BY <1>1, <1>4, <1>10, <2>1 DEF Written, AskerAt
<1>11. QED
  BY <1>1, <1>7, <1>8, <1>9, <1>10 DEF Written, AskerAt

(* Steps in which a question stays with what it has read. *)
LEMMA StaysKeepsWritten ==
  ASSUME ChatTypes, Written, NEW q \in Questions, NEW pc, Stays(q, pc), pc # "append", asker[q].pc # "ok",
         pc \in Unsent => asker[q].pc \in Unsent, UNCHANGED <<sessions, saved, bubbles, answered>>
  PROVE  Written'
BY ReadIsWritten, ReadsKeepWritten DEF Stays

LEMMA StepWritten == ASSUME ChatTypes, Written, NEW q \in Questions, Step(q) PROVE Written'
<1>1. CASE AskQuestion(q)
  BY <1>1, AskMoves, StaysKeepsWritten DEF AskQuestion, AskerAt, Process, Disk, Unsent
<1>2. CASE LookUp(q)
  <2> DEFINE pc == IF cached[SourceOf[q]] = 0 THEN "load" ELSE "send"
  <2>1. Moved(q, pc, cached[SourceOf[q]], asker[q].read)
    BY <1>2, LookUpMoves
  <2>2. asker[q].pc = "lookup" /\ UNCHANGED <<sessions, saved, bubbles, answered>> /\ pc # "append"
    BY <1>2 DEF LookUp, AskerAt, Books, Process, Disk
  <2>3. asker[q].pc \in Unsent
    BY <2>2 DEF Unsent, Asking
  <2> HIDE DEF pc
  <2>4. QED
    BY <2>1, <2>2, <2>3, ReadIsWritten, ReadsKeepWritten
<1>3. CASE LoadHistory(q)
  <2>1. Moved(q, "create", asker[q].chat, saved[SourceOf[q]])
    BY <1>3, LoadMoves
  <2>2. asker[q].pc = "load" /\ UNCHANGED <<sessions, saved, bubbles, answered>>
    BY <1>3 DEF LoadHistory, AskerAt, Books, Process, Disk
  <2>3. asker[q].pc \in Unsent
    BY <2>2 DEF Unsent, Asking
  <2>4. /\ OnlyOnce(saved[SourceOf[q]])
        /\ \A r \in Questions : Holds(saved[SourceOf[q]], r) => asker[r].pc \notin Unsent
    BY AskerTyped, SourceIsWritten
  <2>5. QED
    BY <2>1, <2>2, <2>3, <2>4, ReadsKeepWritten
<1>4. CASE CreateSession(q)
  <2>1. AskerAt(q, "create") /\ UNCHANGED <<saved, bubbles, answered>>
    BY <1>4 DEF CreateSession, Books, Disk
  <2>2. CASE Opens(q)
    BY <2>1, <2>2, OpensKeepWritten
  <2>3. CASE Stays(q, "error") /\ sessions' = sessions
    BY <2>1, <2>3, StaysKeepsWritten DEF AskerAt, Unsent, Asking
  <2>4. QED
    BY <1>4, <2>2, <2>3, CreateMoves
<1>5. CASE Sent(q)
  <2>1. AskerAt(q, "send") /\ UNCHANGED <<saved, bubbles, answered>>
    BY <1>5 DEF Sent, Books, Disk
  <2>2. QED
    BY <1>5, <2>1, SentMoves, SentKeepsWritten
<1>6. CASE ServerError(q)
  <2>1. asker[q].pc = "send" /\ "send" \in Unsent
    BY <1>6 DEF ServerError, AskerAt, Unsent, Asking
  <2>2. QED
    BY <1>6, <2>1, ErrorMoves, StaysKeepsWritten DEF ServerError, Books, Process, Disk
<1>7. CASE Fails(q)
  BY <1>7, FailureMoves, StaysKeepsWritten DEF Fails, AskerAt, Books, Disk, Unsent, Asking
<1>8. CASE ThinkingRejected(q)
  <2>1. asker[q].pc = "send" /\ UNCHANGED <<sessions, saved, bubbles, answered>>
    BY <1>8 DEF ThinkingRejected, AskerAt, Books, Disk
  <2>2. CASE Stays(q, "rejected")
    BY <2>1, <2>2, StaysKeepsWritten DEF Unsent, Asking
  <2>3. CASE Moved(q, "lookup", 0, <<>>)
    <3>1. asker[q].pc \in Unsent
      BY <2>1 DEF Unsent, Asking
    <3>2. QED
      BY <2>1, <2>3, <3>1, NoTurn, ReadsKeepWritten
  <2>4. QED
    BY <1>8, <2>2, <2>3, RejectedMoves
<1>9. CASE DumpHistory(q)
  <2> DEFINE pc == IF asker[q].pc = "dump" THEN "save" ELSE "saveEmpty"
             c == asker[q].chat
  <2>1. Moved(q, pc, c, sessions[c].turns)
    BY <1>9, DumpMoves
  <2>2. asker[q].pc # "ok" /\ UNCHANGED <<sessions, saved, bubbles, answered>> /\ c \in DOMAIN sessions
    BY <1>9 DEF DumpHistory, ChatTypes, Turning, Storing, Books, Process, Disk
  <2>3. pc # "append" /\ pc \notin Unsent
    BY DEF Unsent, Asking
  <2> HIDE DEF pc, c
  <2>4. OnlyOnce(sessions[c].turns) /\ \A r \in Questions : Holds(sessions[c].turns, r) => asker[r].pc \notin Unsent
    BY <2>2, SessionIsWritten
  <2>5. QED
    BY <2>1, <2>2, <2>3, <2>4, ReadsKeepWritten
<1>10. CASE SaveHistory(q)
  <2>1. asker[q].pc \in {"save", "saveEmpty"} /\ UNCHANGED <<sessions, bubbles, answered>>
    BY <1>10 DEF SaveHistory, Books, Process
  <2>2. CASE Saves(q)
    BY <2>1, <2>2, SaveKeepsWritten
  <2>3. CASE Stays(q, "died") /\ saved' = saved
    BY <2>1, <2>3, StaysKeepsWritten DEF Unsent, Asking
  <2>4. QED
    BY <1>10, <2>2, <2>3, SaveMoves
<1>11. CASE LoadDisplay(q)
  <2> DEFINE s == SourceOf[q]
  <2>1. Moved(q, "append", asker[q].chat, bubbles[s]) /\ s \in GroupIds
    BY <1>11, ShowMoves, AskerTyped
  <2>2. asker[q].pc = "show" /\ UNCHANGED <<sessions, saved, bubbles, answered>>
    BY <1>11 DEF LoadDisplay, AskerAt, Books, Process, Disk
  <2>3. OnlyOnce(bubbles[s]) /\ \A r \in Questions : Holds(bubbles[s], r) => Holds(answered, r) /\ asker[r].pc = "ok"
    BY <2>1, SourceIsWritten
  <2>4. "append" \notin Unsent /\ "ok" \notin Unsent
    BY DEF Unsent, Asking
  <2>5. QED
    BY <2>1, <2>2, <2>3, <2>4, ReadsKeepWritten
<1>12. CASE AppendDisplay(q)
  BY <1>12, AppendKeepsWritten
<1>13. QED
  BY <1>1, <1>2, <1>3, <1>4, <1>5, <1>6, <1>7, <1>8, <1>9, <1>10, <1>11, <1>12 DEF Step, Answering

-----------------------------------------------------------------------------
(* What is answered is kept *)

(* Questions about one source that are in work at the same time are not alone. *)
LEMMA AloneApart ==
  ASSUME ChatTypes, Meet, NEW q \in Questions, Step(q), NEW r \in Questions, r # q, Alone(r)'
  PROVE  Alone(r) /\ (r \in InWork => SourceOf[r] # SourceOf[q])
<1>1. Alone(r)
  BY StepFramed DEF Alone, Framed
<1>2. ASSUME r \in InWork PROVE SourceOf[r] # SourceOf[q]
  <2>1. {q, r} \in met' /\ {r, q} = {q, r}
    BY <1>2, OthersMet
  <2>2. QED
    BY <2>1 DEF Alone
<1>3. QED
  BY <1>1, <1>2

(* Of another source nothing changes, but that a session may be longer. *)
LEMMA OthersUnderway ==
  ASSUME ChatTypes, NEW q \in Questions, Framed(q), NEW r \in Questions, r # q, Underway(r),
         r \in InWork => SourceOf[r] # SourceOf[q]
  PROVE  Underway(r)'
<1>1. asker'[r] = asker[r] /\ SourceOf[r] \in GroupIds
  BY AskerTyped DEF Framed, Others
<1>2. CASE r \in InWork
  <2> DEFINE s == SourceOf[r]
             c == asker[r].chat
  <2>1. cached'[s] = cached[s] /\ saved'[s] = saved[s]
    BY <1>1, <1>2 DEF Framed
  <2>2. asker[r].pc \in {"dump", "save", "show", "append"} => c \in DOMAIN sessions
    BY DEF ChatTypes, Turning, Storing
  <2>3. c \in DOMAIN sessions /\ Holds(sessions[c].turns, r) => Holds(sessions'[c].turns, r)
    BY DEF Framed, Grows
  <2>4. QED
    BY <1>1, <2>1, <2>2, <2>3 DEF Underway
<1>3. CASE r \notin InWork
  BY <1>1, <1>3 DEF Underway, InWork
<1>4. QED
  BY <1>2, <1>3

LEMMA OthersRemembered ==
  ASSUME ChatTypes, NEW q \in Questions, Framed(q), NEW r \in Questions, Remembered(r), SourceOf[r] # SourceOf[q]
  PROVE  Remembered(r)'
<1> DEFINE s == SourceOf[r]
<1>1. s \in GroupIds \ {SourceOf[q]}
  BY AskerTyped
<1>2. cached'[s] = cached[s] /\ saved'[s] = saved[s] /\ bubbles'[s] = bubbles[s]
  BY <1>1 DEF Framed
<1>3. \A i \in DOMAIN sessions : Holds(sessions[i].turns, r) => Holds(sessions'[i].turns, r)
  BY DEF Framed, Grows
<1>4. cached[s] # 0 => cached[s] \in DOMAIN sessions
  BY <1>1 DEF ChatTypes
<1>5. ASSUME NEW a \in Questions, SourceOf[a] = s
      PROVE  asker'[a] = asker[a] /\ (asker[a].pc \in {"send", "dump", "dumpEmpty"} => asker[a].chat \in DOMAIN sessions)
  <2>1. a # q
    BY <1>1, <1>5
  <2>2. QED
    BY <2>1 DEF Framed, Others, ChatTypes, Turning, Storing
<1> HIDE DEF s
<1>6. QED
  BY <1>2, <1>3, <1>4, <1>5 DEF Remembered, s

(* What a step has to do for an answer to the same source. *)
LEMMA SameRemembered ==
  ASSUME ChatTypes, NEW q \in Questions, Framed(q), NEW r \in Questions, Remembered(r), SourceOf[r] = SourceOf[q],
         Holds(saved'[SourceOf[q]], r), Holds(bubbles'[SourceOf[q]], r),
         cached'[SourceOf[q]] # 0 => Holds(sessions'[cached'[SourceOf[q]]].turns, r),
         asker'[q].pc \in {"create", "save", "saveEmpty", "append"} => Holds(asker'[q].read, r),
         asker'[q].pc \in {"send", "dump", "dumpEmpty"} => Holds(sessions'[asker'[q].chat].turns, r)
  PROVE  Remembered(r)'
<1>1. ASSUME NEW a \in Questions, SourceOf[a] = SourceOf[r]
      PROVE  /\ asker'[a].pc \in {"create", "save", "saveEmpty", "append"} => Holds(asker'[a].read, r)
             /\ asker'[a].pc \in {"send", "dump", "dumpEmpty"} => Holds(sessions'[asker'[a].chat].turns, r)
  <2>1. CASE a = q
    BY <2>1
  <2>2. CASE a # q
    <3>1. asker'[a] = asker[a] /\ (asker[a].pc \in {"send", "dump", "dumpEmpty"} => asker[a].chat \in DOMAIN sessions)
      BY <2>2 DEF Framed, Others, ChatTypes, Turning, Storing
    <3>2. \A i \in DOMAIN sessions : Holds(sessions[i].turns, r) => Holds(sessions'[i].turns, r)
      BY DEF Framed, Grows
    <3>3. QED
      BY <1>1, <3>1, <3>2 DEF Remembered
  <2>3. QED
    BY <2>1, <2>2
<1>2. QED
  BY <1>1 DEF Remembered

LEMMA StepRemembers ==
  ASSUME ChatTypes, NEW q \in Questions, Step(q), NEW r \in Questions, Remembered(r), SourceOf[r] = SourceOf[q]
  PROVE  Remembered(r)'
<1> DEFINE s == SourceOf[q]
           c == asker[q].chat
<1>1. Framed(q)
  BY StepFramed
<1>2. /\ Holds(saved[s], r) /\ Holds(bubbles[s], r)
      /\ cached[s] # 0 => Holds(sessions[cached[s]].turns, r) /\ cached[s] \in DOMAIN sessions
      /\ asker[q].pc \in {"create", "save", "saveEmpty", "append"} => Holds(asker[q].read, r)
      /\ asker[q].pc \in {"send", "dump", "dumpEmpty"} => Holds(sessions[c].turns, r) /\ c \in DOMAIN sessions
  BY AskerTyped DEF Remembered, ChatTypes, Turning, Storing
<1>3. \A i \in DOMAIN sessions : Holds(sessions[i].turns, r) => Holds(sessions'[i].turns, r)
  BY <1>1 DEF Framed, Grows
<1>4. /\ s \in GroupIds /\ cached \in [GroupIds -> {0} \cup DOMAIN sessions]
      /\ saved \in [GroupIds -> Seq(Questions)] /\ bubbles \in [GroupIds -> Seq(Questions)]
  BY AskerTyped DEF ChatTypes
<1> HIDE DEF s, c
<1>5. SUFFICES /\ Holds(saved'[s], r) /\ Holds(bubbles'[s], r)
               /\ cached'[s] # 0 => Holds(sessions'[cached'[s]].turns, r)
               /\ asker'[q].pc \in {"create", "save", "saveEmpty", "append"} => Holds(asker'[q].read, r)
               /\ asker'[q].pc \in {"send", "dump", "dumpEmpty"} => Holds(sessions'[asker'[q].chat].turns, r)
  BY <1>1, SameRemembered DEF s
<1>6. CASE AskQuestion(q)
  BY <1>2, <1>3, <1>6, AskMoves DEF AskQuestion, Process, Disk, Stays, Moved
<1>7. CASE LookUp(q)
  <2>1. Moved(q, IF cached[s] = 0 THEN "load" ELSE "send", cached[s], asker[q].read)
    BY <1>7, LookUpMoves DEF s
  <2>2. QED
    BY <1>2, <1>3, <1>7, <2>1 DEF LookUp, Books, Process, Disk, Moved
<1>8. CASE LoadHistory(q)
  <2>1. Moved(q, "create", c, saved[s])
    BY <1>8, LoadMoves DEF s, c
  <2>2. QED
    BY <1>2, <1>8, <2>1 DEF LoadHistory, Books, Process, Disk, Moved
<1>9. CASE CreateSession(q)
  <2>1. UNCHANGED <<saved, bubbles>> /\ asker[q].pc = "create"
    BY <1>9 DEF CreateSession, Books, Disk, AskerAt
  <2>2. CASE Opens(q)
    <3> DEFINE n == Len(sessions')
    <3>1. sessions'[n].turns = asker[q].read /\ cached' = [cached EXCEPT ![s] = n] /\ Moved(q, "send", n, <<>>)
      BY <2>2 DEF Opens, s
    <3> HIDE DEF n
    <3>2. cached'[s] = n /\ asker'[q].pc = "send" /\ asker'[q].chat = n
      BY <1>4, <3>1 DEF Moved
    <3>3. QED
      BY <1>2, <2>1, <3>1, <3>2
  <2>3. CASE Stays(q, "error") /\ sessions' = sessions /\ cached' = cached
    BY <1>2, <2>1, <2>3 DEF Stays, Moved
  <2>4. QED
    BY <1>9, <2>2, <2>3, CreateMoves
<1>10. CASE Sent(q)
  <2>1. PICK pc \in {"dump", "dumpEmpty"} : Moved(q, pc, c, asker[q].read)
    BY <1>10, SentMoves DEF Stays, c
  <2>2. UNCHANGED <<saved, bubbles, cached>> /\ asker[q].pc = "send"
    BY <1>10 DEF Sent, Disk, AskerAt
  <2>3. QED
    BY <1>2, <1>3, <2>1, <2>2 DEF Moved
<1>11. CASE ServerError(q)
  <2>1. Moved(q, "send", c, asker[q].read)
    BY <1>11, ErrorMoves DEF Stays, c
  <2>2. QED
    BY <1>2, <1>11, <2>1 DEF ServerError, Books, Process, Disk, AskerAt, Moved
<1>12. CASE Fails(q)
  <2>1. cached'[s] = 0 /\ UNCHANGED <<saved, bubbles>>
    BY <1>4, <1>12 DEF Fails, Disk, s
  <2>2. QED
    BY <1>2, <1>12, <2>1, FailureMoves DEF Stays, Moved
<1>13. CASE ThinkingRejected(q)
  <2>1. cached'[s] = 0 /\ UNCHANGED <<saved, bubbles>>
    BY <1>4, <1>13 DEF ThinkingRejected, Disk, s
  <2>2. asker'[q].pc \in {"lookup", "rejected"}
    BY <1>13, RejectedMoves DEF Stays, Moved
  <2>3. QED
    BY <1>2, <2>1, <2>2
<1>14. CASE DumpHistory(q)
  <2>1. Moved(q, IF asker[q].pc = "dump" THEN "save" ELSE "saveEmpty", c, sessions[c].turns)
    BY <1>14, DumpMoves DEF c
  <2>2. QED
    BY <1>2, <1>14, <2>1 DEF DumpHistory, Books, Process, Disk, Moved
<1>15. CASE SaveHistory(q)
  <2>1. asker[q].pc \in {"save", "saveEmpty"} /\ UNCHANGED <<sessions, cached, bubbles>>
    BY <1>15 DEF SaveHistory, Process
  <2>2. CASE Saves(q)
    <3>1. saved'[s] = asker[q].read /\ asker'[q].pc \in {"show", "error"}
      BY <1>4, <2>2 DEF Saves, Stays, Moved, s
    <3>2. QED
      BY <1>2, <2>1, <3>1
  <2>3. CASE Stays(q, "died") /\ saved' = saved
    BY <1>2, <2>1, <2>3 DEF Stays, Moved
  <2>4. QED
    BY <1>15, <2>2, <2>3, SaveMoves
<1>16. CASE LoadDisplay(q)
  <2>1. Moved(q, "append", c, bubbles[s])
    BY <1>16, ShowMoves DEF s, c
  <2>2. QED
    BY <1>2, <1>16, <2>1 DEF LoadDisplay, Books, Process, Disk, Moved
<1>17. CASE AppendDisplay(q)
  <2>1. asker[q].pc = "append" /\ UNCHANGED <<sessions, cached, saved>> /\ bubbles'[s] = Append(asker[q].read, q)
    BY <1>4, <1>17 DEF AppendDisplay, AskerAt, Process, s
  <2>2. Holds(Append(asker[q].read, q), r)
    BY <1>2, <2>1, AskerTyped, OneTurnMore
  <2>3. QED
    BY <1>2, <1>17, <2>1, <2>2, AppendMoves DEF Stays, Moved
<1>18. QED
  BY <1>6, <1>7, <1>8, <1>9, <1>10, <1>11, <1>12, <1>13, <1>14, <1>15, <1>16, <1>17 DEF Step, Answering

LEMMA StepUnderway == ASSUME ChatTypes, NEW q \in Questions, Step(q), Underway(q) PROVE Underway(q)'
<1> DEFINE s == SourceOf[q]
           c == asker[q].chat
<1>1. /\ asker[q].pc \in {"send", "dump", "save", "show", "append"} => cached[s] = c
      /\ asker[q].pc \in {"dump", "save", "show", "append"} => Holds(sessions[c].turns, q)
      /\ asker[q].pc = "save" => Holds(asker[q].read, q)
      /\ asker[q].pc \in {"show", "append"} => Holds(saved[s], q)
  BY DEF Underway
<1>2. s \in GroupIds /\ cached \in [GroupIds -> {0} \cup DOMAIN sessions] /\ saved \in [GroupIds -> Seq(Questions)]
  BY AskerTyped DEF ChatTypes
<1> HIDE DEF s, c
<1>3. CASE asker'[q].pc \notin {"send", "dump", "save", "show", "append"}
  BY <1>3 DEF Underway
<1>4. CASE LookUp(q)
  <2>1. Moved(q, IF cached[s] = 0 THEN "load" ELSE "send", cached[s], asker[q].read) /\ cached' = cached
    BY <1>4, LookUpMoves DEF s, LookUp, Process
  <2>2. asker'[q].pc \in {"load", "send"} /\ asker'[q].chat = cached'[s]
    BY <2>1 DEF Moved
  <2>3. QED
    BY <2>2 DEF Underway, s
<1>5. CASE CreateSession(q) /\ Opens(q)
  <2> DEFINE n == Len(sessions')
  <2>1. cached' = [cached EXCEPT ![s] = n] /\ asker'[q].pc = "send" /\ asker'[q].chat = n
    BY <1>5 DEF Opens, Moved, s
  <2> HIDE DEF n
  <2>2. asker'[q].chat = cached'[s]
    BY <1>2, <2>1
  <2>3. QED
    BY <2>1, <2>2 DEF Underway, s
<1>6. CASE Sent(q)
  <2>1. /\ asker[q].pc = "send" /\ cached' = cached /\ asker'[q].chat = c /\ asker'[q].pc \in {"dump", "dumpEmpty"}
        /\ sessions'[c].turns = Append(sessions[c].turns, q) /\ sessions[c].turns \in Seq(Questions)
    BY <1>6, SentMoves DEF Sent, AskerAt, Turns1, Stays, Moved, c
  <2>2. Holds(sessions'[c].turns, q)
    BY <2>1, OneTurnMore
  <2>3. QED
    BY <1>1, <2>1, <2>2 DEF Underway, s
<1>7. CASE ServerError(q)
  <2>1. asker[q].pc = "send" /\ asker'[q].pc = "send" /\ asker'[q].chat = c /\ cached' = cached
    BY <1>7, ErrorMoves DEF ServerError, AskerAt, Stays, Moved, Process, c
  <2>2. QED
    BY <1>1, <2>1 DEF Underway, s
<1>8. CASE DumpHistory(q)
  <2>1. /\ Moved(q, IF asker[q].pc = "dump" THEN "save" ELSE "saveEmpty", c, sessions[c].turns)
        /\ cached' = cached /\ sessions' = sessions
    BY <1>8, DumpMoves DEF c, DumpHistory, Process
  <2>2. /\ asker'[q].pc = IF asker[q].pc = "dump" THEN "save" ELSE "saveEmpty"
        /\ asker'[q].chat = c /\ asker'[q].read = sessions[c].turns
    BY <2>1 DEF Moved
  <2>3. CASE asker[q].pc = "dump"
    BY <1>1, <2>1, <2>2, <2>3 DEF Underway, s
  <2>4. CASE asker[q].pc # "dump"
    BY <2>2, <2>4 DEF Underway
  <2>5. QED
    BY <2>3, <2>4
<1>9. CASE SaveHistory(q) /\ asker'[q].pc = "show"
  <2>1. Saves(q) /\ cached' = cached /\ sessions' = sessions
    BY <1>9, SaveMoves DEF SaveHistory, Process, Stays, Moved
  <2>2. asker[q].pc = "save" /\ asker'[q].chat = c /\ saved'[s] = asker[q].read
    BY <1>2, <1>9, <2>1 DEF Saves, AskerAt, Stays, Moved, s, c
  <2>3. QED
    BY <1>1, <1>9, <2>1, <2>2 DEF Underway, s
<1>10. CASE LoadDisplay(q)
  <2>1. /\ asker[q].pc = "show" /\ asker'[q].pc = "append" /\ asker'[q].chat = c
        /\ cached' = cached /\ sessions' = sessions /\ saved' = saved
    BY <1>10, ShowMoves DEF LoadDisplay, AskerAt, Process, Disk, Moved, c
  <2>2. QED
    BY <1>1, <2>1 DEF Underway, s
<1>11. CASE asker'[q].pc \in {"send", "dump", "save", "show", "append"}
  <2>1. ~AskQuestion(q) /\ ~LoadHistory(q) /\ ~Fails(q) /\ ~AppendDisplay(q) /\ ~ThinkingRejected(q)
    BY <1>11, AskMoves, LoadMoves, FailureMoves, AppendMoves, RejectedMoves DEF Stays, Moved
  <2>2. CreateSession(q) => Opens(q)
    BY <1>11, CreateMoves DEF Stays, Moved
  <2>3. SaveHistory(q) => asker'[q].pc = "show"
    BY <1>11, SaveMoves DEF Saves, Stays, Moved
  <2>4. QED
    BY <1>4, <1>5, <1>6, <1>7, <1>8, <1>9, <1>10, <2>1, <2>2, <2>3 DEF Step, Answering
<1>12. QED
  BY <1>3, <1>11

(* When a question that is alone is answered, nobody else of its source is   *)
(* in work.                                                                *)
LEMMA AnswerRemembered ==
  ASSUME ChatTypes, Meet, NEW q \in Questions, AppendDisplay(q), Underway(q), Alone(q)'
  PROVE  Remembered(q)'
<1> DEFINE s == SourceOf[q]
<1>1. /\ asker[q].pc = "append" /\ UNCHANGED <<sessions, cached, saved>> /\ asker'[q].pc = "ok"
      /\ bubbles' = [bubbles EXCEPT ![s] = Append(asker[q].read, q)]
  BY AppendMoves DEF AppendDisplay, AskerAt, Process, Stays, Moved
<1>2. s \in GroupIds /\ bubbles \in [GroupIds -> Seq(Questions)] /\ asker[q].read \in Seq(Questions)
  BY AskerTyped DEF ChatTypes
<1>3. Holds(bubbles'[s], q)
  BY <1>1, <1>2, OneTurnMore
<1>4. Holds(saved[s], q) /\ Holds(sessions[cached[s]].turns, q)
  BY <1>1 DEF Underway
<1>5. Step(q)
  BY DEF Step, Answering
<1>6. ASSUME NEW r \in Questions, SourceOf[r] = s, r # q PROVE r \notin InWork /\ asker'[r] = asker[r]
  <2>1. r \in InWork => {q, r} \in met'
    BY <1>5, <1>6, OthersMet
  <2>2. QED
    BY <1>5, <1>6, <2>1, StepFramed DEF Alone, Framed, Others
<1>7. ASSUME NEW r \in Questions, SourceOf[r] = s
      PROVE  asker'[r].pc \notin {"create", "save", "saveEmpty", "append", "send", "dump", "dumpEmpty"}
  BY <1>1, <1>6, <1>7 DEF InWork
<1> HIDE DEF s
<1>8. QED
  BY <1>1, <1>3, <1>4, <1>7 DEF Remembered, s

LEMMA StepKeeps == ASSUME ChatTypes, Meet, Written, Kept, NEW q \in Questions, Step(q) PROVE Kept'
<1>1. Framed(q) /\ asker[q].pc # "ok"
  BY StepFramed, AskerWorks DEF InWork
<1>2. ~Holds(answered, q)
  BY <1>1 DEF Written
<1>3. answered' = answered \/ (AppendDisplay(q) /\ answered' = Append(answered, q))
  BY DEF Step, Answering, AskQuestion, LookUp, LoadHistory, CreateSession, Sent, ServerError, Fails,
         ThinkingRejected, DumpHistory, SaveHistory, LoadDisplay, AppendDisplay, Books
<1>4. answered \in Seq(Questions)
  BY DEF ChatTypes
<1>5. \A r \in Questions : Holds(answered', r) => Holds(answered, r) \/ (r = q /\ AppendDisplay(q))
  BY <1>3, <1>4, OneTurnMore
<1>6. ASSUME NEW r \in Questions, Alone(r)' PROVE Underway(r)' /\ (Holds(answered', r) => Remembered(r)')
  <2>1. CASE r = q
    <3>1. Alone(q)
      BY <1>1, <1>6, <2>1 DEF Alone, Framed
    <3>2. Underway(q)
      BY <3>1 DEF Kept
    <3>3. Holds(answered', q) => Remembered(q)'
      BY <1>2, <1>5, <1>6, <2>1, <3>2, AnswerRemembered
    <3>4. QED
      BY <2>1, <3>2, <3>3, StepUnderway
  <2>2. CASE r # q
    <3>1. Alone(r) /\ (r \in InWork => SourceOf[r] # SourceOf[q])
      BY <1>6, <2>2, AloneApart
    <3>2. Underway(r) /\ (Holds(answered, r) => Remembered(r))
      BY <3>1 DEF Kept
    <3>3. Underway(r)'
      BY <1>1, <2>2, <3>1, <3>2, OthersUnderway
    <3>4. Holds(answered', r) => Holds(answered, r)
      BY <1>5, <2>2
    <3>5. Remembered(r) => Remembered(r)'
      BY <1>1, OthersRemembered, StepRemembers
    <3>6. QED
      BY <3>2, <3>3, <3>4, <3>5
  <2>3. QED
    BY <2>1, <2>2
<1>7. QED
  BY <1>6 DEF Kept

-----------------------------------------------------------------------------
(* A rejected setting *)

(* A request in a session with the setting is told so. *)
LEMMA NotRejected ==
  ASSUME NEW q \in Questions, AskerAt(q, "send"), ~Rejected(q), rejects PROVE ~sessions[asker[q].chat].think
BY DEF Rejected

(* Where the setting is cached, and who is asking with it, stay as they are *)
(* but for the question that takes the step.                               *)
LEMMA WitnessStays ==
  ASSUME ChatTypes, NEW q \in Questions, Framed(q), Refused, rejects, NEW s \in GroupIds,
         cached'[s] = cached[s], cached[s] # 0, sessions[cached[s]].think,
         asker[q].pc = "send" => \/ asker'[q].pc = "send" /\ asker'[q].chat = asker[q].chat
                                 \/ ~sessions[asker[q].chat].think
                                 \/ SourceOf[q] # s
  PROVE  \E r \in Questions : SourceOf[r] = s /\ asker'[r].pc = "send" /\ asker'[r].chat = cached'[s]
<1>1. PICK r \in Questions : SourceOf[r] = s /\ asker[r].pc = "send" /\ asker[r].chat = cached[s]
  BY DEF Refused, AskerAt
<1>2. CASE r # q
  BY <1>1, <1>2 DEF Framed, Others
<1>3. CASE r = q
  BY <1>1, <1>3
<1>4. QED
  BY <1>2, <1>3

(* A step that opens no session, and none in which a request is rejected. *)
LEMMA SettingStays ==
  ASSUME ChatTypes, NEW q \in Questions, Framed(q), Refused, rejects,
         \/ cached' = cached
         \/ cached' = [cached EXCEPT ![SourceOf[q]] = 0],
         cached' = cached /\ asker[q].pc = "send" =>
           \/ asker'[q].pc = "send" /\ asker'[q].chat = asker[q].chat
           \/ ~sessions[asker[q].chat].think
  PROVE  \A s \in GroupIds : cached'[s] # 0 /\ sessions'[cached'[s]].think =>
           \E r \in Questions : SourceOf[r] = s /\ asker'[r].pc = "send" /\ asker'[r].chat = cached'[s]
<1> SUFFICES ASSUME NEW s \in GroupIds, cached'[s] # 0, sessions'[cached'[s]].think
             PROVE  \E r \in Questions : SourceOf[r] = s /\ asker'[r].pc = "send" /\ asker'[r].chat = cached'[s]
  OBVIOUS
<1>1. cached \in [GroupIds -> {0} \cup DOMAIN sessions]
  BY DEF ChatTypes
<1>2. cached'[s] = cached[s] /\ (cached' # cached => SourceOf[q] # s)
  BY <1>1
<1>3. cached[s] \in DOMAIN sessions
  BY <1>1, <1>2
<1>4. sessions[cached[s]].think
  BY <1>2, <1>3 DEF Framed, Grows
<1>5. QED
  BY <1>2, <1>4, WitnessStays

LEMMA StepRefuses == ASSUME ChatTypes, Meet, Refused, RejectedOnlyInOverlap, NEW q \in Questions, Step(q)
                     PROVE  Refused' /\ RejectedOnlyInOverlap'
<1>1. Framed(q) /\ rejects' = rejects /\ met \subseteq met'
  BY StepFramed DEF Framed
<1>2. /\ cached \in [GroupIds -> {0} \cup DOMAIN sessions] /\ SourceOf[q] \in GroupIds
      /\ \A r \in Questions : asker[r].pc \in Turning => asker[r].chat \in DOMAIN sessions
  BY AskerTyped DEF ChatTypes
<1>3. ASSUME rejects
      PROVE  \A s \in GroupIds : cached'[s] # 0 /\ sessions'[cached'[s]].think =>
               \E r \in Questions : SourceOf[r] = s /\ AskerAt(r, "send")' /\ asker'[r].chat = cached'[s]
  <2>1. CASE CreateSession(q) /\ Opens(q)
    <3> DEFINE n == Len(sessions')
    <3>1. cached' = [cached EXCEPT ![SourceOf[q]] = n] /\ asker'[q].pc = "send" /\ asker'[q].chat = n
      BY <2>1 DEF Opens, Moved
    <3> HIDE DEF n
    <3>2. ASSUME NEW s \in GroupIds, cached'[s] # 0, sessions'[cached'[s]].think
          PROVE  \E r \in Questions : SourceOf[r] = s /\ asker'[r].pc = "send" /\ asker'[r].chat = cached'[s]
      <4>1. CASE s = SourceOf[q]
        BY <1>2, <3>1, <4>1
      <4>2. CASE s # SourceOf[q]
        <5>1. cached'[s] = cached[s] /\ cached[s] \in DOMAIN sessions
          BY <1>2, <3>1, <3>2, <4>2
        <5>2. sessions[cached[s]].think
          BY <1>1, <3>2, <5>1 DEF Framed, Grows
        <5>3. QED
          BY <1>1, <1>3, <3>2, <4>2, <5>1, <5>2, WitnessStays
      <4>3. QED
        BY <4>1, <4>2
    <3>3. QED
      BY <3>2 DEF AskerAt
  <2>2. CASE Sent(q)
    <3>1. cached' = cached /\ ~sessions[asker[q].chat].think
      BY <1>3, <2>2, NotRejected DEF Sent
    <3>2. QED
      BY <1>1, <1>3, <3>1, SettingStays DEF AskerAt
  <2>3. CASE ServerError(q)
    <3>1. cached' = cached /\ asker'[q].pc = "send" /\ asker'[q].chat = asker[q].chat
      BY <2>3, ErrorMoves DEF ServerError, Process, Stays, Moved
    <3>2. QED
      BY <1>1, <1>3, <3>1, SettingStays DEF AskerAt
  <2>4. CASE Fails(q) \/ ThinkingRejected(q)
    <3>1. cached' = [cached EXCEPT ![SourceOf[q]] = 0]
      BY <2>4 DEF Fails, ThinkingRejected
    <3>2. CASE cached' # cached
      BY <1>1, <1>3, <3>1, <3>2, SettingStays DEF AskerAt
    <3>3. CASE cached' = cached
      <4>1. cached[SourceOf[q]] = 0
        BY <1>2, <3>1, <3>3
      <4>2. ASSUME NEW s \in GroupIds, cached'[s] # 0, sessions'[cached'[s]].think
            PROVE  \E r \in Questions : SourceOf[r] = s /\ asker'[r].pc = "send" /\ asker'[r].chat = cached'[s]
        <5>1. s # SourceOf[q] /\ cached[s] \in DOMAIN sessions
          BY <1>2, <3>3, <4>1, <4>2
        <5>2. sessions[cached[s]].think
          BY <1>1, <3>3, <4>2, <5>1 DEF Framed, Grows
        <5>3. QED
          BY <1>1, <1>3, <3>3, <4>2, <5>1, <5>2, WitnessStays
      <4>3. QED
        BY <4>2 DEF AskerAt
    <3>4. QED
      BY <3>2, <3>3
  <2>5. CASE ~(CreateSession(q) /\ Opens(q)) /\ ~Sent(q) /\ ~ServerError(q) /\ ~Fails(q) /\ ~ThinkingRejected(q)
    <3>1. cached' = cached /\ asker[q].pc # "send"
      BY <2>5, CreateMoves
         DEF Step, Answering, AskQuestion, LookUp, LoadHistory, DumpHistory, SaveHistory, LoadDisplay, AppendDisplay,
             CreateSession, AskerAt, Process
    <3>2. QED
      BY <1>1, <1>3, <3>1, SettingStays DEF AskerAt
  <2>6. QED
    BY <2>1, <2>2, <2>3, <2>4, <2>5
<1>4. ASSUME rejects, ~thinking', NEW a \in Questions, asker'[a].pc = "send", sessions'[asker'[a].chat].think
      PROVE  \E r \in Questions : {a, r} \in met'
  <2>1. CASE a # q
    <3>1. asker'[a] = asker[a] /\ asker[a].pc = "send" /\ asker[a].chat \in DOMAIN sessions /\ a \in InWork
      BY <1>1, <1>2, <1>4, <2>1 DEF Framed, Others, Turning, InWork
    <3>2. {q, a} \in met' /\ {q, a} = {a, q}
      BY <2>1, <3>1, OthersMet
    <3>3. QED
      BY <3>2
  <2>2. CASE a = q
    <3>1. CASE LookUp(q)
      <4> DEFINE c == cached[SourceOf[q]]
      <4>1. Moved(q, IF c = 0 THEN "load" ELSE "send", c, asker[q].read) /\ sessions' = sessions /\ asker[q].pc = "lookup"
        BY <3>1, LookUpMoves DEF LookUp, Process, AskerAt
      <4>2. c # 0 /\ sessions[c].think
        BY <1>4, <2>2, <4>1 DEF Moved
      <4> HIDE DEF c
      <4>3. PICK r \in Questions : asker[r].pc = "send"
        BY <1>2, <1>4, <4>2 DEF Refused, AskerAt, c
      <4>4. r # q /\ r \in InWork
        BY <4>1, <4>3 DEF InWork
      <4>5. QED
        BY <2>2, <4>4, OthersMet
    <3>2. CASE CreateSession(q)
      <4>1. Opens(q) /\ thinking' = thinking
        BY <1>4, <2>2, <3>2, CreateMoves DEF CreateSession, Stays, Moved
      <4>2. sessions'[asker'[q].chat].think = thinking
        BY <4>1 DEF Opens, Moved
      <4>3. QED
        BY <1>4, <2>2, <4>1, <4>2
    <3>3. CASE ServerError(q)
      <4>1. /\ asker[q].pc = "send" /\ asker'[q].chat = asker[q].chat /\ sessions' = sessions /\ thinking' = thinking
        BY <3>3, ErrorMoves DEF ServerError, AskerAt, Stays, Moved, Process
      <4>2. \E r \in Questions : {q, r} \in met
        BY <1>4, <2>2, <4>1 DEF Refused, AskerAt
      <4>3. QED
        BY <1>1, <2>2, <4>2
    <3>4. CASE ~LookUp(q) /\ ~CreateSession(q) /\ ~ServerError(q)
      BY <1>4, <2>2, <3>4, AskMoves, LoadMoves, SentMoves, FailureMoves, RejectedMoves, DumpMoves, SaveMoves, ShowMoves,
         AppendMoves DEF Step, Answering, Stays, Saves, Moved
    <3>5. QED
      BY <3>1, <3>2, <3>3, <3>4
  <2>3. QED
    BY <2>1, <2>2
<1>5. ASSUME NEW a \in Questions, asker'[a].pc = "rejected" PROVE \E r \in Questions : {a, r} \in met'
  <2>1. CASE asker[a].pc = "rejected"
    BY <1>1, <2>1 DEF RejectedOnlyInOverlap, AskerAt
  <2>2. CASE asker[a].pc # "rejected"
    <3>1. a = q
      BY <1>1, <1>5, <2>2 DEF Framed, Others
    <3>2. ThinkingRejected(q) /\ ~thinking
      BY <1>5, <3>1, AskMoves, LookUpMoves, LoadMoves, CreateMoves, SentMoves, ErrorMoves, FailureMoves, RejectedMoves,
         DumpMoves, SaveMoves, ShowMoves, AppendMoves DEF Step, Answering, Stays, Opens, Saves, Moved
    <3>3. rejects /\ AskerAt(q, "send") /\ sessions[asker[q].chat].think
      BY <3>2 DEF ThinkingRejected, Rejected
    <3>4. \E r \in Questions : {q, r} \in met
      BY <3>2, <3>3 DEF Refused
    <3>5. QED
      BY <1>1, <3>1, <3>4
  <2>3. QED
    BY <2>1, <2>2
<1>6. QED
  BY <1>1, <1>3, <1>4, <1>5 DEF Refused, RejectedOnlyInOverlap, AskerAt

-----------------------------------------------------------------------------
LEMMA ChatStarts == ChatInit => ChatInv
<1> SUFFICES ASSUME ChatInit PROVE ChatInv
  OBVIOUS
<1>1. /\ sessions = <<>> /\ DOMAIN sessions = {} /\ answered = <<>> /\ met = {} /\ thinking = TRUE
      /\ saved = [s \in GroupIds |-> <<>>] /\ bubbles = [s \in GroupIds |-> <<>>] /\ cached = [s \in GroupIds |-> 0]
      /\ asker = [q \in Questions |-> Idle("unasked")] /\ rejects \in BOOLEAN
  BY DEF ChatInit
<1>2. Has(Idle("unasked"), "unasked", 0, <<>>)
  BY DEF Has, Idle, Asker, Unsent
<1>3. \A q \in Questions : asker[q].pc = "unasked" /\ asker[q].read = <<>> /\ asker[q] \in Asker
  BY <1>1, <1>2 DEF Has
<1>4. ChatTypes
  BY <1>1, <1>3 DEF ChatTypes, Turning, Storing
<1>5. Meet
  BY <1>3 DEF Meet, InWork
<1>6. Written
  BY <1>1, <1>3, NoTurn DEF Written, Unwritten, AskerAt
<1>7. Kept
  BY <1>1, <1>3, NoTurn DEF Kept, Underway
<1>8. Refused /\ RejectedOnlyInOverlap
  BY <1>1, <1>3 DEF Refused, RejectedOnlyInOverlap, AskerAt
<1>9. QED
  BY <1>4, <1>5, <1>6, <1>7, <1>8 DEF ChatInv

(* What is on disk outlives a restart. *)
LEMMA RestartKeeps == ASSUME ChatInv, RestartDashboard PROVE ChatInv'
<1>1. ChatTypes /\ Meet /\ Written /\ Kept /\ Refused /\ RejectedOnlyInOverlap
  BY DEF ChatInv
<1>2. /\ asker' \in [Questions -> Asker] /\ sessions' = <<>> /\ DOMAIN sessions' = {} /\ thinking' = TRUE
      /\ cached' = [s \in GroupIds |-> 0]
      /\ \A q \in Questions : /\ asker'[q].pc = IF q \in InWork THEN "died" ELSE asker[q].pc
                              /\ asker'[q].read = <<>> /\ q \notin InWork'
  BY <1>1, RestartMoves
<1>3. UNCHANGED <<rejects, answered, met, saved, bubbles>>
  BY DEF RestartDashboard, Disk
<1>4. \A q \in Questions : asker'[q].pc \notin Asking \cup Storing
  BY <1>2 DEF InWork, Asking, Storing
<1>5. ChatTypes'
  <2>1. \A q \in Questions : asker'[q].pc \notin Turning
    BY <1>4 DEF Asking, Turning
  <2>2. QED
    BY <1>1, <1>2, <1>3, <2>1 DEF ChatTypes
<1>6. Meet'
  BY <1>2 DEF Meet, InWork
<1>7. Written'
  <2>1. \A q \in Questions : asker'[q].pc \in Unsent => asker[q].pc \in Unsent
    BY <1>2 DEF InWork, Unsent, Asking
  <2>2. \A q \in Questions : asker[q].pc = "ok" => asker'[q].pc = "ok"
    BY <1>2 DEF InWork
  <2>3. QED
    BY <1>1, <1>2, <1>3, <1>4, <2>1, <2>2, NoTurn DEF Written, Unwritten, AskerAt, Storing
<1>8. Kept'
  <2>1. ASSUME NEW q \in Questions, Alone(q)' PROVE Underway(q)' /\ (Holds(answered', q) => Remembered(q)')
    <3>1. Alone(q)
      BY <1>3, <2>1 DEF Alone
    <3>2. Underway(q)'
      BY <1>4 DEF Underway, Asking, Storing
    <3>3. SourceOf[q] \in GroupIds
      BY <1>1, AskerTyped
    <3>4. Remembered(q) => Remembered(q)'
      BY <1>2, <1>3, <1>4, <3>3 DEF Remembered, Asking, Storing
    <3>5. QED
      BY <1>1, <1>3, <3>1, <3>2, <3>4 DEF Kept
  <2>2. QED
    BY <2>1 DEF Kept
<1>9. Refused' /\ RejectedOnlyInOverlap'
  <2>1. \A q \in Questions : asker'[q].pc = "rejected" => asker[q].pc = "rejected"
    BY <1>2 DEF InWork
  <2>2. QED
    BY <1>1, <1>2, <1>3, <2>1 DEF Refused, RejectedOnlyInOverlap, AskerAt
<1>10. QED
  BY <1>5, <1>6, <1>7, <1>8, <1>9 DEF ChatInv

LEMMA ChatKeeps == ChatInv /\ [ChatNext]_chatVars => ChatInv'
<1> SUFFICES ASSUME ChatInv, [ChatNext]_chatVars PROVE ChatInv'
  OBVIOUS
<1>1. CASE UNCHANGED chatVars
  BY <1>1 DEF chatVars, ChatInv, ChatTypes, Meet, InWork, Written, Unwritten, Kept, Alone, Underway, Remembered,
              Refused, RejectedOnlyInOverlap, AskerAt
<1>2. ASSUME NEW q \in Questions, Step(q) PROVE ChatInv'
  BY <1>2, StepTypes, StepMeets, StepWritten, StepKeeps, StepRefuses DEF ChatInv
<1>3. QED
  BY <1>1, <1>2, RestartKeeps DEF ChatNext, Step

THEOREM ChatInvariant == ChatSpec => []ChatInv
BY ChatStarts, ChatKeeps, PTL DEF ChatSpec

(* Whatever is asked, in whatever overlap, across failures and restarts: an *)
(* answer that was given alone stays in the bubbles and in the saved turns,  *)
(* nothing is kept twice, and nothing unanswered is shown                   *)
(* (dashboard.py:193-245, 280-296, 1014, 1196-1208).                        *)
THEOREM KeptSafe == ChatSpec => []KeptOnce
<1>1. ASSUME ChatInv PROVE KeptOnce
  <2>1. answered \in Seq(Questions) /\ bubbles \in [GroupIds -> Seq(Questions)]
    BY <1>1 DEF ChatInv, ChatTypes
  <2>2. AnsweredIsKept
    <3>1. ASSUME NEW i \in DOMAIN answered, Alone(answered[i])
          PROVE  LET q == answered[i] IN Holds(bubbles[SourceOf[q]], q) /\ Holds(saved[SourceOf[q]], q)
      <4>1. answered[i] \in Questions /\ Holds(answered, answered[i])
        BY <2>1 DEF Holds
      <4>2. QED
        BY <1>1, <3>1, <4>1 DEF ChatInv, Kept, Remembered
    <3>2. QED
      BY <3>1 DEF AnsweredIsKept
  <2>3. NoTurnTwice
    BY <1>1 DEF ChatInv, Written, OnlyOnce, NoTurnTwice
  <2>4. OnlyAnsweredShown
    <3>1. ASSUME NEW s \in GroupIds, NEW i \in DOMAIN bubbles[s] PROVE Holds(answered, bubbles[s][i])
      <4>1. bubbles[s][i] \in Questions /\ Holds(bubbles[s], bubbles[s][i])
        BY <2>1 DEF Holds
      <4>2. QED
        BY <1>1, <4>1 DEF ChatInv, Written
    <3>2. QED
      BY <3>1 DEF OnlyAnsweredShown
  <2>5. QED
    BY <2>2, <2>3, <2>4 DEF KeptOnce
<1>2. QED
  BY <1>1, ChatInvariant, PTL

(* After a restart, a dropped session or a rejected setting too, a question  *)
(* is sent in a session that has every answer its source was given alone     *)
(* (dashboard.py:958-960).                                                  *)
THEOREM AskedSafe == ChatSpec => []AskedWithMemory
<1>1. ASSUME ChatInv, NEW q \in Questions, AskerAt(q, "send"), NEW i \in DOMAIN answered,
             SourceOf[answered[i]] = SourceOf[q], Alone(answered[i])
      PROVE  Holds(sessions[asker[q].chat].turns, answered[i])
  <2>1. answered[i] \in Questions /\ Holds(answered, answered[i])
    BY <1>1 DEF ChatInv, ChatTypes, Holds
  <2>2. Remembered(answered[i])
    BY <1>1, <2>1 DEF ChatInv, Kept
  <2>3. QED
    BY <1>1, <2>2 DEF Remembered, AskerAt
<1>2. ChatInv => AskedWithMemory
  BY <1>1 DEF AskedWithMemory
<1>3. QED
  BY <1>2, ChatInvariant, PTL

(* However many sources, requests and restarts: a rejected setting costs a   *)
(* question only if another was in work meanwhile (dashboard.py:993-1007).   *)
THEOREM RejectedSafe == ChatSpec => []RejectedOnlyInOverlap
<1>1. ChatInv => RejectedOnlyInOverlap
  BY DEF ChatInv
<1>2. QED
  BY <1>1, ChatInvariant, PTL
=============================================================================
