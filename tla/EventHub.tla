------------------------------ MODULE EventHub ------------------------------
(***************************************************************************)
(* The backend's event loop: WebSocketManager, the store of the last        *)
(* analysis, the analyze endpoint and the stream endpoint (backend/main.py, *)
(* backend/services.py:154-192), and the events the sensor's threads hand   *)
(* to the loop (live_service.py:64-106). What a coroutine does between two   *)
(* awaits is one action. Clients, and the server under the loop (a send      *)
(* waits while the client's buffer is full, a ping ends a dead connection), *)
(* are external.                                                           *)
(*                                                                         *)
(* Events are numbered in the order in which they are published. 0 stands    *)
(* for the connected snapshot.                                             *)
(***************************************************************************)
EXTENDS Naturals, Sequences, FiniteSets

CONSTANTS
  Clients,  \* websocket connections, each used once
  MaxEvent, \* bound: events
  Buffer    \* bound: messages a connection takes while its client does not read

ASSUME HubAssumption == MaxEvent \in Nat /\ Buffer \in Nat \ {0}

VARIABLES
  connections, \* WebSocketManager.connections, a list in which nobody is twice: its members,
  place,       \* ordered by when they were appended
  stream,      \* where a client's threat_stream is
  client,      \* away, there, left
  inbox,       \* messages sent to a client, with
  unread,      \* how many of them it has not read
  analyses,    \* events that are analyses; the newest is the ThreatAnalysisStore's
  seen,        \* the store's event in a client's snapshot, 0 for none
  events,      \* events published so far
  tasks        \* broadcasts: whom they still send to, whom they could not; history: who
               \* had left when they began

hubVars == <<connections, place, stream, client, inbox, unread, analyses, seen, events, tasks>>

Messages(c) == {inbox[c][i] : i \in DOMAIN inbox[c]}
NoTask      == [at |-> "none", todo |-> {}, dead |-> {}, left |-> {}]

HubInit ==
  /\ connections = {} /\ place = [c \in Clients |-> 0]
  /\ stream = [c \in Clients |-> "none"] /\ client = [c \in Clients |-> "away"]
  /\ inbox = [c \in Clients |-> <<>>] /\ unread = [c \in Clients |-> 0]
  /\ analyses = {} /\ seen = [c \in Clients |-> 0]
  /\ events = 0 /\ tasks = [n \in 1..MaxEvent |-> NoTask]

(* store.get *)
Newest == CHOOSE n \in {0} \cup analyses : \A m \in analyses : m <= n

(* Room is what the server waits for. *)
Room(c)     == unread[c] < Buffer
Puts(c, n)  == inbox' = [inbox EXCEPT ![c] = Append(@, n)] /\ unread' = [unread EXCEPT ![c] = @ + 1]
Listed(c)   == /\ connections' = connections \cup {c}
               /\ place' = [place EXCEPT ![c] = 1 + Cardinality({d \in Clients : place[d] > 0})]
Disconnect(cs) == connections' = connections \ cs /\ UNCHANGED place

-----------------------------------------------------------------------------
(* Clients                                                                 *)

ClientConnects(c) ==
  /\ client[c] = "away"
  /\ client' = [client EXCEPT ![c] = "there"]
  /\ stream' = [stream EXCEPT ![c] = "accepting"]
  /\ UNCHANGED <<connections, place, inbox, unread, analyses, seen, events, tasks>>

ClientReads(c) ==
  /\ client[c] = "there" /\ unread[c] > 0
  /\ unread' = [unread EXCEPT ![c] = @ - 1]
  /\ UNCHANGED <<connections, place, stream, client, inbox, analyses, seen, events, tasks>>

(* It closes, or the server's ping goes unanswered. *)
ClientLeaves(c) ==
  /\ client[c] = "there"
  /\ client' = [client EXCEPT ![c] = "left"]
  /\ UNCHANGED <<connections, place, stream, inbox, unread, analyses, seen, events, tasks>>

-----------------------------------------------------------------------------
(* threat_stream                                                           *)

(* After accept: listed, the store read, the snapshot sent, without an await *)
(* in between. A connection that is gone raises WebSocketDisconnect, which   *)
(* takes it off the list, or RuntimeError, which does not.                 *)
Accepted(c) ==
  /\ stream[c] = "accepting"
  /\ seen' = [seen EXCEPT ![c] = Newest]
  /\ \/ /\ client[c] = "there" /\ Puts(c, 0)
        /\ Listed(c)
        /\ stream' = [stream EXCEPT ![c] = "receiving"]
     \/ /\ client[c] = "left" /\ stream' = [stream EXCEPT ![c] = "ended"]
        /\ Listed(c) \/ UNCHANGED <<connections, place>>
        /\ UNCHANGED <<inbox, unread>>
  /\ UNCHANGED <<client, analyses, events, tasks>>

(* receive_text raises WebSocketDisconnect. *)
StreamEnds(c) ==
  /\ stream[c] = "receiving" /\ client[c] = "left"
  /\ stream' = [stream EXCEPT ![c] = "ended"]
  /\ Disconnect({c})
  /\ UNCHANGED <<client, inbox, unread, analyses, seen, events, tasks>>

-----------------------------------------------------------------------------
(* Publishing                                                              *)

Starts(n) ==
  tasks' = [tasks EXCEPT ![n] = [at |-> "sending", todo |-> connections, dead |-> {},
              left |-> {c \in connections : client[c] = "left"}]]

(* analyze_threats: analysis, store.set and the start of broadcast, without *)
(* an await. *)
Analyse ==
  /\ events < MaxEvent
  /\ events' = events + 1 /\ analyses' = analyses \cup {events + 1}
  /\ Starts(events + 1)
  /\ UNCHANGED <<connections, place, stream, client, inbox, unread, seen>>

(* _emit_event: the loop starts the broadcast of a sensor's event. *)
EmitEvent ==
  /\ events < MaxEvent
  /\ events' = events + 1
  /\ Starts(events + 1)
  /\ UNCHANGED <<connections, place, stream, client, inbox, unread, analyses, seen>>

(* broadcast works on a copy of the list, in its order. *)
IsNext(n, c) ==
  /\ tasks[n].at = "sending" /\ c \in tasks[n].todo
  /\ \A d \in tasks[n].todo : place[c] <= place[d]

(* Mutant of SendNext: a client that is gone ends the round. *)
SendNextStopping(n) ==
  \E c \in Clients :
    /\ IsNext(n, c)
    /\ \/ /\ client[c] = "there" /\ Room(c) /\ Puts(c, n)
          /\ tasks' = [tasks EXCEPT ![n].todo = @ \ {c}]
       \/ /\ client[c] = "left"
          /\ tasks' = [tasks EXCEPT ![n].todo = {}, ![n].dead = @ \cup {c}]
          /\ UNCHANGED <<inbox, unread>>
    /\ UNCHANGED <<connections, place, stream, client, analyses, seen, events>>

(* Mutant of SendNext: a send to a client that is gone never fails. *)
SendNextWaiting(n) ==
  \E c \in Clients :
    /\ IsNext(n, c)
    /\ client[c] = "there" /\ Room(c) /\ Puts(c, n)
    /\ tasks' = [tasks EXCEPT ![n].todo = @ \ {c}]
    /\ UNCHANGED <<connections, place, stream, client, analyses, seen, events>>

(* One send after the other; a send waits for room, and fails on a          *)
(* connection that is gone.                                                *)
SendNext(n) ==
  \E c \in Clients :
    /\ IsNext(n, c)
    /\ \/ /\ client[c] = "there" /\ Room(c) /\ Puts(c, n)
          /\ tasks' = [tasks EXCEPT ![n].todo = @ \ {c}]
       \/ /\ client[c] = "left"
          /\ tasks' = [tasks EXCEPT ![n].todo = @ \ {c}, ![n].dead = @ \cup {c}]
          /\ UNCHANGED <<inbox, unread>>
    /\ UNCHANGED <<connections, place, stream, client, analyses, seen, events>>

(* Mutant of RoundEnds: those it could not reach stay. *)
RoundEndsKeeping(n) ==
  /\ tasks[n].at = "sending" /\ tasks[n].todo = {}
  /\ tasks' = [tasks EXCEPT ![n].at = "done"]
  /\ UNCHANGED <<connections, place, stream, client, inbox, unread, analyses, seen, events>>

(* Those it could not reach are taken off the list, if they are on it. *)
RoundEnds(n) ==
  /\ tasks[n].at = "sending" /\ tasks[n].todo = {}
  /\ Disconnect(tasks[n].dead)
  /\ tasks' = [tasks EXCEPT ![n].at = "done"]
  /\ UNCHANGED <<stream, client, inbox, unread, analyses, seen, events>>

LoopStep ==
  \/ \E c \in Clients : Accepted(c) \/ StreamEnds(c)
  \/ \E n \in 1..MaxEvent : SendNext(n) \/ RoundEnds(n)

HubNext ==
  \/ \E c \in Clients : ClientConnects(c) \/ ClientReads(c) \/ ClientLeaves(c)
  \/ Analyse \/ EmitEvent \/ LoopStep

(* The loop runs on; a client reads, or leaves, or its ping times out. *)
HubSpec == HubInit /\ [][HubNext]_hubVars /\ WF_hubVars(LoopStep)
           /\ \A c \in Clients : WF_hubVars(ClientReads(c) \/ ClientLeaves(c))

-----------------------------------------------------------------------------
HubTypeOK ==
  /\ connections \subseteq Clients /\ place \in [Clients -> 0..Cardinality(Clients)]
  /\ stream \in [Clients -> {"none", "accepting", "receiving", "ended"}]
  /\ client \in [Clients -> {"away", "there", "left"}]
  /\ \A c \in Clients : Messages(c) \subseteq 0..events /\ unread[c] \in 0..Len(inbox[c])
  /\ analyses \subseteq 1..events /\ seen \in [Clients -> {0} \cup analyses]
  /\ \A n \in 1..MaxEvent : /\ tasks[n].at \in {"none", "sending", "done"}
                            /\ tasks[n].todo \cup tasks[n].dead \subseteq Clients

(* A client is first told "connected" (main.py:161-170): no event overtakes *)
(* the snapshot though the connection is listed before it is sent.         *)
ConnectedFirst == \A c \in Clients : inbox[c] # <<>> => Head(inbox[c]) = 0

(* Snapshot and stream fit together (main.py:113-121, 161-170): a client    *)
(* that is there has every analysis in its snapshot, in its inbox or still   *)
(* coming, none twice, and none of its snapshot again, and was told           *)
(* "connected" before any.                                                 *)
NoAnalysisMissed ==
  /\ ConnectedFirst
  /\ \A c \in Clients : client[c] = "there" /\ stream[c] = "receiving" =>
       \A n \in analyses :
         LET got    == Cardinality({i \in DOMAIN inbox[c] : inbox[c][i] = n})
             coming == IF c \in tasks[n].todo THEN 1 ELSE 0
         IN  got + coming = IF n <= seen[c] THEN 0 ELSE 1

(* A client that left stays on the list no longer than the next broadcast   *)
(* (main.py:53-61), whichever exception ended its stream (161-174), and      *)
(* however many broadcasts find it gone at once.                           *)
DeadAreDropped ==
  \A n \in 1..MaxEvent : tasks[n].at = "done" => tasks[n].left \cap connections = {}

(* Every broadcast comes to an end, however slow its clients (main.py:52-61)*)
BroadcastsEnd == \A n \in 1..MaxEvent : (tasks[n].at = "sending") ~> (tasks[n].at = "done")
=============================================================================
