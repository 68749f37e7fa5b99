---------------------------- MODULE EventStream ----------------------------
(***************************************************************************)
(* The events of one investigation on their way from a producer to the     *)
(* browser: agui/event_bus.py, agui/state_store.py, agui/ws_manager.py and *)
(* the WebSocket client ui/src/api/ws.ts.                                  *)
(*                                                                         *)
(* Everything on the server runs on one event loop.  The stores are called *)
(* without ever suspending, so the loop is given up only while a message   *)
(* is being sent, when a queue is full, or between two turns.              *)
(***************************************************************************)
EXTENDS Naturals, Sequences, SequencesExt, FiniteSets

CONSTANTS Event, NoEvent,
          SeqNum,     \* AGUIEvent.sequence_num
          Streamed,   \* one producer publishes all events in numeric order
          Client,
          Dynamo,     \* the DynamoDB table was reachable at startup
          QueueMax,   \* QUEUE_MAX_SIZE
          SeenMax, SeenTrim,  \* 100_000 and 10_000 of _process_event
          MaxConn,    \* bound: connections per client
          MaxRestart  \* bound: restarts of the BFF

ASSUME EventAssumption == NoEvent \notin Event /\ SeqNum \in [Event -> Nat]
ASSUME BoundAssumption == /\ QueueMax \in Nat \ {0}
                          /\ SeenTrim \in 1..SeenMax /\ SeenMax \in Nat
                          /\ {MaxConn, MaxRestart} \subseteq Nat
ASSUME ModeAssumption == {Dynamo, Streamed} \subseteq BOOLEAN

VARIABLES
  published,  \* events handed to publish
  queue,      \* InProcessEventBus._queues[investigation_id]
  putters,    \* publishers waiting for room in the queue
  seen,       \* _seen, in insertion order
  taken,      \* the event _process_event is broadcasting
  todo,       \* handlers it has not called yet
  subs,       \* _subscribers[investigation_id]; a handler is its connection
  mem, table, \* the stored events: InMemoryStateBackend and DynamoDB
  phase,      \* of each connection on the server
  since,      \* the last_seq a connection was opened with
  backlog,    \* history events a connection has still to replay
  link,       \* the connection a client is using, 0 for none
  conns,      \* connections a client has opened
  lastSeq,    \* AGUIWebSocket.lastSeq
  recv,       \* events handed to the client's onEvent
  restarts

busVars == <<queue, putters, seen, taken, todo, subs>>
storeVars == <<mem, table>>
serverVars == <<phase, since, backlog>>
clientVars == <<link, conns, lastSeq, recv>>
vars == <<published, busVars, storeVars, serverVars, clientVars, restarts>>

\* A connection is named by its client and its number.
Connection == Client \X (1..MaxConn)
Phase == {"new", "ack", "replay", "open", "gone"}

Init ==
  /\ published = {}
  /\ queue = <<>> /\ putters = {}
  /\ seen = <<>> /\ taken = NoEvent /\ todo = <<>> /\ subs = <<>>
  /\ mem = <<>> /\ table = {}
  /\ phase = [k \in Connection |-> "new"]
  /\ since = [k \in Connection |-> 0]
  /\ backlog = [k \in Connection |-> <<>>]
  /\ link = [c \in Client |-> 0]
  /\ conns = [c \in Client |-> 0]
  /\ lastSeq = [c \in Client |-> 0]
  /\ recv = [c \in Client |-> <<>>]
  /\ restarts = 0

\* set_idempotency_key: a hash of investigation id and sequence number, so
\* within one investigation the sequence number.
Key(e) == SeqNum[e]

----------------------------------------------------------------------------
(* Wrong variants of the definitions below; the specification never uses them. *)

\* The newest keys are trimmed instead of the oldest.
RememberOldest(k) ==
  LET s == Append(seen, k)
  IN  IF Len(s) > SeenMax THEN SubSeq(s, 1, Len(s) - SeenTrim) ELSE s

\* The event is broadcast without being stored.
StoreNothing(e) == UNCHANGED <<mem, table>>

\* connect reads the history from conn.last_seq, which live events move.
LoadHistoryFromConn(k) ==
  /\ phase[k] = "ack"
  /\ phase' = [phase EXCEPT ![k] = "replay"]
  /\ backlog' = [backlog EXCEPT ![k] =
                   SelectSeq(mem, LAMBDA e : SeqNum[e] >= lastSeq[k[1]])]
  /\ UNCHANGED <<since, published, busVars, storeVars, clientVars, restarts>>

\* A send to a lost client never ends.
BroadcastWaits ==
  /\ taken # NoEvent
  /\ todo # <<>>
  /\ link[Head(todo)[1]] = Head(todo)[2]
  /\ todo' = Tail(todo)
  /\ recv' = [recv EXCEPT ![Head(todo)[1]] = Append(@, taken)]
  /\ UNCHANGED <<published, queue, putters, seen, taken, subs, storeVars, serverVars,
                 link, conns, lastSeq, restarts>>

----------------------------------------------------------------------------
(* Event bus *)

\* asyncio.Queue.put: at once when there is room, else the publisher waits.
Enqueue(e) ==
  IF Len(queue) < QueueMax
    THEN queue' = Append(queue, e) /\ UNCHANGED putters
    ELSE putters' = putters \cup {e} /\ UNCHANGED queue

\* InProcessEventBus.publish, by any producer or by the one that awaits each
\* publish before the next.
Publish(e) ==
  /\ e \notin published
  /\ Streamed => /\ putters = {}
                 /\ \A d \in Event : SeqNum[d] < SeqNum[e] => d \in published
  /\ published' = published \cup {e}
  /\ Enqueue(e)
  /\ UNCHANGED <<seen, taken, todo, subs, storeVars, serverVars, clientVars, restarts>>

\* A waiting publisher finds room; which one is up to the scheduler.
PutWaiting(e) ==
  /\ e \in putters
  /\ Len(queue) < QueueMax
  /\ queue' = Append(queue, e)
  /\ putters' = putters \ {e}
  /\ UNCHANGED <<published, seen, taken, todo, subs, storeVars, serverVars, clientVars,
                 restarts>>

\* The seen dictionary with key k; when it grows beyond its limit the oldest
\* entries go.
Remember(k) ==
  LET s == Append(seen, k)
  IN  IF Len(s) > SeenMax THEN SubSeq(s, SeenTrim + 1, Len(s)) ELSE s

\* StateStore.put_event: the selected backend, then always the memory; when
\* there is no table the selected backend is the memory.
StoreEvent(e) ==
  /\ mem' = IF Dynamo THEN Append(mem, e) ELSE mem \o <<e, e>>
  /\ \E t \in {table, table \cup {e}} : table' = IF Dynamo THEN t ELSE table

\* _process_event up to the first handler: a key seen before ends it.
Take ==
  /\ taken = NoEvent
  /\ queue # <<>>
  /\ queue' = Tail(queue)
  /\ IF Contains(seen, Key(Head(queue)))
       THEN UNCHANGED <<seen, taken, todo, storeVars>>
       ELSE /\ seen' = Remember(Key(Head(queue)))
            /\ StoreEvent(Head(queue))
            /\ todo' = subs
            /\ taken' = Head(queue)
  /\ UNCHANGED <<published, putters, subs, serverVars, clientVars, restarts>>

\* _deliver_event and AGUIWebSocket.handleMessage: what is sent over a
\* connection the client has lost is gone, and no one notices.
Deliver(k, e) ==
  LET c == k[1]
  IN  IF link[c] = k[2]
        THEN /\ recv' = [recv EXCEPT ![c] = Append(@, e)]
             /\ lastSeq' = [lastSeq EXCEPT ![c] = IF SeqNum[e] > @ THEN SeqNum[e] ELSE @]
        ELSE UNCHANGED <<recv, lastSeq>>

\* The handler of the next connection; it does nothing for one that is gone.
Broadcast ==
  /\ taken # NoEvent
  /\ todo # <<>>
  /\ todo' = Tail(todo)
  /\ IF phase[Head(todo)] # "gone" THEN Deliver(Head(todo), taken)
     ELSE UNCHANGED <<recv, lastSeq>>
  /\ UNCHANGED <<published, queue, putters, seen, taken, subs, storeVars, serverVars,
                 link, conns, restarts>>

\* _process_event returns to _dispatch_loop.
FinishEvent ==
  /\ taken # NoEvent
  /\ todo = <<>>
  /\ taken' = NoEvent
  /\ UNCHANGED <<published, queue, putters, seen, todo, subs, storeVars, serverVars,
                 clientVars, restarts>>

----------------------------------------------------------------------------
(* Connections *)

\* DynamoDBStateBackend.get_events: begins_with on the zero-padded number
\* yields the events of exactly that number, in order of their random ids.
QueryTable(from) == {e \in table : SeqNum[e] = from}

\* InMemoryStateBackend.get_events: the positions of the events from a number on,
\* and the sequences that list positions in their order.
Newer(from) == {i \in DOMAIN mem : SeqNum[mem[i]] >= from}
InOrder(I) == {f \in SetToSeqs(I) : \A m, n \in DOMAIN f : m < n => f[m] < f[n]}

\* StateStore.get_events: the memory, or the table when that has nothing.
Histories(from) ==
  IF Newer(from) # {}
    THEN {[n \in DOMAIN f |-> mem[f[n]]] : f \in InOrder(Newer(from))}
    ELSE SetToSeqs(QueryTable(from))

\* ws.ts connect and WSManager.connect up to the acknowledgement: the
\* connection is recorded and subscribed.  The query carries lastSeq.
Connect(c) ==
  LET k == <<c, conns[c] + 1>>
  IN  /\ link[c] = 0
      /\ conns[c] < MaxConn
      /\ conns' = [conns EXCEPT ![c] = @ + 1]
      /\ link' = [link EXCEPT ![c] = conns[c] + 1]
      /\ subs' = Append(subs, k)
      /\ phase' = [phase EXCEPT ![k] = "ack"]
      /\ since' = [since EXCEPT ![k] = lastSeq[c]]
      /\ UNCHANGED <<backlog, published, queue, putters, seen, taken, todo, storeVars, lastSeq,
                     recv, restarts>>

\* The acknowledgement is out; get_history is read at once, from the lastSeq
\* the client connected with.
LoadHistory(k) ==
  /\ phase[k] = "ack"
  /\ phase' = [phase EXCEPT ![k] = "replay"]
  /\ \E h \in Histories(since[k]) : backlog' = [backlog EXCEPT ![k] = h]
  /\ UNCHANGED <<since, published, busVars, storeVars, clientVars, restarts>>

\* One turn of the replay loop of connect.
Replay(k) ==
  /\ phase[k] = "replay"
  /\ backlog[k] # <<>>
  /\ Deliver(k, Head(backlog[k]))
  /\ backlog' = [backlog EXCEPT ![k] = Tail(@)]
  /\ UNCHANGED <<published, busVars, storeVars, phase, since, link, conns, restarts>>

\* connect returns and handle_connection waits for client messages.
OpenConnection(k) ==
  /\ phase[k] = "replay"
  /\ backlog[k] = <<>>
  /\ phase' = [phase EXCEPT ![k] = "open"]
  /\ UNCHANGED <<published, busVars, storeVars, since, backlog, clientVars, restarts>>

\* The network between client and server fails; the client notices.
LoseLink(c) ==
  /\ link[c] # 0
  /\ link' = [link EXCEPT ![c] = 0]
  /\ UNCHANGED <<published, busVars, storeVars, serverVars, conns, lastSeq, recv, restarts>>

\* The server notices (receive fails, idle timeout or heartbeat):
\* WSManager.disconnect unsubscribes the handler.
Disconnect(k) ==
  /\ phase[k] = "open"
  /\ link[k[1]] # k[2]
  /\ phase' = [phase EXCEPT ![k] = "gone"]
  /\ subs' = RemoveFirst(subs, k)
  /\ UNCHANGED <<published, queue, putters, seen, taken, todo, storeVars, since, backlog,
                 clientVars, restarts>>

\* The BFF stops and starts again: all but the table and the clients is lost.
Restart ==
  /\ restarts < MaxRestart
  /\ restarts' = restarts + 1
  /\ queue' = <<>> /\ putters' = {} /\ seen' = <<>> /\ taken' = NoEvent
  /\ todo' = <<>> /\ subs' = <<>> /\ mem' = <<>>
  /\ phase' = [k \in Connection |-> IF phase[k] = "new" THEN "new" ELSE "gone"]
  /\ backlog' = [k \in Connection |-> <<>>]
  /\ link' = [c \in Client |-> 0]
  /\ UNCHANGED <<published, table, since, conns, lastSeq, recv>>

----------------------------------------------------------------------------
BusStep == Take \/ Broadcast \/ FinishEvent

ConnectionStep(k) == LoadHistory(k) \/ Replay(k) \/ OpenConnection(k)

Next ==
  \/ \E e \in Event : Publish(e) \/ PutWaiting(e)
  \/ BusStep
  \/ \E c \in Client : Connect(c) \/ LoseLink(c)
  \/ \E k \in Connection : ConnectionStep(k) \/ Disconnect(k)
  \/ Restart

Spec == Init /\ [][Next]_vars

\* The event loop runs the dispatcher and every task that can go on; a send
\* ends, at the latest when the server's WebSocket ping times out.
Fairness ==
  /\ WF_vars(BusStep)
  /\ \A e \in Event : SF_vars(PutWaiting(e))
  /\ \A k \in Connection : WF_vars(ConnectionStep(k))

FairSpec == Spec /\ Fairness

----------------------------------------------------------------------------
(* Safety *)

\* Every variable stays in its domain; the queue and the seen keys keep
\* their limits.
TypeOK ==
  /\ published \subseteq Event /\ putters \subseteq published
  /\ queue \in Seq(Event) /\ Len(queue) <= QueueMax
  /\ seen \in Seq(Nat) /\ Len(seen) <= SeenMax
  /\ taken \in Event \cup {NoEvent}
  /\ todo \in Seq(Connection) /\ subs \in Seq(Connection)
  /\ mem \in Seq(Event) /\ table \subseteq Event
  /\ phase \in [Connection -> Phase]
  /\ since \in [Connection -> Nat]
  /\ backlog \in [Connection -> Seq(Event)]
  /\ link \in [Client -> 0..MaxConn] /\ conns \in [Client -> 0..MaxConn]
  /\ lastSeq \in [Client -> Nat]
  /\ recv \in [Client -> Seq(Event)]
  /\ restarts \in 0..MaxRestart

InBus == ToSet(queue) \cup putters

\* No event vanishes between its publication and the store while the BFF
\* runs: it is queued, waits for room in the queue, or an event with its key
\* was stored.  (Events of one key are one to the bus.)
NoEventLost ==
  restarts = 0 =>
    \A e \in published : e \in InBus \/ \E d \in ToSet(mem) : Key(d) = Key(e)

\* "duplicate events are deduplicated by idempotency_key": a key is processed
\* a second time only after so many other keys that it was trimmed.
\* (Without the table mem lists each processed event twice.)
DedupWindow ==
  Dynamo => \A i, j \in DOMAIN mem :
    i < j /\ Key(mem[i]) = Key(mem[j]) =>
      Cardinality({Key(mem[n]) : n \in (i + 1)..(j - 1)}) > SeenMax - SeenTrim

\* "events are written ... before broadcast": what a client receives is in a
\* store, so a reload of the page can show it again.
StoredBeforeDelivery ==
  [][\A c \in Client :
       Len(recv'[c]) > Len(recv[c]) => Last(recv'[c]) \in ToSet(mem) \cup table]_vars

Established(c) == link[c] # 0 /\ phase[<<c, link[c]>>] = "open"

\* What a client that is up to date must have been sent.
Broadcasted(c) ==
  {e \in ToSet(mem) \cup table : ~(e = taken /\ Contains(todo, <<c, link[c]>>))}

CaughtUp(c) == Broadcasted(c) \subseteq ToSet(recv[c])

\* A client on its first connection has every event, wherever in the life of
\* the stream it joined: subscribing before the history is read leaves no gap.
\* (After a restart of the BFF the table answers for one number only.)
FirstConnectionMissesNothing ==
  restarts = 0 => \A c \in Client : Established(c) /\ conns[c] = 1 => CaughtUp(c)

\* No event is missed on its way from the publisher through the bus and the store
\* to a browser, until the link or the BFF fails.
NothingMissed == TypeOK /\ NoEventLost /\ FirstConnectionMissesNothing

----------------------------------------------------------------------------
(* Liveness, under FairSpec *)

\* Every published event leaves the bus, also when its publisher had to wait
\* for room in the queue, however slow the clients are.
EventsAreHandled ==
  \A e \in Event : (e \in InBus) ~> (e \notin InBus)

\* A connection that was accepted gets through its replay while live events
\* keep coming.
ReplayEnds ==
  \A k \in Connection : (phase[k] = "ack") ~> (phase[k] \in {"open", "gone"})

\* The stream never stands still: neither a slow client nor a full queue holds
\* events back for good.
StreamProgresses == EventsAreHandled /\ ReplayEnds
=============================================================================
