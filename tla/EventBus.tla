-------------------------------- MODULE EventBus --------------------------------
(***************************************************************************)
(* The in-process bus between the handlers that publish analyzer.* events  *)
(* and the WebSocket connections that stream them (events.py).             *)
(* Connections run on the event loop; the handlers of the worker's         *)
(* requests are threads of the pool and call publish from there.  publish  *)
(* works on asyncio.Queue, which is not made for threads: its test for     *)
(* room, its append and the wake-up of a waiting reader are separate steps *)
(* another thread can come between, and so are a reader's test for         *)
(* emptiness and what follows it, the removal or its going to sleep.       *)
(* What POST /v1/analyze publishes from the loop itself has the same steps *)
(* with fewer interleavings.                                               *)
(***************************************************************************)
EXTENDS Naturals, Sequences, FiniteSets, SequencesExt

CONSTANTS
  Threads,      \* handler threads that publish
  Clients,      \* WebSocket connections
  Cap,          \* maxsize of a subscriber's queue (256 in the code)
  MaxEvents     \* bound on the events of one thread

ASSUME BusAssumption == Cap \in Nat \ {0} /\ MaxEvents \in Nat /\ IsFiniteSet(Threads)

VARIABLES
  subscribers,  \* the connected clients' queues, in order of subscription
  queue,        \* queue[c]: the asyncio.Queue of client c
  reader,       \* reader[c]: where stream() is
  received,     \* received[c]: what was sent down the WebSocket
  pc,           \* pc[t]: where publish is, for the first client of todo[t]
  todo,         \* todo[t]: the rest of the snapshot of the subscribers
  sent          \* sent[t]: how many events t has published

vars == <<subscribers, queue, reader, received, pc, todo, sent>>

Readers == {"off", "get", "take", "saw_empty", "parked", "woken", "gone"}
Connected == {c \in Clients : reader[c] \notin {"off", "gone"}}
Events == [from : Threads, nr : 1..MaxEvents]
Event(t) == [from |-> t, nr |-> sent[t]]

\* A client has one queue from its subscription to the end of its connection.
Subscribed == IsInjective(subscribers) /\ Range(subscribers) = Connected

TypeOK ==
  /\ subscribers \in Seq(Clients)
  /\ queue \in [Clients -> Seq(Events)] /\ received \in [Clients -> Seq(Events)]
  /\ reader \in [Clients -> Readers]
  /\ pc \in [Threads -> {"idle", "next", "append", "wake", "drop", "retry"}]
  /\ todo \in [Threads -> Seq(Clients)]
  /\ sent \in [Threads -> 0..MaxEvents]
  /\ Subscribed

Init == /\ subscribers = <<>>
        /\ queue = [c \in Clients |-> <<>>] /\ received = [c \in Clients |-> <<>>]
        /\ reader = [c \in Clients |-> "off"]
        /\ pc = [t \in Threads |-> "idle"] /\ todo = [t \in Threads |-> <<>>]
        /\ sent = [t \in Threads |-> 0]

-------------------------------------------------------------------------------
\* publish, in thread t.

Publish(t) == /\ pc[t] = "idle" /\ sent[t] < MaxEvents
              /\ sent' = [sent EXCEPT ![t] = @ + 1]
              /\ todo' = [todo EXCEPT ![t] = subscribers]
              /\ pc' = [pc EXCEPT ![t] = "next"]
              /\ UNCHANGED <<subscribers, queue, reader, received>>

At(t, from, to) == pc[t] = from /\ pc' = [pc EXCEPT ![t] = to]
HasRoom(c) == Len(queue[c]) < Cap
Serving(t) == Head(todo[t])
Served(t) == todo' = [todo EXCEPT ![t] = Tail(@)]

Return(t) == /\ todo[t] = <<>> /\ At(t, "next", "idle")
             /\ UNCHANGED <<subscribers, queue, reader, received, todo, sent>>

RoomUnchecked(t) ==                         \* a queue without maxsize
  /\ todo[t] # <<>> /\ At(t, "next", "append")
  /\ UNCHANGED <<subscribers, queue, reader, received, todo, sent>>
\* put_nowait: full() first, then the append.
Room(t) == /\ todo[t] # <<>>
           /\ \/ HasRoom(Serving(t)) /\ At(t, "next", "append")
              \/ ~HasRoom(Serving(t)) /\ At(t, "next", "drop")
           /\ UNCHANGED <<subscribers, queue, reader, received, todo, sent>>

Put(t) == /\ At(t, "append", "wake")
          /\ queue' = [queue EXCEPT ![Serving(t)] = Append(@, Event(t))]
          /\ UNCHANGED <<subscribers, reader, received, todo, sent>>

\* _wakeup_next: the future of a parked reader, if there is one.
Wake(t) == /\ At(t, "wake", "next")
           /\ reader' = IF reader[Serving(t)] = "parked"
                        THEN [reader EXCEPT ![Serving(t)] = "woken"] ELSE reader
           /\ Served(t)
           /\ UNCHANGED <<subscribers, queue, received, sent>>

\* The exception is swallowed: this client does not get the event.
GiveUp(t) == Served(t)

\* QueueFull: get_nowait takes the oldest event out.  The reader may have emptied
\* the queue meanwhile: QueueEmpty, and the new event is given up.
DropOldest(t) ==
  /\ \/ /\ At(t, "drop", "retry") /\ queue[Serving(t)] # <<>>
        /\ queue' = [queue EXCEPT ![Serving(t)] = Tail(@)]
        /\ UNCHANGED todo
     \/ /\ At(t, "drop", "next") /\ queue[Serving(t)] = <<>>
        /\ GiveUp(t) /\ UNCHANGED queue
  /\ UNCHANGED <<subscribers, reader, received, sent>>

\* The second put_nowait: full again when another thread took the place.
Retry(t) ==
  /\ \/ At(t, "retry", "append") /\ HasRoom(Serving(t)) /\ UNCHANGED todo
     \/ At(t, "retry", "next") /\ ~HasRoom(Serving(t)) /\ GiveUp(t)
  /\ UNCHANGED <<subscribers, queue, reader, received, sent>>

PublishStep(t) == \/ Publish(t) \/ Return(t) \/ Room(t) \/ Put(t) \/ Wake(t)
                  \/ DropOldest(t) \/ Retry(t)

-------------------------------------------------------------------------------
\* The connection of client c, on the event loop.

Read(c, from, to) == reader[c] = from /\ reader' = [reader EXCEPT ![c] = to]

Subscribe(c) == /\ Read(c, "off", "get")
                /\ subscribers' = Append(subscribers, c)
                /\ UNCHANGED <<queue, received, pc, todo, sent>>

TakePeeking(c) ==                           \* reads without taking out
  /\ queue[c] # <<>> /\ Read(c, "take", "get")
  /\ received' = [received EXCEPT ![c] = Append(@, Head(queue[c]))]
  /\ UNCHANGED <<subscribers, queue, pc, todo, sent>>
\* get_nowait, and the event is sent.
Take(c) ==
  /\ queue[c] # <<>> /\ Read(c, "take", "get")
  /\ received' = [received EXCEPT ![c] = Append(@, Head(queue[c]))]
  /\ queue' = [queue EXCEPT ![c] = Tail(@)]
  /\ UNCHANGED <<subscribers, pc, todo, sent>>

\* Queue.get: with an event there, get_nowait; with none, a future is parked.
Stream(c) ==
  /\ \/ queue[c] # <<>> /\ (Read(c, "get", "take") \/ Read(c, "woken", "take"))
     \/ queue[c] = <<>> /\ (Read(c, "get", "saw_empty") \/ Read(c, "woken", "saw_empty"))
     \/ Read(c, "saw_empty", "parked")
  /\ UNCHANGED <<subscribers, queue, received, pc, todo, sent>>

\* An exception ends the connection; the finally blocks unsubscribe it.
LeaveSubscribed(c) ==                       \* without the finally blocks
  Read(c, "take", "gone") /\ UNCHANGED subscribers
Leave(c) ==
  /\ Read(c, "take", "gone")
  /\ \E i \in DOMAIN subscribers :
       subscribers[i] = c /\ subscribers' = RemoveAt(subscribers, i)

\* send_text raises: the client is gone.
Disconnect(c) == /\ queue[c] # <<>> /\ Leave(c)
                 /\ queue' = [queue EXCEPT ![c] = Tail(@)]
                 /\ UNCHANGED <<received, pc, todo, sent>>

\* get_nowait raises QueueEmpty: a publisher that once found the queue full has taken
\* out the last event meanwhile.
Emptied(c) == /\ queue[c] = <<>> /\ Leave(c)
              /\ UNCHANGED <<queue, received, pc, todo, sent>>

Next == \/ \E t \in Threads : PublishStep(t)
        \/ \E c \in Clients : \/ Subscribe(c) \/ Stream(c) \/ Take(c)
                                \/ Disconnect(c) \/ Emptied(c)

Spec == Init /\ [][Next]_vars

-------------------------------------------------------------------------------
\* A client sees the events of one publisher in their order and none twice,
\* whatever is dropped in between: track_stage, then track_done.
InOrder ==
  \A c \in Clients : LET stream == received[c] \o queue[c] IN
    \A i, k \in DOMAIN stream :
      i < k /\ stream[i].from = stream[k].from => stream[i].nr < stream[k].nr

\* A client that does not read costs a bounded backlog: the queue overshoots its
\* maxsize by the threads that saw room at the same time, and no further.
BacklogBounded == \A c \in Clients : Len(queue[c]) < Cap + Cardinality(Threads)

Promise == INSTANCE Broadcast

\* Queues, threads and dropped events implement the best-effort stream: nothing is
\* repeated, invented or out of its publisher's order.
BroadcastSpec == Promise!Spec

-------------------------------------------------------------------------------
\* "safe to call from worker threads" (publish): a reader does not sleep over an
\* event unless its publisher is about to wake it.
NoMissedWakeup ==
  \A c \in Clients : reader[c] = "parked" /\ queue[c] # <<>>
    => \E t \in Threads : pc[t] = "wake" /\ Serving(t) = c
===============================================================================
