--------------------------- MODULE EventBusProofs ---------------------------
(***************************************************************************)
(* For any number of threads, clients and events, and every interleaving   *)
(* of the steps of publish and stream: a client's stream keeps the order   *)
(* of each publisher, the backlog of a client that does not read is        *)
(* bounded, and the bus implements Broadcast.                              *)
(***************************************************************************)
EXTENDS EventBus, FiniteSetTheorems, SequenceTheorems, TLAPS

(***************************************************************************)
(* What is inductive.  InOrder by itself is not: the next append has to    *)
(* know that the event is newer than everything of its publisher already   *)
(* in the client's stream.  Timely says so: until a publisher is done with *)
(* a client of its snapshot, the client's stream has older events of it    *)
(* only; and a snapshot has every client once, or the event would come     *)
(* twice.  For the backlog, the threads that have seen room and not yet    *)
(* appended count as if they had.                                          *)
(***************************************************************************)
Distinct(s) == \A i, k \in DOMAIN s : s[i] = s[k] => i = k
Sorted(s) == \A i, k \in DOMAIN s : i < k /\ s[i].from = s[k].from => s[i].nr < s[k].nr
Older(E, f) == \A e \in E : e.from = f.from => e.nr < f.nr

Pending(t, c) == c \in Range(todo[t]) /\ (pc[t] = "wake" => c # Head(todo[t]))
Adding(c) == {t \in Threads : pc[t] = "append" /\ Serving(t) = c}
InStream(c) == Range(received[c]) \cup Range(queue[c])

Snapshots == \A t \in Threads :
  /\ Distinct(todo[t])
  /\ pc[t] \in {"append", "wake", "drop", "retry"} => todo[t] # <<>>
  /\ pc[t] = "idle" => todo[t] = <<>>
  /\ pc[t] # "idle" => sent[t] > 0
StreamSorted == \A c \in Clients :
  /\ Sorted(received[c]) /\ Sorted(queue[c])
  /\ \A f \in Range(queue[c]) : Older(Range(received[c]), f)
Timely == \A c \in Clients : \A e \in InStream(c) :
  /\ e.nr <= sent[e.from]
  /\ Pending(e.from, c) => e.nr < sent[e.from]
Backlog == \A c \in Clients :
  Len(queue[c]) + Cardinality(Adding(c)) < Cap + Cardinality(Threads)

IInv == TypeOK /\ Snapshots /\ StreamSorted /\ Timely /\ Backlog

-------------------------------------------------------------------------------
\* What taking the head off and appending do to a sequence.

LEMMA TailFacts ==
  ASSUME NEW S, NEW s \in Seq(S), s # <<>>
  PROVE  /\ Head(s) \in S /\ Tail(s) \in Seq(S) /\ Len(Tail(s)) = Len(s) - 1
         /\ Range(s) = {Head(s)} \cup Range(Tail(s))
<1>1. /\ Len(s) \in Nat \ {0} /\ Tail(s) \in Seq(S) /\ Len(Tail(s)) = Len(s) - 1
      /\ Head(s) = s[1] /\ Head(s) \in S
  OBVIOUS
<1>2. DOMAIN s = 1..Len(s) /\ DOMAIN Tail(s) = 1..(Len(s) - 1)
  BY <1>1
<1>3. \A i \in DOMAIN Tail(s) : Tail(s)[i] = s[i + 1]
  BY <1>1, <1>2
<1>4. \A i \in DOMAIN s : s[i] = Head(s) \/ (i - 1 \in DOMAIN Tail(s) /\ s[i] = Tail(s)[i - 1])
  BY <1>1, <1>2, <1>3
<1>5. 1 \in DOMAIN s /\ \A i \in DOMAIN Tail(s) : i + 1 \in DOMAIN s
  BY <1>1, <1>2
<1>6. Range(s) \subseteq {Head(s)} \cup Range(Tail(s))
  BY <1>4 DEF Range
<1>7. Head(s) \in Range(s) /\ Range(Tail(s)) \subseteq Range(s)
  BY <1>1, <1>3, <1>5 DEF Range
<1> QED
  BY <1>1, <1>6, <1>7

\* The tail of a sequence by its indices.
LEMMA TailByIndex ==
  ASSUME NEW S, NEW s \in Seq(S), s # <<>>
  PROVE  /\ Len(s) \in Nat \ {0} /\ Head(s) = s[1]
         /\ DOMAIN s = 1..Len(s) /\ DOMAIN Tail(s) = 1..(Len(s) - 1)
         /\ \A i \in 1..(Len(s) - 1) : Tail(s)[i] = s[i + 1]
OBVIOUS

LEMMA TailDistinct ==
  ASSUME NEW S, NEW s \in Seq(S), s # <<>>, Distinct(s)
  PROVE  Distinct(Tail(s)) /\ Head(s) \notin Range(Tail(s))
<1>1. /\ Len(s) \in Nat \ {0} /\ Head(s) = s[1]
      /\ DOMAIN s = 1..Len(s) /\ DOMAIN Tail(s) = 1..(Len(s) - 1)
      /\ \A i \in 1..(Len(s) - 1) : Tail(s)[i] = s[i + 1]
  BY TailByIndex
<1> QED
  BY <1>1 DEF Distinct, Range

LEMMA TailSorted ==
  ASSUME NEW s \in Seq(Events), s # <<>>, Sorted(s)
  PROVE  Sorted(Tail(s)) /\ \A f \in Range(Tail(s)) : Older({Head(s)}, f)
<1>1. /\ Len(s) \in Nat \ {0} /\ Head(s) = s[1]
      /\ DOMAIN s = 1..Len(s) /\ DOMAIN Tail(s) = 1..(Len(s) - 1)
      /\ \A i \in 1..(Len(s) - 1) : Tail(s)[i] = s[i + 1]
  BY TailByIndex
<1>2. \A i \in 1..(Len(s) - 1) : i + 1 \in DOMAIN s
  BY <1>1
<1>3. Sorted(Tail(s))
  BY <1>1, <1>2 DEF Sorted
<1>4. ASSUME NEW f \in Range(Tail(s))
      PROVE  Older({Head(s)}, f)
  <2>1. PICK i \in 1..(Len(s) - 1) : f = s[i + 1]
    BY <1>1 DEF Range
  <2>2. 1 \in DOMAIN s /\ i + 1 \in DOMAIN s /\ 1 < i + 1
    BY <1>1
  <2> QED
    BY <1>1, <2>1, <2>2 DEF Sorted, Older
<1> QED
  BY <1>3, <1>4

LEMMA AppendFacts ==
  ASSUME NEW S, NEW s \in Seq(S), NEW e \in S
  PROVE  /\ Append(s, e) \in Seq(S) /\ Len(Append(s, e)) = Len(s) + 1
         /\ Range(Append(s, e)) = Range(s) \cup {e}
<1>1. /\ Append(s, e) \in Seq(S) /\ Len(Append(s, e)) = Len(s) + 1 /\ Len(s) \in Nat
      /\ DOMAIN s = 1..Len(s) /\ DOMAIN Append(s, e) = 1..(Len(s) + 1)
      /\ \A i \in 1..Len(s) : Append(s, e)[i] = s[i]
      /\ Append(s, e)[Len(s) + 1] = e
  OBVIOUS
<1>2. \A i \in 1..(Len(s) + 1) : i \in 1..Len(s) \/ i = Len(s) + 1
  BY <1>1
<1>3. Len(s) + 1 \in 1..(Len(s) + 1) /\ \A i \in 1..Len(s) : i \in 1..(Len(s) + 1)
  BY <1>1
<1> QED
  BY <1>1, <1>2, <1>3 DEF Range

LEMMA AppendDistinct ==
  ASSUME NEW S, NEW s \in Seq(S), NEW e \in S, Distinct(s), e \notin Range(s)
  PROVE  Distinct(Append(s, e))
<1>1. /\ Len(s) \in Nat
      /\ DOMAIN s = 1..Len(s) /\ DOMAIN Append(s, e) = 1..(Len(s) + 1)
      /\ \A i \in 1..Len(s) : Append(s, e)[i] = s[i]
      /\ Append(s, e)[Len(s) + 1] = e
  OBVIOUS
<1>2. \A i \in 1..Len(s) : s[i] # e
  BY <1>1 DEF Range
<1> QED
  BY <1>1, <1>2 DEF Distinct

LEMMA AppendSorted ==
  ASSUME NEW s \in Seq(Events), NEW e \in Events, Sorted(s), Older(Range(s), e)
  PROVE  Sorted(Append(s, e))
<1>1. /\ Len(s) \in Nat
      /\ DOMAIN s = 1..Len(s) /\ DOMAIN Append(s, e) = 1..(Len(s) + 1)
      /\ \A i \in 1..Len(s) : Append(s, e)[i] = s[i]
      /\ Append(s, e)[Len(s) + 1] = e
  OBVIOUS
<1>2. \A i \in 1..Len(s) : s[i].from = e.from => s[i].nr < e.nr
  BY <1>1 DEF Range, Older
<1> QED
  BY <1>1, <1>2 DEF Sorted

LEMMA RemoveFacts ==
  ASSUME NEW S, NEW s \in Seq(S), NEW i \in DOMAIN s, Distinct(s)
  PROVE  /\ RemoveAt(s, i) \in Seq(S) /\ Distinct(RemoveAt(s, i))
         /\ Range(RemoveAt(s, i)) = Range(s) \ {s[i]}
<1> DEFINE r == RemoveAt(s, i)
           front == SubSeq(s, 1, i - 1)
           rest == SubSeq(s, i + 1, Len(s))
<1>1. Len(s) \in Nat /\ DOMAIN s = 1..Len(s) /\ i \in 1..Len(s)
  OBVIOUS
<1>2. /\ front \in Seq(S) /\ Len(front) = i - 1
      /\ \A k \in 1..(i - 1) : front[k] = s[k]
  BY <1>1
<1>3. /\ rest \in Seq(S) /\ Len(rest) = Len(s) - i
      /\ \A k \in 1..(Len(s) - i) : rest[k] = s[i + k]
  <2>1. \A k \in (i + 1)..Len(s) : s[k] \in S
    BY <1>1
  <2>2. Len(rest) = Len(s) - i /\ \A k \in 1..(Len(s) - i) : rest[k] = s[i + k]
    BY <1>1
  <2>3. rest \in Seq(S)
    BY <1>1, <2>1
  <2> QED
    BY <2>2, <2>3
<1> HIDE DEF front, rest
<1>4. r \in Seq(S) /\ Len(r) = Len(s) - 1
  <2>1. r = front \o rest
    BY DEF RemoveAt, front, rest
  <2>2. r \in Seq(S) /\ Len(r) = Len(front) + Len(rest)
    <3>1. front \o rest \in Seq(S) /\ Len(front \o rest) = Len(front) + Len(rest)
      BY <1>2, <1>3, ConcatProperties
    <3> QED
      BY <2>1, <3>1
  <2> QED
    BY <1>1, <1>2, <1>3, <2>2
<1>5. \A k \in 1..(Len(s) - 1) : r[k] = IF k < i THEN s[k] ELSE s[k + 1]
  <2> SUFFICES ASSUME NEW k \in 1..(Len(s) - 1) PROVE r[k] = IF k < i THEN s[k] ELSE s[k + 1]
    OBVIOUS
  <2>1. r = front \o rest
    BY DEF RemoveAt, front, rest
  <2>5. front \in Seq(S) /\ rest \in Seq(S) /\ k \in 1..(Len(front) + Len(rest))
    BY <1>1, <1>2, <1>3
  <2>6. (front \o rest)[k] = IF k <= Len(front) THEN front[k] ELSE rest[k - Len(front)]
    BY <2>5, ConcatProperties
  <2>2. r[k] = IF k <= i - 1 THEN front[k] ELSE rest[k - (i - 1)]
    BY <1>2, <2>1, <2>6
  <2>3. CASE k < i
    BY <1>1, <1>2, <2>2, <2>3
  <2>4. CASE k >= i
    BY <1>1, <1>3, <2>2, <2>4
  <2> QED
    BY <1>1, <2>3, <2>4
<1> HIDE DEF r
<1>6. DOMAIN r = 1..(Len(s) - 1) /\ Distinct(r)
  <2>1. DOMAIN r = 1..(Len(s) - 1)
    BY <1>4, LenProperties
  <2>2. ASSUME NEW j \in 1..(Len(s) - 1), NEW k \in 1..(Len(s) - 1), r[j] = r[k]
        PROVE  j = k
    BY <1>1, <1>5, <2>2 DEF Distinct
  <2> QED
    BY <2>1, <2>2 DEF Distinct
<1>7. Range(r) = Range(s) \ {s[i]}
  <2>1. ASSUME NEW k \in 1..(Len(s) - 1) PROVE r[k] \in Range(s) \ {s[i]}
    <3>1. PICK m \in 1..Len(s) : m # i /\ r[k] = s[m]
      <4>1. k \in 1..Len(s) /\ k + 1 \in 1..Len(s) /\ k # k + 1
        BY <1>1
      <4>2. CASE k < i
        BY <1>5, <4>1, <4>2
      <4>3. CASE k >= i
        BY <1>1, <1>5, <4>1, <4>3
      <4> QED
        BY <1>1, <4>2, <4>3
    <3> QED
      BY <1>1, <3>1 DEF Range, Distinct
  <2>2. ASSUME NEW m \in 1..Len(s), m # i PROVE s[m] \in Range(r)
    <3>1. CASE m < i
      <4>1. m \in 1..(Len(s) - 1) /\ r[m] = s[m]
        BY <1>1, <1>5, <3>1
      <4> QED
        BY <1>6, <4>1 DEF Range
    <3>2. CASE m > i
      <4>1. m - 1 \in 1..(Len(s) - 1) /\ r[m - 1] = s[m]
        BY <1>1, <1>5, <3>2
      <4> QED
        BY <1>6, <4>1 DEF Range
    <3> QED
      BY <1>1, <2>2, <3>1, <3>2
  <2>3. Range(s) = {s[m] : m \in 1..Len(s)} /\ Range(r) = {r[k] : k \in 1..(Len(s) - 1)}
    BY <1>1, <1>6 DEF Range
  <2> QED
    BY <2>1, <2>2, <2>3
<1> QED
  BY <1>4, <1>6, <1>7 DEF r

-------------------------------------------------------------------------------
\* Facts about every state, and what carries over when a step leaves a part alone.

LEMMA StreamTypes ==
  ASSUME TypeOK, NEW c \in Clients
  PROVE  /\ queue[c] \in Seq(Events) /\ received[c] \in Seq(Events)
         /\ InStream(c) \subseteq Events
         /\ \A e \in InStream(c) : e.from \in Threads /\ e.nr \in Nat /\ sent[e.from] \in Nat
<1>1. queue[c] \in Seq(Events) /\ received[c] \in Seq(Events)
  BY DEF TypeOK
<1>2. InStream(c) \subseteq Events
  BY <1>1, RangeOfSeq DEF InStream
<1>3. \A e \in Events : e.from \in Threads /\ e.nr \in Nat
  BY BusAssumption DEF Events
<1>4. \A t \in Threads : sent[t] \in Nat
  BY BusAssumption DEF TypeOK
<1> QED
  BY <1>1, <1>2, <1>3, <1>4

LEMMA AddingTypes ==
  ASSUME NEW c \in Clients
  PROVE  /\ IsFiniteSet(Adding(c)) /\ Cardinality(Adding(c)) \in Nat
         /\ Cardinality(Threads) \in Nat /\ Cardinality(Adding(c)) <= Cardinality(Threads)
<1>1. Adding(c) \subseteq Threads
  BY DEF Adding
<1> QED
  BY <1>1, FS_Subset, FS_CardinalityType, BusAssumption

LEMMA TimelyKept ==
  ASSUME TypeOK, Timely, UNCHANGED sent,
         \A c \in Clients : InStream(c)' \subseteq InStream(c),
         \A t \in Threads, c \in Clients : Pending(t, c)' => Pending(t, c)
  PROVE  Timely'
<1> SUFFICES ASSUME NEW c \in Clients, NEW e \in InStream(c)'
             PROVE  e.nr <= sent[e.from] /\ (Pending(e.from, c)' => e.nr < sent[e.from])
  BY DEF Timely
<1>1. e \in InStream(c) /\ e.from \in Threads
  BY StreamTypes
<1> QED
  BY <1>1 DEF Timely

LEMMA BacklogKept ==
  ASSUME TypeOK, Backlog,
         \A c \in Clients : Len(queue[c])' \in Nat /\ Len(queue[c])' <= Len(queue[c]),
         \A c \in Clients : Adding(c)' \subseteq Adding(c)
  PROVE  Backlog'
<1> SUFFICES ASSUME NEW c \in Clients
             PROVE  Len(queue[c])' + Cardinality(Adding(c)') < Cap + Cardinality(Threads)
  BY DEF Backlog
<1>1. Cardinality(Adding(c)') \in Nat /\ Cardinality(Adding(c)') <= Cardinality(Adding(c))
  BY AddingTypes, FS_Subset, FS_CardinalityType
<1>2. Len(queue[c]) + Cardinality(Adding(c)) < Cap + Cardinality(Threads)
  BY DEF Backlog
<1> QED
  BY <1>1, <1>2, AddingTypes, StreamTypes, BusAssumption

LEMMA InitIInv == Init => IInv
<1> SUFFICES ASSUME Init PROVE IInv
  OBVIOUS
<1>1. \A c : Adding(c) = {}
  BY DEF Init, Adding
<1>2. Range(<<>>) = {} /\ DOMAIN <<>> = {}
  BY DEF Range
<1>3. TypeOK
  BY <1>2, BusAssumption DEF Init, TypeOK, Subscribed, Connected, Readers, Distinct, IsInjective
<1>4. Snapshots /\ StreamSorted /\ Timely
  BY <1>2 DEF Init, Snapshots, Distinct, StreamSorted, Sorted, Older, Timely, InStream
<1>5. Backlog
  <2> SUFFICES ASSUME NEW c \in Clients
               PROVE  Len(queue[c]) + Cardinality(Adding(c)) < Cap + Cardinality(Threads)
    BY DEF Backlog
  <2>1. Len(queue[c]) = 0 /\ Cardinality(Adding(c)) = 0
    BY <1>1, FS_EmptySet DEF Init
  <2> QED
    BY <2>1, AddingTypes, BusAssumption
<1> QED
  BY <1>3, <1>4, <1>5 DEF IInv

-------------------------------------------------------------------------------
\* The steps of a publisher.

LEMMA PublishKeeps == ASSUME IInv, NEW t \in Threads, Publish(t) PROVE IInv'
<1> USE DEF IInv
<1>1. /\ pc[t] = "idle" /\ sent[t] < MaxEvents
      /\ sent' = [sent EXCEPT ![t] = @ + 1]
      /\ todo' = [todo EXCEPT ![t] = subscribers]
      /\ pc' = [pc EXCEPT ![t] = "next"]
      /\ UNCHANGED <<subscribers, queue, reader, received>>
  BY DEF Publish
<1>2. TypeOK'
  BY <1>1, BusAssumption DEF TypeOK, Subscribed, Connected
<1>3. StreamSorted'
  BY <1>1 DEF StreamSorted
<1>4. Snapshots'
  BY <1>1, BusAssumption DEF Snapshots, Subscribed, TypeOK, Distinct, IsInjective
<1>5. Timely'
  <2> SUFFICES ASSUME NEW c \in Clients, NEW e \in InStream(c)
               PROVE  e.nr <= sent'[e.from] /\ (Pending(e.from, c)' => e.nr < sent'[e.from])
    BY <1>1 DEF Timely, InStream
  <2>1. /\ e.from \in Threads /\ e.nr \in Nat /\ sent[e.from] \in Nat
        /\ e.nr <= sent[e.from] /\ (Pending(e.from, c) => e.nr < sent[e.from])
    BY StreamTypes DEF Timely
  <2>2. CASE e.from = t
    <3>1. sent'[e.from] = sent[e.from] + 1
      BY <1>1, <2>2 DEF TypeOK
    <3> QED
      BY <2>1, <3>1
  <2>3. CASE e.from # t
    <3>1. sent'[e.from] = sent[e.from]
      BY <1>1, <2>1, <2>3 DEF TypeOK
    <3>2. todo'[e.from] = todo[e.from] /\ pc'[e.from] = pc[e.from]
      BY <1>1, <2>1, <2>3 DEF TypeOK
    <3> QED
      BY <2>1, <3>1, <3>2 DEF Pending
  <2> QED
    BY <2>2, <2>3
<1>6. Backlog'
  <2>1. \A c : Adding(c)' \subseteq Adding(c)
    BY <1>1 DEF Adding, Serving, TypeOK
  <2>2. \A c \in Clients : Len(queue[c])' \in Nat /\ Len(queue[c])' <= Len(queue[c])
    BY <1>1, StreamTypes
  <2> QED
    BY <2>1, <2>2, BacklogKept
<1> QED
  BY <1>2, <1>3, <1>4, <1>5, <1>6

\* A step of t that only moves its pc, other than from "wake": to "append" only if
\* there is room.
LEMMA ControlKeeps ==
  ASSUME IInv, NEW t \in Threads, NEW to \in {"idle", "next", "append", "drop"},
         pc' = [pc EXCEPT ![t] = to],
         UNCHANGED <<subscribers, queue, reader, received, todo, sent>>,
         pc[t] \in {"next", "retry"},
         to \in {"append", "drop"} => todo[t] # <<>>,
         to = "append" => HasRoom(Serving(t)),
         to = "idle" => todo[t] = <<>>
  PROVE  IInv'
<1> USE DEF IInv
<1>1. TypeOK'
  BY DEF TypeOK, Subscribed, Connected
<1>2. StreamSorted'
  BY DEF StreamSorted
<1>3. Snapshots'
  BY DEF Snapshots, TypeOK
<1>4. Timely'
  <2>1. \A u \in Threads, c \in Clients : Pending(u, c)' => Pending(u, c)
    <3> SUFFICES ASSUME NEW u \in Threads, NEW c \in Clients, Pending(u, c)', pc[u] = "wake", c = Head(todo[u])
                 PROVE  FALSE
      BY DEF Pending
    <3>1. u # t /\ pc'[u] = pc[u]
      BY DEF TypeOK
    <3> QED
      BY <3>1 DEF Pending
  <2>2. \A c \in Clients : InStream(c)' \subseteq InStream(c)
    BY DEF InStream
  <2> QED
    BY <2>1, <2>2, TimelyKept
<1>5. Backlog'
  <2> SUFFICES ASSUME NEW c \in Clients
               PROVE  Len(queue[c]) + Cardinality(Adding(c)') < Cap + Cardinality(Threads)
    BY DEF Backlog
  <2>1. CASE to = "append" /\ Serving(t) = c
    <3>1. Len(queue[c]) \in Nat /\ Len(queue[c]) < Cap
      BY <2>1, StreamTypes DEF HasRoom
    <3>2. Adding(c)' \subseteq Threads
      BY DEF Adding
    <3>3. Cardinality(Adding(c)') <= Cardinality(Threads) /\ Cardinality(Adding(c)') \in Nat
      BY <3>2, FS_Subset, FS_CardinalityType, BusAssumption
    <3> QED
      BY <3>1, <3>3, AddingTypes, BusAssumption
  <2>2. CASE ~(to = "append" /\ Serving(t) = c)
    <3>1. Adding(c)' \subseteq Adding(c)
      BY <2>2 DEF Adding, Serving, TypeOK
    <3>2. Cardinality(Adding(c)') \in Nat /\ Cardinality(Adding(c)') <= Cardinality(Adding(c))
      BY <3>1, AddingTypes, FS_Subset, FS_CardinalityType
    <3> QED
      BY <3>2, AddingTypes, StreamTypes, BusAssumption DEF Backlog
  <2> QED
    BY <2>1, <2>2
<1> QED
  BY <1>1, <1>2, <1>3, <1>4, <1>5

LEMMA PutKeeps == ASSUME IInv, NEW t \in Threads, Put(t) PROVE IInv'
<1> USE DEF IInv
<1> DEFINE s == Serving(t)
           e == Event(t)
<1>1. /\ pc[t] = "append" /\ pc' = [pc EXCEPT ![t] = "wake"]
      /\ queue' = [queue EXCEPT ![s] = Append(@, e)]
      /\ UNCHANGED <<subscribers, reader, received, todo, sent>>
  BY DEF Put, At
<1>2. /\ todo[t] \in Seq(Clients) /\ todo[t] # <<>> /\ s = Head(todo[t])
      /\ s \in Clients /\ s \in Range(todo[t])
  BY <1>1, TailFacts DEF TypeOK, Snapshots, Serving
<1>3. e \in Events /\ e.from = t /\ e.nr = sent[t]
  BY <1>1, BusAssumption DEF Event, Events, TypeOK, Snapshots
<1>4. /\ queue[s] \in Seq(Events) /\ queue'[s] = Append(queue[s], e)
      /\ queue'[s] \in Seq(Events) /\ Len(queue'[s]) = Len(queue[s]) + 1
      /\ Range(queue'[s]) = Range(queue[s]) \cup {e}
  BY SMTT(30), <1>1, <1>2, <1>3, AppendFacts DEF TypeOK
<1>5. \A c \in Clients \ {s} : queue'[c] = queue[c]
  BY <1>1 DEF TypeOK
<1>6. Older(InStream(s), e)
  <2>1. Pending(t, s)
    BY <1>1, <1>2 DEF Pending
  <2> QED
    BY <2>1, <1>2, <1>3 DEF Timely, Older
<1> HIDE DEF s, e
<1>7. TypeOK'
  BY <1>1, <1>4, <1>5 DEF TypeOK, Subscribed, Connected
<1>8. Subscribed'
  BY <1>1 DEF Subscribed, TypeOK, Connected
<1>9. Snapshots'
  BY <1>1 DEF Snapshots, TypeOK
<1>10. StreamSorted'
  <2> SUFFICES ASSUME NEW c \in Clients
               PROVE  /\ Sorted(queue'[c])
                      /\ \A f \in Range(queue'[c]) : Older(Range(received[c]), f)
    BY <1>1 DEF StreamSorted
  <2>1. CASE c = s
    <3>1. Sorted(queue'[s])
      BY <1>2, <1>3, <1>4, <1>6, AppendSorted DEF StreamSorted, InStream, Older
    <3>2. Older(Range(received[s]), e)
      BY <1>6 DEF InStream, Older
    <3> QED
      BY <2>1, <3>1, <3>2, <1>4 DEF StreamSorted
  <2>2. CASE c # s
    BY <1>5, <2>2 DEF StreamSorted
  <2> QED
    BY <2>1, <2>2
<1>11. Timely'
  <2> SUFFICES ASSUME NEW c \in Clients, NEW f \in InStream(c)'
               PROVE  f.nr <= sent[f.from] /\ (Pending(f.from, c)' => f.nr < sent[f.from])
    BY <1>1 DEF Timely
  <2>1. CASE f \in InStream(c)
    <3>1. f.from \in Threads
      BY <2>1, StreamTypes
    <3>2. Pending(f.from, c)' => Pending(f.from, c)
      BY <1>1, <3>1 DEF Pending, TypeOK
    <3> QED
      BY <2>1, <3>2 DEF Timely
  <2>2. CASE f \notin InStream(c)
    <3>1. c = s /\ f = e
      BY <2>2, <1>1, <1>4, <1>5 DEF InStream
    <3>2. ~Pending(t, c)'
      BY <3>1, <1>1, <1>2 DEF Pending, TypeOK
    <3>3. sent[t] \in Nat
      BY BusAssumption DEF TypeOK
    <3> QED
      BY <3>1, <3>2, <3>3, <1>3
  <2> QED
    BY <2>1, <2>2
<1>12. Backlog'
  <2> SUFFICES ASSUME NEW c \in Clients
               PROVE  Len(queue'[c]) + Cardinality(Adding(c)') < Cap + Cardinality(Threads)
    BY <1>1 DEF Backlog
  <2>1. Len(queue[c]) + Cardinality(Adding(c)) < Cap + Cardinality(Threads)
    BY DEF Backlog
  <2>2. CASE c = s
    <3>1. t \in Adding(c) /\ Adding(c)' = Adding(c) \ {t}
      BY <1>1, <2>2 DEF Adding, Serving, TypeOK, s
    <3>2. Cardinality(Adding(c)') = Cardinality(Adding(c)) - 1
      BY <3>1, AddingTypes, FS_RemoveElement
    <3>3. Len(queue'[c]) = Len(queue[c]) + 1 /\ Len(queue[c]) \in Nat
      BY <2>2, <1>4, StreamTypes
    <3> QED
      BY <2>1, <3>2, <3>3, AddingTypes, BusAssumption
  <2>3. CASE c # s
    <3>1. Adding(c)' = Adding(c)
      BY <1>1, <2>3 DEF Adding, Serving, TypeOK, s
    <3> QED
      BY <2>1, <2>3, <3>1, <1>5
  <2> QED
    BY <2>2, <2>3
<1> QED
  BY <1>7, <1>8, <1>9, <1>10, <1>11, <1>12

\* t is done with the first client of its snapshot.
LEMMA NextClientKeeps ==
  ASSUME IInv, NEW t \in Threads,
         pc[t] \in {"wake", "drop", "retry"}, pc' = [pc EXCEPT ![t] = "next"],
         Served(t), UNCHANGED <<subscribers, queue, received, sent>>,
         reader' \in [Clients -> Readers], Connected' = Connected
  PROVE  IInv'
<1> USE DEF IInv
<1>1. /\ todo[t] \in Seq(Clients) /\ todo[t] # <<>> /\ Distinct(todo[t])
      /\ todo' = [todo EXCEPT ![t] = Tail(todo[t])]
  BY DEF Served, Snapshots, TypeOK
<1>2. /\ Tail(todo[t]) \in Seq(Clients) /\ Distinct(Tail(todo[t]))
      /\ Range(Tail(todo[t])) \subseteq Range(todo[t])
      /\ Head(todo[t]) \notin Range(Tail(todo[t]))
  BY <1>1, TailFacts, TailDistinct
<1>3. TypeOK'
  BY <1>1, <1>2 DEF TypeOK, Subscribed, Connected
<1>4. StreamSorted'
  BY DEF StreamSorted
<1>5. Snapshots'
  BY <1>1, <1>2 DEF Snapshots, TypeOK
<1>6. Timely'
  <2>1. \A u \in Threads, c \in Clients : Pending(u, c)' => Pending(u, c)
    BY <1>1, <1>2 DEF Pending, TypeOK
  <2>2. \A c \in Clients : InStream(c)' \subseteq InStream(c)
    BY DEF InStream
  <2> QED
    BY <2>1, <2>2, TimelyKept
<1>7. Backlog'
  <2>1. \A c \in Clients : Adding(c)' \subseteq Adding(c)
    BY <1>1 DEF Adding, Serving, TypeOK
  <2>2. \A c \in Clients : Len(queue[c])' \in Nat /\ Len(queue[c])' <= Len(queue[c])
    BY StreamTypes
  <2> QED
    BY <2>1, <2>2, BacklogKept
<1> QED
  BY <1>3, <1>4, <1>5, <1>6, <1>7

\* The head of a queue is taken out: to make room, or to be sent.
LEMMA TailKeeps ==
  ASSUME IInv, NEW c \in Clients, queue[c] # <<>>,
         queue' = [queue EXCEPT ![c] = Tail(@)],
         UNCHANGED <<received, todo, sent>>,
         \A t \in Threads : pc[t] = "wake" \/ pc'[t] = "append" => pc'[t] = pc[t]
  PROVE  /\ queue' \in [Clients -> Seq(Events)] /\ StreamSorted' /\ Timely' /\ Backlog'
<1> USE DEF IInv
<1>1. /\ queue[c] \in Seq(Events) /\ queue'[c] = Tail(queue[c])
      /\ Tail(queue[c]) \in Seq(Events) /\ Len(Tail(queue[c])) = Len(queue[c]) - 1
      /\ Range(Tail(queue[c])) \subseteq Range(queue[c])
      /\ \A d \in Clients \ {c} : queue'[d] = queue[d]
  BY TailFacts DEF TypeOK
<1>2. queue' \in [Clients -> Seq(Events)]
  BY <1>1 DEF TypeOK
<1>3. StreamSorted'
  <2>1. Sorted(Tail(queue[c]))
    BY <1>1, TailSorted DEF StreamSorted
  <2> QED
    BY <1>1, <2>1 DEF StreamSorted
<1>4. Timely'
  <2>1. \A u \in Threads, d \in Clients : Pending(u, d)' => Pending(u, d)
    BY DEF Pending
  <2>2. \A d \in Clients : InStream(d)' \subseteq InStream(d)
    BY <1>1 DEF InStream
  <2> QED
    BY <2>1, <2>2, TimelyKept
<1>5. Backlog'
  <2>1. \A d \in Clients : Adding(d)' \subseteq Adding(d)
    BY DEF Adding, Serving
  <2>2. \A d \in Clients : Len(queue[d])' \in Nat /\ Len(queue[d])' <= Len(queue[d])
    BY <1>1, StreamTypes
  <2> QED
    BY <2>1, <2>2, BacklogKept
<1> QED
  BY <1>2, <1>3, <1>4, <1>5

LEMMA PublishStepKeeps == ASSUME IInv, NEW t \in Threads, PublishStep(t) PROVE IInv'
<1>1. CASE Publish(t)
  BY <1>1, PublishKeeps
<1>2. CASE Return(t)
  BY <1>2, ControlKeeps DEF Return, At
<1>3. CASE Room(t)
  BY <1>3, ControlKeeps DEF Room, At
<1>4. CASE Put(t)
  BY <1>4, PutKeeps
<1>5. CASE Wake(t)
  <2>1. Connected' = Connected
    BY <1>5 DEF Wake, IInv, TypeOK, Connected
  <2>2. reader' \in [Clients -> Readers]
    BY <1>5 DEF Wake, IInv, TypeOK, Readers
  <2> QED
    BY <1>5, <2>1, <2>2, NextClientKeeps DEF Wake, At
<1>6. CASE DropOldest(t)
  <2>1. CASE /\ pc[t] = "drop" /\ pc' = [pc EXCEPT ![t] = "next"] /\ Served(t)
             /\ UNCHANGED <<subscribers, queue, reader, received, sent>>
    BY <2>1, NextClientKeeps DEF IInv, TypeOK, Connected
  <2>2. CASE /\ pc[t] = "drop" /\ pc' = [pc EXCEPT ![t] = "retry"]
             /\ queue[Serving(t)] # <<>>
             /\ queue' = [queue EXCEPT ![Serving(t)] = Tail(@)]
             /\ UNCHANGED <<subscribers, todo, reader, received, sent>>
    <3>1. Serving(t) \in Clients
      BY <2>2, TailFacts DEF IInv, Snapshots, TypeOK, Serving
    <3>2. \A u \in Threads : pc[u] = "wake" \/ pc'[u] = "append" => pc'[u] = pc[u]
      BY <2>2 DEF IInv, TypeOK
    <3>3. queue' \in [Clients -> Seq(Events)] /\ StreamSorted' /\ Timely' /\ Backlog'
      BY <2>2, <3>1, <3>2, TailKeeps
    <3>4. TypeOK' /\ Snapshots'
      BY <2>2, <3>3 DEF IInv, TypeOK, Subscribed, Snapshots, Connected
    <3> QED
      BY <3>3, <3>4 DEF IInv
  <2> QED
    BY <1>6, <2>1, <2>2 DEF DropOldest, At, GiveUp
<1>7. CASE Retry(t)
  <2>1. CASE /\ At(t, "retry", "append") /\ HasRoom(Serving(t))
             /\ UNCHANGED <<subscribers, queue, reader, received, todo, sent>>
    BY <2>1, ControlKeeps DEF At, IInv, Snapshots
  <2>2. CASE /\ At(t, "retry", "next") /\ Served(t)
             /\ UNCHANGED <<subscribers, queue, reader, received, sent>>
    BY <2>2, NextClientKeeps DEF At, IInv, TypeOK, Connected
  <2> QED
    BY <1>7, <2>1, <2>2 DEF Retry, GiveUp
<1> QED
  BY <1>1, <1>2, <1>3, <1>4, <1>5, <1>6, <1>7 DEF PublishStep

-------------------------------------------------------------------------------
\* The steps of a connection.

\* Parts that no step of a connection but the one in question disturbs.
LEMMA ReaderKeeps ==
  ASSUME IInv, UNCHANGED <<subscribers, queue, received, pc, todo, sent>>,
         reader' \in [Clients -> Readers], Connected' = Connected
  PROVE  IInv'
BY DEF IInv, TypeOK, Subscribed, Snapshots, StreamSorted, Timely, Backlog, InStream, Pending,
       Adding, Serving

LEMMA SubscribeKeeps == ASSUME IInv, NEW c \in Clients, Subscribe(c) PROVE IInv'
<1>1. /\ reader[c] = "off" /\ reader' = [reader EXCEPT ![c] = "get"]
      /\ subscribers' = Append(subscribers, c)
      /\ UNCHANGED <<queue, received, pc, todo, sent>>
  BY DEF Subscribe, Read
<1>2. /\ subscribers' \in Seq(Clients) /\ Distinct(subscribers')
      /\ Range(subscribers') = Range(subscribers) \cup {c}
  <2>1. c \notin Range(subscribers) /\ Distinct(subscribers)
    BY <1>1 DEF IInv, TypeOK, Subscribed, Connected, IsInjective, Distinct
  <2> QED
    <3>1. subscribers \in Seq(Clients)
      BY DEF IInv, TypeOK
    <3>2. /\ Append(subscribers, c) \in Seq(Clients)
          /\ Range(Append(subscribers, c)) = Range(subscribers) \cup {c}
      BY <3>1, AppendFacts
    <3>3. Distinct(Append(subscribers, c))
      BY <2>1, <3>1, AppendDistinct DEF Distinct
    <3> QED
      BY <1>1, <3>2, <3>3
<1>3. TypeOK'
  <2>1. reader' \in [Clients -> Readers] /\ Connected' = Connected \cup {c}
    BY <1>1 DEF IInv, TypeOK, Readers, Connected
  <2> QED
    BY <1>1, <1>2, <2>1 DEF IInv, TypeOK, Subscribed, IsInjective, Distinct
<1>4. Snapshots' /\ StreamSorted' /\ Timely' /\ Backlog'
  BY <1>1 DEF IInv, Snapshots, StreamSorted, Timely, Backlog, InStream, Pending, Adding, Serving
<1> QED
  BY <1>3, <1>4 DEF IInv

\* The connection ends, with an event taken out of its queue or an empty one.
LEMMA LeaveFacts ==
  ASSUME TypeOK, NEW c \in Clients, Leave(c)
  PROVE  /\ subscribers' \in Seq(Clients) /\ reader' \in [Clients -> Readers]
         /\ Subscribed'
<1>1. reader[c] = "take" /\ reader' = [reader EXCEPT ![c] = "gone"]
  BY DEF Leave, Read
<1>2. PICK i \in DOMAIN subscribers : subscribers[i] = c /\ subscribers' = RemoveAt(subscribers, i)
  BY DEF Leave
<1>3. /\ subscribers' \in Seq(Clients) /\ Distinct(subscribers')
      /\ Range(subscribers') = Range(subscribers) \ {c}
  <2>1. subscribers \in Seq(Clients) /\ Distinct(subscribers)
    BY DEF TypeOK, Subscribed, IsInjective, Distinct
  <2> QED
    BY <1>2, <2>1, RemoveFacts
<1>4. reader' \in [Clients -> Readers] /\ Connected' = Connected \ {c}
  BY <1>1 DEF TypeOK, Connected, Readers
<1> QED
  BY <1>3, <1>4 DEF TypeOK, Subscribed, IsInjective, Distinct

LEMMA LeavingKeeps ==
  ASSUME IInv, NEW c \in Clients, Disconnect(c) \/ Emptied(c) PROVE IInv'
<1>1. Leave(c) /\ UNCHANGED <<received, pc, todo, sent>>
  BY DEF Disconnect, Emptied
<1>2. subscribers' \in Seq(Clients) /\ reader' \in [Clients -> Readers] /\ Subscribed'
  BY <1>1, LeaveFacts DEF IInv, TypeOK, Subscribed, Connected
<1>3. queue' \in [Clients -> Seq(Events)] /\ StreamSorted' /\ Timely' /\ Backlog'
  <2>1. CASE queue[c] # <<>> /\ queue' = [queue EXCEPT ![c] = Tail(@)]
    BY <1>1, <2>1, TailKeeps
  <2>2. CASE UNCHANGED queue
    BY <1>1, <2>2 DEF IInv, TypeOK, StreamSorted, Timely, Backlog, InStream, Pending, Adding, Serving
  <2> QED
    BY <2>1, <2>2 DEF Disconnect, Emptied
<1>4. Snapshots'
  BY <1>1 DEF IInv, Snapshots
<1>5. TypeOK'
  BY <1>1, <1>2, <1>3 DEF IInv, TypeOK, Subscribed, Distinct, Connected, IsInjective
<1> QED
  BY <1>2, <1>3, <1>4, <1>5 DEF IInv

\* What the queue holds is what the stream lacks: taking the head of the one and
\* appending it to the other keeps the order of the two together.
LEMMA SendKeeps ==
  ASSUME IInv, NEW c \in Clients, queue[c] # <<>>,
         received' = [received EXCEPT ![c] = Append(@, Head(queue[c]))],
         queue' = [queue EXCEPT ![c] = Tail(@)],
         Read(c, "take", "get"), UNCHANGED <<subscribers, pc, todo, sent>>
  PROVE  IInv'
<1> USE DEF IInv
<1> DEFINE e == Head(queue[c])
<1>1. /\ queue[c] \in Seq(Events) /\ e \in Events /\ queue'[c] = Tail(queue[c])
      /\ Tail(queue[c]) \in Seq(Events) /\ Len(Tail(queue[c])) = Len(queue[c]) - 1
      /\ Range(queue[c]) = {e} \cup Range(Tail(queue[c]))
      /\ Sorted(Tail(queue[c]))
      /\ \A f \in Range(Tail(queue[c])) : Older({e}, f)
  BY TailFacts, TailSorted DEF TypeOK, StreamSorted
<1>2. Older(Range(received[c]), e)
  BY <1>1 DEF StreamSorted
<1> HIDE DEF e
<1>3. /\ received'[c] = Append(received[c], e)
      /\ received'[c] \in Seq(Events) /\ Sorted(received'[c])
      /\ Range(received'[c]) = Range(received[c]) \cup {e}
  BY <1>1, <1>2, AppendFacts, AppendSorted DEF TypeOK, StreamSorted, e
<1>4. \A d \in Clients \ {c} : queue'[d] = queue[d] /\ received'[d] = received[d]
  BY DEF TypeOK
<1>5. TypeOK'
  <2>1. reader' \in [Clients -> Readers] /\ Connected' = Connected
    BY DEF TypeOK, Readers, Connected, Read
  <2> QED
    BY <1>1, <1>3, <1>4, <2>1 DEF TypeOK, Subscribed, IsInjective, Distinct
<1>6. Snapshots'
  BY DEF TypeOK, Snapshots
<1>7. StreamSorted'
  <2> SUFFICES ASSUME NEW d \in Clients
               PROVE  /\ Sorted(received'[d]) /\ Sorted(queue'[d])
                      /\ \A f \in Range(queue'[d]) : Older(Range(received'[d]), f)
    BY DEF StreamSorted
  <2>1. CASE d = c
    <3>1. \A f \in Range(Tail(queue[c])) : Older(Range(received[c]), f)
      BY <1>1 DEF StreamSorted
    <3> QED
      BY <2>1, <3>1, <1>1, <1>3 DEF Older
  <2>2. CASE d # c
    BY <2>2, <1>4 DEF StreamSorted
  <2> QED
    BY <2>1, <2>2
<1>8. Timely'
  <2>1. \A d \in Clients : InStream(d)' \subseteq InStream(d)
    BY <1>1, <1>3, <1>4 DEF InStream
  <2>2. \A u \in Threads, d \in Clients : Pending(u, d)' => Pending(u, d)
    BY DEF Pending
  <2> QED
    BY <2>1, <2>2, TimelyKept
<1>9. Backlog'
  <2>1. \A d \in Clients : Adding(d)' \subseteq Adding(d)
    BY DEF Adding, Serving
  <2>2. \A d \in Clients : Len(queue[d])' \in Nat /\ Len(queue[d])' <= Len(queue[d])
    BY <1>1, <1>4, StreamTypes
  <2> QED
    BY <2>1, <2>2, BacklogKept
<1> QED
  BY <1>5, <1>6, <1>7, <1>8, <1>9

LEMMA StreamKeeps == ASSUME IInv, NEW c \in Clients, Stream(c) PROVE IInv'
<1>1. PICK to \in {"take", "saw_empty", "parked"} :
        /\ reader' = [reader EXCEPT ![c] = to] /\ reader[c] \in {"get", "woken", "saw_empty"}
        /\ UNCHANGED <<subscribers, queue, received, pc, todo, sent>>
  BY DEF Stream, Read
<1>2. reader' \in [Clients -> Readers] /\ Connected' = Connected
  BY <1>1 DEF IInv, TypeOK, Readers, Connected
<1> QED
  BY <1>1, <1>2, ReaderKeeps

LEMMA NextIInv == IInv /\ [Next]_vars => IInv'
<1> SUFFICES ASSUME IInv, [Next]_vars PROVE IInv'
  OBVIOUS
<1>1. ASSUME NEW t \in Threads, PublishStep(t) PROVE IInv'
  BY <1>1, PublishStepKeeps
<1>2. ASSUME NEW c \in Clients,
             Subscribe(c) \/ Stream(c) \/ Take(c) \/ Disconnect(c) \/ Emptied(c)
      PROVE  IInv'
  BY <1>2, SubscribeKeeps, StreamKeeps, SendKeeps, LeavingKeeps DEF Take
<1>3. CASE UNCHANGED vars
  BY <1>3 DEF vars, IInv, TypeOK, Subscribed, Connected, Snapshots, StreamSorted, Timely,
              Backlog, InStream, Pending, Adding, Serving
<1> QED
  BY <1>1, <1>2, <1>3 DEF Next

LEMMA Invariance == Spec => []IInv
BY InitIInv, NextIInv, PTL DEF Spec

-------------------------------------------------------------------------------
\* The queues hold events, the snapshots clients, and each thread and reader is at
\* a step of its function (events.py).
THEOREM TypeCorrect == Spec => []TypeOK
<1>1. IInv => TypeOK
  BY DEF IInv
<1> QED
  BY <1>1, Invariance, PTL

\* Per publisher the stream of a client is in order and without repetition, for
\* any number of threads and whatever full queues make publish drop.
THEOREM StreamsInOrder == Spec => []InOrder
<1>1. IInv => InOrder
  <2> SUFFICES ASSUME IInv, NEW c \in Clients,
                      NEW i \in DOMAIN (received[c] \o queue[c]),
                      NEW k \in DOMAIN (received[c] \o queue[c]), i < k,
                      (received[c] \o queue[c])[i].from = (received[c] \o queue[c])[k].from
               PROVE  (received[c] \o queue[c])[i].nr < (received[c] \o queue[c])[k].nr
    BY DEF InOrder
  <2> DEFINE r == received[c]
             q == queue[c]
             s == r \o q
  <2>1. r \in Seq(Events) /\ q \in Seq(Events)
    BY DEF IInv, TypeOK
  <2>2. /\ DOMAIN r = 1..Len(r) /\ DOMAIN q = 1..Len(q) /\ Len(r) \in Nat /\ Len(q) \in Nat
        /\ DOMAIN s = 1..(Len(r) + Len(q))
        /\ \A j \in 1..(Len(r) + Len(q)) : s[j] = IF j <= Len(r) THEN r[j] ELSE q[j - Len(r)]
    <3>1. DOMAIN r = 1..Len(r) /\ DOMAIN q = 1..Len(q) /\ Len(r) \in Nat /\ Len(q) \in Nat
      BY <2>1, LenProperties
    <3>2. s \in Seq(Events) /\ Len(s) = Len(r) + Len(q)
      BY <2>1, ConcatProperties
    <3>3. DOMAIN s = 1..Len(s)
      BY <3>2, LenProperties
    <3>4. \A j \in 1..(Len(r) + Len(q)) : s[j] = IF j <= Len(r) THEN r[j] ELSE q[j - Len(r)]
      BY <2>1, ConcatProperties
    <3> QED
      BY <3>1, <3>2, <3>3, <3>4
  <2>3. Sorted(r) /\ Sorted(q) /\ \A f \in Range(q) : Older(Range(r), f)
    BY DEF IInv, StreamSorted
  <2> HIDE DEF r, q
  <2>4. i \in 1..(Len(r) + Len(q)) /\ k \in 1..(Len(r) + Len(q))
    BY <2>2 DEF r, q
  <2>5. i < k /\ s[i].from = s[k].from
    BY DEF r, q
  <2>6. CASE k <= Len(r)
    <3>1. i \in DOMAIN r /\ k \in DOMAIN r /\ s[i] = r[i] /\ s[k] = r[k]
      BY <2>2, <2>4, <2>5, <2>6
    <3> QED
      BY <2>3, <2>5, <3>1 DEF Sorted, r, q
  <2>7. CASE i <= Len(r) /\ k > Len(r)
    <3>1. /\ i \in DOMAIN r /\ k - Len(r) \in DOMAIN q
          /\ s[i] = r[i] /\ s[k] = q[k - Len(r)]
      BY <2>2, <2>4, <2>7
    <3>2. s[i] \in Range(r) /\ s[k] \in Range(q)
      BY <3>1 DEF Range
    <3> QED
      BY <2>3, <2>5, <3>2 DEF Older, r, q
  <2>8. CASE i > Len(r)
    <3>1. /\ i - Len(r) \in DOMAIN q /\ k - Len(r) \in DOMAIN q /\ i - Len(r) < k - Len(r)
          /\ s[i] = q[i - Len(r)] /\ s[k] = q[k - Len(r)]
      BY SMTT(30), <2>2, <2>4, <2>5, <2>8
    <3> QED
      BY <2>3, <2>5, <3>1 DEF Sorted, r, q
  <2> QED
    BY <2>2, <2>4, <2>6, <2>7, <2>8
<1> QED
  BY <1>1, Invariance, PTL

\* The overshoot of a full queue is bounded by the number of handler threads.
THEOREM BacklogIsBounded == Spec => []BacklogBounded
<1>1. IInv => BacklogBounded
  <2> SUFFICES ASSUME IInv, NEW c \in Clients PROVE Len(queue[c]) < Cap + Cardinality(Threads)
    BY DEF BacklogBounded
  <2> QED
    BY AddingTypes, StreamTypes, BusAssumption DEF IInv, Backlog
<1> QED
  BY <1>1, Invariance, PTL

\* The bus of queues, threads and readers implements the best-effort stream.
THEOREM Refinement == Spec => BroadcastSpec
<1>1. Init => Promise!Init
  BY DEF Init, Promise!Init
<1>2. IInv /\ [Next]_vars => [Promise!Next]_<<sent, received>>
  <2> SUFFICES ASSUME IInv, [Next]_vars PROVE [Promise!Next]_<<sent, received>>
    OBVIOUS
  <2>1. ASSUME NEW t \in Threads, Publish(t) PROVE Promise!Next
    BY <2>1 DEF Publish, Promise!Publish, Promise!Next
  <2>2. ASSUME NEW t \in Threads, PublishStep(t), ~Publish(t) PROVE UNCHANGED <<sent, received>>
    BY <2>2 DEF PublishStep, Return, Room, Put, Wake, DropOldest, Retry
  <2>3. ASSUME NEW c \in Clients, queue[c] # <<>>, UNCHANGED sent,
               received' = [received EXCEPT ![c] = Append(@, Head(queue[c]))]
        PROVE  Promise!Next
    <3>1. PICK e \in Events : e = Head(queue[c]) /\ e \in Range(queue[c])
      BY <2>3, TailFacts DEF IInv, TypeOK
    <3>2. e.from \in Threads /\ e.nr \in 1..MaxEvents /\ e = [from |-> e.from, nr |-> e.nr]
      BY <3>1 DEF Events
    <3>3. e.nr \in 1..sent[e.from]
      BY <3>1, <3>2, BusAssumption DEF IInv, Timely, InStream, TypeOK
    <3>4. \A i \in DOMAIN received[c] : received[c][i].from = e.from => received[c][i].nr < e.nr
      BY <3>1 DEF IInv, StreamSorted, Older, Range
    <3>5. Promise!Receive(c)
      BY <2>3, <3>1, <3>2, <3>3, <3>4 DEF Promise!Receive
    <3> QED
      BY <3>5 DEF Promise!Next
  <2>4. ASSUME NEW c \in Clients, Subscribe(c) \/ Stream(c) \/ Disconnect(c) \/ Emptied(c)
        PROVE  UNCHANGED <<sent, received>>
    BY <2>4 DEF Subscribe, Stream, Disconnect, Emptied
  <2>5. ASSUME NEW c \in Clients, Take(c) PROVE Promise!Next
    BY <2>3, <2>5 DEF Take
  <2>6. CASE UNCHANGED vars
    BY <2>6 DEF vars
  <2> QED
    BY <2>1, <2>2, <2>4, <2>5, <2>6 DEF Next
<1> QED
  BY <1>1, <1>2, Invariance, PTL DEF Spec, BroadcastSpec, Promise!Spec
===============================================================================
