-------------------------- MODULE SqlJobQueueProofs --------------------------
(***************************************************************************)
(* For every number of rows and any handler threads, the SELECT and        *)
(* UPDATE of a claim hand each job to exactly one response, and none       *)
(* before one that was there when its request came; and the                *)
(* statements implement the abstract JobQueue.                             *)
(***************************************************************************)
EXTENDS SqlJobQueue, FiniteSetTheorems, TLAPS

(***************************************************************************)
(* What is inductive.  ClaimExact and OrderKept alone say nothing of what  *)
(* is half way.  A request that has read the clock has seen rows that are  *)
(* there and carry no later time (Stamped), so its own row will not come   *)
(* before any of them in the index (StampOrder).  Hence the row a poller   *)
(* selects has all of them behind it, and keeps them there until the       *)
(* UPDATE, since no row becomes pending again (PicksStandInLine).          *)
(* OrphansHandedOut keeps the sweep's UPDATEs, which look at no status,    *)
(* away from rows nobody was given.                                        *)
(***************************************************************************)
Present == {j \in Jobs : status[j] # "absent"}

BornInOrder == \A i, j \in Jobs : i < j /\ j \in Present => i \in Present

Stamped == /\ \A w \in Writers : /\ stamp[w] <= now
                                 /\ \A i \in Jobs : i <= seen[w] =>
                                      i \in Present /\ created[i] <= stamp[w]
           /\ \A j \in Jobs : created[j] <= now
StampOrder ==
  \A i, j \in Jobs : i <= ahead[j] => i < j /\ i \in Present /\ created[i] <= created[j]
PicksStandInLine ==
  \A p \in Pollers : pick[p] # 0 => /\ pick[p] \in Present
                                    /\ 1..ahead[pick[p]] \subseteq HandedOut
OrphansHandedOut == orphans \subseteq HandedOut

IInv == /\ TypeOK /\ ClaimExact /\ OrderKept
        /\ BornInOrder /\ Stamped /\ StampOrder
        /\ PicksStandInLine /\ OrphansHandedOut

-------------------------------------------------------------------------------
\* The rows that are there are the first Cardinality(Present) ones.
LEMMA PresentCounted ==
  ASSUME TypeOK, BornInOrder
  PROVE  /\ Cardinality(Present) \in 0..MaxJobs
         /\ \A i \in Jobs : i <= Cardinality(Present) => i \in Present
<1> USE MaxJobsAssumption DEF Present, Jobs
<1>0. /\ IsFiniteSet(1..MaxJobs)
      /\ Cardinality(1..MaxJobs) = MaxJobs
  BY FS_Interval
<1>1. CASE \A j \in Jobs : j \in Present
  <2>1. Present = 1..MaxJobs
    BY <1>1
  <2>2. Cardinality(Present) = MaxJobs
    BY <2>1, <1>0
  <2>3. Cardinality(Present) \in 0..MaxJobs
    BY <2>2
  <2> QED
    BY <1>1, <2>3
<1>2. CASE \E j \in Jobs : j \notin Present
  <2>0. PICK k \in Jobs : k \notin Present
    BY <1>2
  <2>01. Present \in SUBSET (1..MaxJobs)
    OBVIOUS
  <2>02. IsFiniteSet(Present) /\ Cardinality(Present) <= MaxJobs
    BY <1>0, <2>01, FS_Subset
  <2>1. Cardinality(Present) \in 0..MaxJobs
    BY <2>02, FS_CardinalityType
  <2>2. SUFFICES ASSUME NEW i \in Jobs, i \notin Present, i <= Cardinality(Present)
                 PROVE  FALSE
    BY <2>1
  <2>3. Present \subseteq 1..(i - 1)
    BY <2>2 DEF BornInOrder
  <2>4. IsFiniteSet(1..(i - 1)) /\ Cardinality(1..(i - 1)) = i - 1
    <3>1. 1 \in Int /\ i - 1 \in Int
      OBVIOUS
    <3> QED
      BY <3>1, FS_Interval
  <2>5. Cardinality(Present) <= i - 1
    BY <2>3, <2>4, FS_Subset
  <2> QED
    BY <2>1, <2>2, <2>5
<1> QED
  BY <1>1, <1>2

\* The table is empty at the start and nothing is under way.
LEMMA InitIInv == Init => IInv
<1> SUFFICES ASSUME Init PROVE IInv
  OBVIOUS
<1> USE MaxJobsAssumption DEF Init, QueueInit
<1>1. TypeOK
  <2>1. QueueTypeOK
    BY DEF QueueTypeOK, Status
  <2>2. now \in Times \ {0} /\ created \in [Jobs -> Times]
    BY ClockAssumption DEF Times
  <2>3. stamp \in [Writers -> Times] /\ seen \in [Writers -> 0..MaxJobs]
    BY ClockAssumption DEF Times
  <2>4. pick \in [Pollers -> Jobs \cup {0}] /\ handed \in [Jobs -> Nat]
    OBVIOUS
  <2> QED
    BY <2>1, <2>2, <2>3, <2>4 DEF TypeOK
<1>2. HandedOut = {} /\ Present = {}
  BY DEF HandedOut, Present
<1>3. ClaimExact /\ OrderKept /\ OrphansHandedOut
  BY <1>2 DEF ClaimExact, OrderKept, OrphansHandedOut
<1>4. BornInOrder /\ Stamped /\ StampOrder /\ PicksStandInLine
  BY <1>2 DEF BornInOrder, Stamped, StampOrder, PicksStandInLine, Jobs
<1> QED
  BY <1>1, <1>3, <1>4 DEF IInv

\* Every statement of every handler keeps the invariant.
LEMMA NextIInv == IInv /\ [Next]_vars => IInv'
<1> SUFFICES ASSUME IInv, [Next]_vars PROVE IInv'
  OBVIOUS
<1>0. Times \subseteq Nat /\ 0 \in Times
  BY ClockAssumption DEF Times
<1> USE <1>0, MaxJobsAssumption
    DEF IInv, TypeOK, QueueTypeOK, Status, Jobs, HandedOut, Present, ClaimExact,
        OrderKept, BornInOrder, Stamped, StampOrder, PicksStandInLine, OrphansHandedOut,
        queue, writers, sweep
<1>1. CASE Tick
  <2>1. now' = now + 1 /\ now' \in Times \ {0}
    BY <1>1, ClockAssumption DEF Tick, Times
  <2>2. TypeOK'
    BY <1>1, <2>1 DEF Tick
  <2>3. Stamped'
    <3>1. \A w \in Writers : stamp[w] \in Nat
      OBVIOUS
    <3>2. \A j \in Jobs : created[j] \in Nat
      OBVIOUS
    <3>3. now \in Nat /\ \A x \in Nat : x <= now => x <= now'
      BY <2>1
    <3>4. UNCHANGED <<status, created, stamp, seen>>
      BY <1>1 DEF Tick
    <3> QED
      BY <3>1, <3>2, <3>3, <3>4
  <2> QED
    BY <1>1, <2>2, <2>3 DEF Tick
<1>2. ASSUME NEW w \in Writers, Stamp(w) PROVE IInv'
  <2>1. PICK n \in 0..MaxJobs : /\ n = Cardinality(Present)
                                /\ \A i \in Jobs : i <= n => i \in Present
    BY PresentCounted
  <2>2. seen' = [seen EXCEPT ![w] = n]
    BY <1>2, <2>1 DEF Stamp
  <2>3. TypeOK'
    <3>1. QueueTypeOK' /\ UNCHANGED <<now, created, pick, handed, sweeping, orphans>>
      BY <1>2 DEF Stamp
    <3>2. stamp' \in [Writers -> Times]
      BY <1>2 DEF Stamp
    <3>3. seen' \in [Writers -> 0..MaxJobs]
      BY <2>1, <2>2
    <3> QED
      BY <3>1, <3>2, <3>3
  <2>4. Stamped'
    <3>1. stamp' = [stamp EXCEPT ![w] = now] /\ UNCHANGED <<status, created, now>>
      BY <1>2 DEF Stamp
    <3>2. now \in Nat
      OBVIOUS
    <3> QED
      BY <2>1, <2>2, <3>1, <3>2
  <2>5. ClaimExact' /\ OrderKept' /\ BornInOrder' /\ StampOrder'
    BY <1>2 DEF Stamp
  <2>6. PicksStandInLine' /\ OrphansHandedOut'
    BY <1>2 DEF Stamp
  <2> QED
    BY <2>3, <2>4, <2>5, <2>6
<1>3. ASSUME NEW w \in Writers, Insert(w) PROVE IInv'
  <2>1. PICK j \in Jobs : /\ Enqueue(j, seen[w])
                          /\ created' = [created EXCEPT ![j] = stamp[w]]
    BY <1>3 DEF Insert
  <2>2. /\ status' = [status EXCEPT ![j] = "pending"]
        /\ ahead' = [ahead EXCEPT ![j] = seen[w]]
        /\ status[j] = "absent" /\ seen[w] < j
        /\ \A i \in Jobs : i < j => i \in Present
    BY <2>1 DEF Enqueue, NextId
  <2>3. HandedOut' = HandedOut /\ Present' = Present \cup {j}
    BY <2>2
  <2>4. TypeOK'
    <3>1. QueueTypeOK'
      BY <2>2
    <3>2. created' \in [Jobs -> Times]
      BY <2>1
    <3>3. stamp' \in [Writers -> Times] /\ seen' \in [Writers -> 0..MaxJobs]
      BY <1>3 DEF Insert, WriteOver
    <3> QED
      BY <1>3, <3>1, <3>2, <3>3 DEF Insert
  <2>5. ClaimExact' /\ OrphansHandedOut'
    BY <1>3, <2>2, <2>3 DEF Insert
  <2>50. OrderKept'
    BY <2>2, <2>3
  <2>51. BornInOrder'
    BY <2>2, <2>3
  <2>6. Stamped'
    <3>1. /\ \A v \in Writers : v # w => stamp'[v] = stamp[v] /\ seen'[v] = seen[v]
          /\ stamp'[w] = 0 /\ seen'[w] = 0 /\ now' = now
      BY <1>3 DEF Insert, WriteOver
    <3>2. \A i \in Jobs : i \in Present => i # j
      BY <2>2
    <3>3. \A i \in Jobs \ {j} : created'[i] = created[i]
      BY <2>1
    <3>4. created'[j] = stamp[w]
      BY <2>1
    <3>5. ASSUME NEW i \in Jobs PROVE created'[i] <= now'
      <4>1. CASE i = j
        BY <3>1, <3>4, <4>1
      <4>2. CASE i # j
        BY <3>1, <3>3, <4>2
      <4> QED
        BY <4>1, <4>2
    <3>50. ASSUME NEW v \in Writers PROVE stamp'[v] <= now'
      <4>1. CASE v = w
        BY <3>1, <4>1
      <4>2. CASE v # w
        BY <3>1, <4>2
      <4> QED
        BY <4>1, <4>2
    <3>6. ASSUME NEW v \in Writers, NEW i \in Jobs, i <= seen'[v]
          PROVE  i \in Present' /\ created'[i] <= stamp'[v]
      <4>1. v # w
        BY <3>1, <3>6
      <4>2. i \in Present /\ created[i] <= stamp[v]
        BY <3>1, <3>6, <4>1
      <4>3. i \in Jobs \ {j}
        BY <3>2, <4>2
      <4>4. created'[i] = created[i] /\ stamp'[v] = stamp[v]
        BY <3>1, <3>3, <4>1, <4>3
      <4> QED
        BY <2>3, <4>2, <4>4
    <3> QED
      BY <3>5, <3>50, <3>6 DEF Stamped
  <2>7. StampOrder'
    <3>1. \A i \in Jobs : i <= seen[w] => i < j /\ i \in Present /\ created[i] <= stamp[w]
      BY <2>2
    <3>2. \A i, k \in Jobs : i <= ahead[k] => i # j
      BY <2>2
    <3>3. \A k \in Jobs \ {j} : ahead'[k] = ahead[k] /\ created'[k] = created[k]
      BY <2>1, <2>2
    <3>4. ahead'[j] = seen[w] /\ created'[j] = stamp[w]
      BY <2>1, <2>2
    <3>5. SUFFICES ASSUME NEW i \in Jobs, NEW k \in Jobs, i <= ahead'[k]
                   PROVE  i < k /\ i \in Present' /\ created'[i] <= created'[k]
      OBVIOUS
    <3>6. CASE k = j
      <4>1. i < j /\ i \in Present /\ created[i] <= stamp[w]
        BY <3>1, <3>4, <3>5, <3>6
      <4>2. i \in Jobs \ {j}
        BY <4>1
      <4>3. created'[i] = created[i] /\ created'[k] = stamp[w]
        BY <3>3, <3>4, <3>6, <4>2
      <4> QED
        BY <2>3, <3>6, <4>1, <4>3
    <3>7. CASE k # j
      <4>1. i < k /\ i \in Present /\ created[i] <= created[k] /\ i # j
        BY <3>2, <3>3, <3>5, <3>7
      <4> QED
        BY <2>3, <3>3, <3>7, <4>1
    <3> QED
      BY <3>6, <3>7
  <2>8. PicksStandInLine'
    <3>1. pick' = pick /\ \A k \in Present : ahead'[k] = ahead[k]
      BY <1>3, <2>2 DEF Insert
    <3> QED
      BY <2>3, <3>1
  <2> QED
    BY <2>4, <2>5, <2>50, <2>51, <2>6, <2>7, <2>8
<1>4. ASSUME NEW w \in Writers, InsertFails(w) PROVE IInv'
  <2>1. TypeOK'
    <3>1. stamp' \in [Writers -> Times]
      BY <1>4 DEF InsertFails, WriteOver
    <3>2. seen' \in [Writers -> 0..MaxJobs]
      BY <1>4 DEF InsertFails, WriteOver
    <3> QED
      BY <1>4, <3>1, <3>2 DEF InsertFails
  <2>2. ClaimExact' /\ OrderKept' /\ BornInOrder' /\ StampOrder'
    BY <1>4 DEF InsertFails
  <2>3. PicksStandInLine' /\ OrphansHandedOut'
    BY <1>4 DEF InsertFails
  <2>4. Stamped'
    BY <1>4 DEF InsertFails, WriteOver
  <2> QED
    BY <2>1, <2>2, <2>3, <2>4
<1>5. ASSUME NEW p \in Pollers, Select(p) PROVE IInv'
  <2>1. PICK j \in Jobs :
          /\ status[j] = "pending"
          /\ \A i \in Jobs \ {j} : status[i] = "pending" => Older(j, i)
          /\ pick' = [pick EXCEPT ![p] = j]
    BY <1>5 DEF Select
  <2>2. ASSUME NEW i \in 1..ahead[j] PROVE i \in HandedOut
    <3>1. i \in Jobs /\ i < j /\ i \in Present /\ created[i] <= created[j]
      OBVIOUS
    <3>2. created[i] \in Nat /\ created[j] \in Nat
      BY <3>1
    <3>3. ~Older(j, i)
      BY <3>1, <3>2 DEF Older
    <3> QED
      BY <2>1, <3>1, <3>3
  <2>3. TypeOK'
    BY <1>5, <2>1 DEF Select
  <2>4. PicksStandInLine'
    BY <1>5, <2>1, <2>2 DEF Select
  <2>5. Stamped' /\ StampOrder' /\ OrderKept'
    BY <1>5 DEF Select
  <2> QED
    BY <1>5, <2>3, <2>4, <2>5 DEF Select
<1>6. ASSUME NEW p \in Pollers, Update(p) PROVE IInv'
  <2>1. PICK j \in Jobs : j = pick[p]
    BY <1>6 DEF Update
  <2>2. /\ status[j] = "pending"
        /\ status' = [status EXCEPT ![j] = "in_progress"]
        /\ handed' = [handed EXCEPT ![j] = @ + 1]
        /\ 1..ahead[j] \subseteq HandedOut
        /\ UNCHANGED ahead
    BY <1>6, <2>1 DEF Update, HandOver
  <2>3. HandedOut' = HandedOut \cup {j} /\ Present' = Present
    BY <2>2
  <2>4. handed[j] = 0
    BY <2>2
  <2>5. TypeOK'
    <3>1. QueueTypeOK' /\ handed' \in [Jobs -> Nat]
      BY <2>2
    <3>2. pick' \in [Pollers -> Jobs \cup {0}]
      BY <1>6 DEF Update, HandOver
    <3> QED
      BY <1>6, <3>1, <3>2 DEF Update, HandOver
  <2>50. ClaimExact'
    BY <2>2, <2>3, <2>4
  <2>6. BornInOrder' /\ OrderKept'
    BY <2>2, <2>3
  <2>7. PicksStandInLine' /\ OrphansHandedOut' /\ Stamped' /\ StampOrder'
    BY <1>6, <2>2, <2>3 DEF Update, HandOver
  <2> QED
    BY <2>5, <2>50, <2>6, <2>7
<1>7. ASSUME NEW p \in Pollers, GiveUp(p) PROVE IInv'
  <2>1. TypeOK' /\ ClaimExact' /\ OrderKept' /\ OrphansHandedOut'
    BY <1>7 DEF GiveUp
  <2>2. BornInOrder' /\ Stamped' /\ StampOrder'
    BY <1>7 DEF GiveUp
  <2>3. PicksStandInLine'
    BY <1>7 DEF GiveUp
  <2> QED
    BY <2>1, <2>2, <2>3
<1>8. ASSUME NEW j \in Jobs, Result(j) PROVE IInv'
  <2>1. j \in HandedOut
    BY <1>8 DEF Result
  <2>2. status' = [i \in Jobs |-> IF i = j THEN "done" ELSE status[i]] /\ UNCHANGED ahead
    BY <1>8 DEF Result, MarkDone, Close
  <2>3. HandedOut' = HandedOut /\ Present' = Present
    BY <2>1, <2>2
  <2> QED
    BY <1>8, <2>1, <2>2, <2>3 DEF Result
<1>9. CASE SweepSelect
  BY <1>9 DEF SweepSelect, InProgress
<1>10. CASE SweepCommit
  <2>1. /\ status' = [i \in Jobs |-> IF i \in orphans THEN "failed" ELSE status[i]]
        /\ UNCHANGED ahead
    BY <1>10 DEF SweepCommit, Close
  <2>2. HandedOut' = HandedOut /\ Present' = Present
    BY <2>1
  <2> QED
    BY <1>10, <2>1, <2>2 DEF SweepCommit, SweepOver
<1>11. CASE SweepAbort
  BY <1>11 DEF SweepAbort, SweepOver
<1>12. CASE UNCHANGED vars
  BY <1>12 DEF vars
<1> QED
  BY <1>1, <1>2, <1>3, <1>4, <1>5, <1>6, <1>7, <1>8, <1>9, <1>10, <1>11, <1>12 DEF Next

\* The inductive invariant holds in every reachable state.
LEMMA Invariance == Spec => []IInv
<1>1. Init => IInv
  BY InitIInv
<1>2. IInv /\ [Next]_vars => IInv'
  BY NextIInv
<1> QED
  BY <1>1, <1>2, PTL DEF Spec

-------------------------------------------------------------------------------
\* The rows keep the types the schema gives them.
THEOREM TypeCorrect == Spec => []TypeOK
<1>1. IInv => TypeOK
  BY DEF IInv
<1> QED
  BY <1>1, Invariance, PTL

\* claim_next: however the handlers' statements interleave with each other and
\* with a sweep, no job is handed out twice and none is lost in the claim.
THEOREM ClaimExactly == Spec => []ClaimExact
<1>1. IInv => ClaimExact
  BY DEF IInv
<1> QED
  BY <1>1, Invariance, PTL

\* No job overtakes one that was in the table before its own request read the
\* clock, although ids, time stamps and claims are assigned in steps of their own.
THEOREM NoOvertaking == Spec => []OrderKept
<1>1. IInv => OrderKept
  BY DEF IInv
<1> QED
  BY <1>1, Invariance, PTL

\* Each statement is a step of the abstract queue, or leaves the rows alone.
LEMMA StepRefines == IInv /\ [Next]_vars => [QueueNext]_queue
<1> SUFFICES ASSUME IInv, Next PROVE QueueNext \/ UNCHANGED queue
  BY DEF vars
<1>1. ASSUME NEW w \in Writers, Insert(w) PROVE QueueNext
  <2>1. seen[w] \in 0..MaxJobs
    BY DEF IInv, TypeOK
  <2> QED
    BY <1>1, <2>1 DEF Insert, QueueNext
<1>2. ASSUME NEW j \in Jobs, Result(j) PROVE QueueNext
  <2>1. j \in HandedOut
    BY <1>2 DEF Result, IInv, ClaimExact
  <2> QED
    BY <1>2, <2>1 DEF Result, QueueNext
<1>3. ASSUME NEW p \in Pollers, Update(p) PROVE QueueNext
  <2>1. pick[p] \in Jobs
    BY <1>3 DEF Update, IInv, TypeOK
  <2>2. Claim(pick[p])
    BY <1>3 DEF Update, HandOver, Claim, OldestPending, IInv, PicksStandInLine
  <2> QED
    BY <2>1, <2>2 DEF QueueNext
<1>4. CASE SweepCommit
  <2>1. orphans \in SUBSET HandedOut
    BY DEF IInv, OrphansHandedOut
  <2>2. Close(orphans, "failed")
    BY <1>4 DEF SweepCommit
  <2> QED
    BY <2>1, <2>2 DEF QueueNext
<1>5. ASSUME NEW p \in Pollers, Select(p) \/ GiveUp(p) PROVE UNCHANGED queue
  BY <1>5 DEF Select, GiveUp
<1>6. CASE Tick \/ SweepSelect \/ SweepAbort
  BY <1>6 DEF Tick, SweepSelect, SweepAbort
<1>7. ASSUME NEW w \in Writers, Stamp(w) \/ InsertFails(w) PROVE UNCHANGED queue
  BY <1>7 DEF Stamp, InsertFails
<1> QED
  BY <1>1, <1>2, <1>3, <1>4, <1>5, <1>6, <1>7 DEF Next

\* The table, statement by statement, implements the abstract queue.
THEOREM Refinement == Spec => QueueSpec
<1>1. Init => QueueInit
  BY DEF Init
<1>2. IInv /\ [Next]_vars => [QueueNext]_queue
  BY StepRefines
<1> QED
  BY <1>1, <1>2, Invariance, PTL DEF Spec, QueueSpec
===============================================================================
