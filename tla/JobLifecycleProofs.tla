-------------------------- MODULE JobLifecycleProofs --------------------------
(***************************************************************************)
(* JobLifecycle for any number of jobs, tracks, stages, attempts and       *)
(* faults.  The invariant is built in four layers, each inductive given    *)
(* those below it; the last two stand side by side:                        *)
(*                                                                         *)
(*   Base      the worker, every late request and every sweep refer to     *)
(*             jobs that were handed out, and rows keep what their INSERT  *)
(*             said.  Gives the types.                                     *)
(*   Complete  the results of the earlier stages are always written before *)
(*             a later one can be, even by a late request.                 *)
(*   Punctual  until a claim or a sweep begins late, uploads are kept, the *)
(*             first terminal event of a job decides all others, and       *)
(*             track_done is sent only for a row that says done and stays  *)
(*             so, because no sweep can hold the row of a job that was     *)
(*             announced done, or that the worker has.                     *)
(*   Accounted every wait of the Player, and every analysis a crash cut    *)
(*             off, has somebody who will still end it: what the fairness  *)
(*             of the liveness properties has to work on.                  *)
(*                                                                         *)
(* The proof that a layer is kept has one step per action of Next and, for *)
(* the actions that disturb several of its parts, one step per part.       *)
(***************************************************************************)
EXTENDS JobLifecycle, TLAPS

Busy == pc \notin {"boot", "sweep", "poll"}

\* The worker is busy with a job that was handed out, or it has none.
WorkerHoldsJob == /\ IF Busy THEN cur \in HandedOut ELSE cur = None /\ stage = 0
                  /\ pc # "sweep" => orphans = {} /\ untold = {}

\* What a row says from its INSERT on (an upload is its own source, a tag job's was
\* there before it), and what cannot have happened before it was handed out.
Rows == \A j \in Jobs :
          /\ status[j] = "absent" => track[j] = NoTrack
          /\ status[j] # "absent" /\ kind[j] = "analyze" =>
               track[j] \in Tracks /\ source[j] = j
          /\ source[j] \in {None, j} \cup 1..ahead[j]
          /\ j \notin HandedOut => told[j] = {} /\ stored[j] = {}

\* Only a worker that had the job can have left a request for it behind.
LateHandedOut == /\ \A r \in lateResults : r.job \in HandedOut
                 /\ \A v \in lateVerdicts : v.job \in HandedOut

\* Sweeps select rows in progress.
SweepsHandedOut ==
  /\ orphans \subseteq HandedOut /\ untold \subseteq orphans
  /\ \A w \in lateSweeps : w.rows \subseteq HandedOut /\ w.untold \subseteq w.rows

Base == /\ TypeOK /\ OrderKept /\ WorkerHoldsJob
        /\ Rows /\ LateHandedOut /\ SweepsHandedOut

\* Nothing has happened yet.
LEMMA InitBase == Init => Base
<1> SUFFICES ASSUME Init PROVE Base
  OBVIOUS
<1> USE DEF Init, QueueInit
<1>1. TypeOK
  BY LifecycleAssumption, MaxJobsAssumption
     DEF TypeOK, QueueTypeOK, Status, Kinds, PC, Stages, None
<1>2. HandedOut = {}
  BY DEF HandedOut
<1>3. OrderKept /\ WorkerHoldsJob /\ Rows /\ LateHandedOut /\ SweepsHandedOut
  BY <1>2, MaxJobsAssumption
     DEF OrderKept, WorkerHoldsJob, Busy, Rows, LateHandedOut, SweepsHandedOut, None, Jobs
<1> QED
  BY <1>1, <1>3 DEF Base

\* What every statement but an INSERT does to the queue: no row comes, goes or is
\* taken back.
Advances == /\ QueueTypeOK' /\ OrderKept' /\ ahead' = ahead
            /\ HandedOut \subseteq HandedOut'
            /\ \A i \in Jobs : status'[i] = "absent" <=> status[i] = "absent"

\* A request that leaves the table alone.
LEMMA QueueSame == ASSUME Base, UNCHANGED queue PROVE Advances /\ HandedOut' = HandedOut
BY DEF Base, TypeOK, QueueTypeOK, OrderKept, HandedOut, queue, Advances

\* A claim.
LEMMA ClaimFacts ==
  ASSUME Base, NEW j \in Jobs, Claim(j)
  PROVE  /\ Advances /\ HandedOut' = HandedOut \cup {j} /\ j \notin HandedOut
         /\ status[j] = "pending" /\ status'[j] = "in_progress"
         /\ \A i \in Jobs : i # j => status'[i] = status[i]
<1> USE DEF Base, TypeOK, QueueTypeOK, Status, Claim, OldestPending, HandedOut
<1>1. /\ HandedOut' = HandedOut \cup {j} /\ ahead' = ahead /\ j \notin HandedOut
      /\ status[j] = "pending" /\ status'[j] = "in_progress"
      /\ \A i \in Jobs : i # j => status'[i] = status[i]
      /\ QueueTypeOK'
  OBVIOUS
<1>2. OrderKept'
  BY <1>1 DEF OrderKept
<1> QED
  BY <1>1, <1>2 DEF Advances

\* A request for work.
LEMMA NewJobFacts ==
  ASSUME Base, NEW j \in Jobs, NEW k \in Kinds, NEW t \in Tracks \cup {NoTrack},
         NEW s \in Jobs \cup {None}, NewJob(j, k, t, s)
  PROVE  /\ QueueTypeOK' /\ OrderKept'
         /\ HandedOut' = HandedOut /\ j \notin HandedOut
         /\ status[j] = "absent" /\ status'[j] = "pending"
         /\ \A i \in Jobs : i # j => status'[i] = status[i] /\ ahead'[i] = ahead[i]
         /\ kind' = [kind EXCEPT ![j] = k] /\ track' = [track EXCEPT ![j] = t]
         /\ source' = [source EXCEPT ![j] = s]
         /\ kind' \in [Jobs -> Kinds] /\ track' \in [Jobs -> Tracks \cup {NoTrack}]
         /\ source' \in [Jobs -> Jobs \cup {None}]
         /\ k = "tag" => ahead'[j] = s /\ 1..ahead'[j] \subseteq Jobs
<1> USE MaxJobsAssumption
    DEF Base, TypeOK, QueueTypeOK, Status, NewJob, Enqueue, NextId, HandedOut, None, Jobs
<1>1. /\ status' = [status EXCEPT ![j] = "pending"] /\ status[j] = "absent"
      /\ ahead' = [ahead EXCEPT ![j] = IF k = "tag" THEN s ELSE 0]
      /\ (IF k = "tag" THEN s ELSE 0) \in 0..MaxJobs
  OBVIOUS
<1>2. QueueTypeOK' /\ HandedOut' = HandedOut /\ j \notin HandedOut
  BY <1>1
<1>3. \A i \in Jobs : i # j => status'[i] = status[i] /\ ahead'[i] = ahead[i]
  BY <1>1
<1>4. OrderKept'
  BY <1>2, <1>3 DEF OrderKept
<1>5. k = "tag" => ahead'[j] = s /\ 1..ahead'[j] \subseteq Jobs
  BY <1>1
<1> QED
  BY <1>1, <1>2, <1>3, <1>4, <1>5

\* A result, on time or late, changes one row, and that one had been handed out.
LEMMA StoreFacts ==
  ASSUME Base, NEW j \in HandedOut, NEW k \in Stages, Store(j, k)
  PROVE  /\ Advances /\ HandedOut' = HandedOut
         /\ \A i \in Jobs : i # j => status'[i] = status[i] /\ stored'[i] = stored[i]
         /\ status'[j] = IF kind[j] = "tag" \/ k = NStages - 1 THEN "done" ELSE status[j]
         /\ stored'[j] = stored[j] \cup {k} /\ stored' \in [Jobs -> SUBSET Stages]
         /\ \/ analyzed' = analyzed
            \/ /\ kind[j] = "analyze" /\ k = NStages - 1
               /\ analyzed' = analyzed \cup {track[j]}
         /\ analyzed' \subseteq Tracks
<1> USE DEF Base, TypeOK, QueueTypeOK, Store, HandedOut, Status, queue
<1>1. /\ \/ status' = status /\ ~(kind[j] = "tag" \/ k = NStages - 1)
         \/ /\ status' = [i \in Jobs |-> IF i = j THEN "done" ELSE status[i]]
            /\ kind[j] = "tag" \/ k = NStages - 1
      /\ ahead' = ahead
  BY DEF MarkDone, Close
<1>2. kind[j] = "analyze" => track[j] \in Tracks
  BY DEF Rows
<1>3. OrderKept' /\ HandedOut' = HandedOut
  BY <1>1 DEF OrderKept
<1>4. stored' \in [Jobs -> SUBSET Stages] /\ stored'[j] = stored[j] \cup {k}
      /\ \A i \in Jobs : i # j => stored'[i] = stored[i]
  OBVIOUS
<1> QED
  BY <1>1, <1>2, <1>3, <1>4 DEF Advances

\* The UPDATEs of a sweep close the rows it selected.
LEMMA SweepFacts ==
  ASSUME Base, NEW S \in SUBSET HandedOut, NEW U \in SUBSET S, SweepRows(S, U)
  PROVE  /\ Advances /\ HandedOut' = HandedOut
         /\ \A j \in Jobs : status'[j] = IF j \in S THEN "failed" ELSE status[j]
         /\ told' \in [Jobs -> SUBSET Verdicts]
         /\ \A j \in Jobs : told'[j] = IF j \in U THEN told[j] \cup {"failed"} ELSE told[j]
         /\ waiting' = waiting \ {track[j] : j \in U} /\ waiting' \subseteq Tracks
         /\ files' = files \ {source[j] : j \in S} /\ files' \subseteq Jobs
         /\ stored' = stored /\ analyzed' = analyzed
<1> USE DEF Base, TypeOK, QueueTypeOK, Status, Verdicts
<1>1. /\ status' = [j \in Jobs |-> IF j \in S THEN "failed" ELSE status[j]]
      /\ ahead' = ahead
      /\ told' = [j \in Jobs |-> IF j \in U THEN told[j] \cup {"failed"} ELSE told[j]]
      /\ waiting' = waiting \ {track[j] : j \in U}
      /\ files' = files \ {source[j] : j \in S}
      /\ stored' = stored /\ analyzed' = analyzed
  BY DEF SweepRows, Close, TellOrphans, Tell
<1>2. HandedOut' = HandedOut
  BY <1>1 DEF HandedOut
<1>3. \A j \in Jobs : j \in S => status[j] # "absent"
  BY DEF HandedOut
<1>4. OrderKept'
  BY <1>1, <1>2 DEF OrderKept
<1> QED
  BY <1>1, <1>2, <1>3, <1>4 DEF Advances

\* In short: it announces none but rows that were handed out.
LEMMA SweepTells ==
  ASSUME Base, NEW S \in SUBSET HandedOut, NEW U \in SUBSET S, SweepRows(S, U)
  PROVE  /\ Advances /\ stored' = stored
         /\ \A j \in Jobs : j \notin HandedOut => told'[j] = told[j]
BY SweepFacts

\* The sweeps whose UPDATEs are still to come: that of the worker, and the late ones.
LEMMA SweepSets ==
  ASSUME Base
  PROVE  /\ HandedOut \subseteq Jobs
         /\ orphans \in SUBSET HandedOut /\ untold \in SUBSET orphans
         /\ \A w \in lateSweeps : w.rows \in SUBSET HandedOut /\ w.untold \in SUBSET w.rows
BY DEF Base, SweepsHandedOut, HandedOut

\* The first event of a sweep.
LEMMA SelectFacts ==
  ASSUME Base, NEW j \in InProgress, TellOrphans({j})
  PROVE  /\ told' \in [Jobs -> SUBSET Verdicts]
         /\ j \in Jobs /\ status[j] = "in_progress" /\ told'[j] = told[j] \cup {"failed"}
         /\ \A i \in Jobs : i # j => told'[i] = told[i]
         /\ \A i \in Jobs : i \notin HandedOut => told'[i] = told[i]
         /\ waiting' = waiting \ {track[j]}
         /\ j \in HandedOut /\ InProgress \subseteq HandedOut
BY DEF Base, TypeOK, TellOrphans, Tell, InProgress, HandedOut, Verdicts

\* Where the worker starts on a job (process_job's dispatch).
LEMMA FirstStepFacts ==
  ASSUME Base, NEW j \in Jobs
  PROVE  /\ FirstStep(j) \in {"fail", "announce", "tag", "loop"}
         /\ FirstStep(j) = "announce" => kind[j] = "analyze"
         /\ FirstStep(j) = "tag" => kind[j] = "tag"
         /\ kind[j] = "analyze" => FirstStep(j) \in {"announce", "fail"}
BY DEF Base, TypeOK, FirstStep, Kinds

\* What a worker leaves behind refers to the job it was handed, or to its sweep.
LEMMA LeaveFacts ==
  ASSUME Base, LeaveRequest
  PROVE  /\ lateResults' \subseteq lateResults \cup [job : {cur}, stage : Stages]
         /\ lateVerdicts' \subseteq lateVerdicts \cup [job : {cur}, verdict : Verdicts]
         /\ lateCalls' \subseteq lateCalls \cup {"claim", "sweep"}
         /\ lateSweeps' \subseteq lateSweeps \cup {[rows |-> orphans, untold |-> untold]}
         /\ Busy => cur \in HandedOut
         /\ ~Busy => lateResults' = lateResults /\ lateVerdicts' = lateVerdicts
<1> USE DEF Base, TypeOK, LeaveRequest, LeaveResult, LeaveVerdict, LeaveCall, LeaveSweep,
            Verdicts, Busy, WorkerHoldsJob
<1>1. CASE pc \in {"report", "tag", "tag_report"} /\ LeaveResult
  BY <1>1
<1>2. CASE pc = "fail" /\ LeaveVerdict("failed")
  BY <1>2
<1>3. CASE pc = "notify" /\ LeaveVerdict("done")
  BY <1>3
<1>4. CASE pc \in {"poll", "boot"} /\ (LeaveCall("claim") \/ LeaveCall("sweep"))
  BY <1>4
<1>5. CASE pc = "sweep" /\ LeaveSweep
  BY <1>5
<1> QED
  BY <1>1, <1>2, <1>3, <1>4, <1>5

\* Hence a late request keeps its types and its job.
LEMMA LeaveKeeps ==
  ASSUME Base, LeaveRequest \/ UNCHANGED late
  PROVE  /\ lateResults' \subseteq [job : Jobs, stage : Stages]
         /\ lateVerdicts' \subseteq [job : Jobs, verdict : Verdicts]
         /\ lateSweeps' \subseteq [rows : SUBSET Jobs, untold : SUBSET Jobs]
         /\ lateCalls' \subseteq {"claim", "sweep", "done"}
         /\ \A r \in lateResults' : r.job \in HandedOut
         /\ \A v \in lateVerdicts' : v.job \in HandedOut
         /\ \A w \in lateSweeps' : w.rows \subseteq HandedOut /\ w.untold \subseteq w.rows
<1> USE DEF Base, TypeOK, LateHandedOut, SweepsHandedOut
<1>1. CASE UNCHANGED late
  BY <1>1 DEF late
<1>2. CASE LeaveRequest
  <2>1. /\ lateSweeps' \subseteq [rows : SUBSET Jobs, untold : SUBSET Jobs]
        /\ \A w \in lateSweeps' : w.rows \subseteq HandedOut /\ w.untold \subseteq w.rows
    BY <1>2, LeaveFacts
  <2>2. lateCalls' \subseteq {"claim", "sweep", "done"}
    BY <1>2, LeaveFacts
  <2>3. CASE Busy
    BY <1>2, <2>1, <2>2, <2>3, LeaveFacts DEF HandedOut
  <2>4. CASE ~Busy
    BY <1>2, <2>1, <2>2, <2>4, LeaveFacts
  <2> QED
    BY <2>3, <2>4
<1> QED
  BY <1>1, <1>2

\* No step leaves the types.
LEMMA NextTypeOK == Base /\ [Next]_vars => TypeOK'
<1> SUFFICES ASSUME Base, [Next]_vars PROVE TypeOK'
  OBVIOUS
<1>a. 0 \in Stages /\ 0 \in 0..MaxSweepTries
  BY LifecycleAssumption DEF Stages
<1>b. Busy => cur \in Jobs /\ cur \in HandedOut
  BY DEF Base, WorkerHoldsJob, HandedOut
<1>c. UNCHANGED queue => QueueTypeOK'
  BY QueueSame DEF Advances
<1> USE <1>a, <1>c, LifecycleAssumption
    DEF TypeOK, Kinds, PC, None, Verdicts,
        jobVars, effects, worker, sweep, late, Idle, Dropped, Goto, Fault
<1>d. TypeOK
  BY DEF Base
<1> USE <1>d
<1>1. ASSUME NEW t \in Tracks, UploadCached(t) PROVE TypeOK'
  BY <1>1 DEF UploadCached
<1>2. ASSUME NEW t \in Tracks, UploadEnqueued(t) PROVE TypeOK'
  <2>1. PICK j \in Jobs : NewJob(j, "analyze", t, j)
    BY <1>2 DEF UploadEnqueued
  <2>2. /\ QueueTypeOK' /\ kind' \in [Jobs -> Kinds] /\ track' \in [Jobs -> Tracks \cup {NoTrack}]
        /\ source' \in [Jobs -> Jobs \cup {None}]
    BY <2>1, NewJobFacts
  <2> QED
    BY <1>2, <2>2 DEF UploadEnqueued
<1>3. ASSUME NEW t \in Tracks, TagRequest(t) PROVE TypeOK'
  <2>1. PICK j \in Jobs, s \in Uploads(t) \cup {None} : NewJob(j, "tag", t, s)
    BY <1>3 DEF TagRequest
  <2>2. /\ QueueTypeOK' /\ kind' \in [Jobs -> Kinds] /\ track' \in [Jobs -> Tracks \cup {NoTrack}]
        /\ source' \in [Jobs -> Jobs \cup {None}]
    BY <2>1, NewJobFacts DEF Uploads
  <2> QED
    BY <1>3, <2>2 DEF TagRequest
<1>4. CASE ClipRequest
  <2>1. PICK j \in Jobs : NewJob(j, "loop", NoTrack, j)
    BY <1>4 DEF ClipRequest
  <2>2. /\ QueueTypeOK' /\ kind' \in [Jobs -> Kinds] /\ track' \in [Jobs -> Tracks \cup {NoTrack}]
        /\ source' \in [Jobs -> Jobs \cup {None}]
    BY <2>1, NewJobFacts
  <2> QED
    BY <1>4, <2>2 DEF ClipRequest
<1>5. ASSUME NEW j \in Jobs, ClipDropped(j) PROVE TypeOK'
  BY <1>5 DEF ClipDropped
<1>6. CASE SweepSelect
  <2>1. CASE UNCHANGED <<told, waiting>>
    BY <1>6, <2>1 DEF SweepSelect, InProgress
  <2>2. CASE \E j \in InProgress : TellOrphans({j})
    <3>1. told' \in [Jobs -> SUBSET Verdicts] /\ waiting' \subseteq Tracks
      BY <2>2, SelectFacts
    <3> QED
      BY <1>6, <3>1 DEF SweepSelect, InProgress
  <2> QED
    BY <1>6, <2>1, <2>2 DEF SweepSelect
<1>7. CASE SweepCommit
  <2>1. QueueTypeOK' /\ told' \in [Jobs -> SUBSET Verdicts] /\ waiting' \subseteq Tracks
        /\ files' \subseteq Jobs /\ stored' = stored /\ analyzed' = analyzed
    BY <1>7, SweepSets, SweepFacts DEF SweepCommit, Advances
  <2> QED
    BY <1>7, <2>1 DEF SweepCommit
<1>8. CASE Take
  BY <1>8, ClaimFacts DEF Take, FirstStep, Advances
<1>9. CASE Announce
  BY <1>9 DEF Announce
<1>10. CASE Compute
  BY <1>10 DEF Compute
<1>11. CASE Report
  <2>1. QueueTypeOK' /\ stored' \in [Jobs -> SUBSET Stages] /\ analyzed' \subseteq Tracks
    BY <1>11, <1>b, StoreFacts DEF Report, Busy, Advances
  <2>2. stage # NStages - 1 => stage + 1 \in Stages
    BY DEF Stages
  <2> QED
    BY <1>11, <2>1, <2>2 DEF Report
<1>12. CASE Notify
  BY <1>12 DEF Notify, Tell
<1>13. CASE Cleanup
  BY <1>13 DEF Cleanup
<1>14. CASE Fail
  BY <1>14 DEF Fail, Tell
<1>15. CASE TagBlank
  BY <1>15, <1>b, StoreFacts DEF TagBlank, Busy, Advances
<1>16. CASE TagCompute
  BY <1>16 DEF TagCompute
<1>17. CASE TagReport
  BY <1>17, <1>b, StoreFacts DEF TagReport, Busy, Advances
<1>18. CASE LoopRun
  BY <1>18 DEF LoopRun
<1>19. CASE Abandon
  BY <1>19, LeaveKeeps DEF Abandon
<1>20. CASE TakeLost
  BY <1>20, LeaveKeeps, ClaimFacts DEF TakeLost, Advances
<1>21. CASE ReportRejected
  BY <1>21 DEF ReportRejected
<1>22. CASE TagRejected
  BY <1>22 DEF TagRejected
<1>23. CASE SweepUnanswered
  <2>1. CASE UNCHANGED <<queue, effects>>
    BY <1>23, <2>1, LeaveKeeps DEF SweepUnanswered
  <2>2. CASE SweepRows(orphans, untold) /\ UNCHANGED late
    <3>1. QueueTypeOK' /\ told' \in [Jobs -> SUBSET Verdicts] /\ waiting' \subseteq Tracks
          /\ files' \subseteq Jobs /\ stored' = stored /\ analyzed' = analyzed
      BY <2>2, SweepSets, SweepFacts DEF Advances
    <3> QED
      BY <1>23, <2>2, <3>1 DEF SweepUnanswered
  <2> QED
    BY <1>23, <2>1, <2>2 DEF SweepUnanswered
<1>24. CASE SweepRejected
  BY <1>24 DEF SweepRejected
<1>25. CASE Crash
  BY <1>25, LeaveKeeps DEF Crash
<1>26. ASSUME NEW r \in lateResults, LateResult(r) PROVE TypeOK'
  <2>1. r.job \in HandedOut /\ r.stage \in Stages
    BY DEF Base, LateHandedOut
  <2>2. QueueTypeOK' /\ stored' \in [Jobs -> SUBSET Stages] /\ analyzed' \subseteq Tracks
    BY <1>26, <2>1, StoreFacts DEF LateResult, Advances
  <2> QED
    BY <1>26, <2>2 DEF LateResult
<1>27. ASSUME NEW v \in lateVerdicts, LateVerdict(v) PROVE TypeOK'
  BY <1>27 DEF LateVerdict, Tell
<1>28. CASE LateClaim
  BY <1>28, ClaimFacts DEF LateClaim, Begun, Advances
<1>29. CASE LateSelect
  <2>1. PICK j \in InProgress :
               /\ TellOrphans({j})
               /\ lateSweeps' = lateSweeps
                         \cup {[rows |-> InProgress, untold |-> InProgress \ {j}]}
    BY <1>29 DEF LateSelect
  <2>2. lateSweeps' \subseteq [rows : SUBSET Jobs, untold : SUBSET Jobs]
    BY <2>1 DEF InProgress
  <2>3. told' \in [Jobs -> SUBSET Verdicts] /\ waiting' \subseteq Tracks
    BY <2>1, SelectFacts
  <2> QED
    BY <1>29, <2>2, <2>3 DEF LateSelect, Begun
<1>30. ASSUME NEW w \in lateSweeps, LateSweep(w) PROVE TypeOK'
  <2>1. QueueTypeOK' /\ told' \in [Jobs -> SUBSET Verdicts] /\ waiting' \subseteq Tracks
        /\ files' \subseteq Jobs /\ stored' = stored /\ analyzed' = analyzed
    BY <1>30, SweepSets, SweepFacts DEF LateSweep, Advances
  <2> QED
    BY <1>30, <2>1 DEF LateSweep
<1>31. CASE UNCHANGED vars
  BY <1>31 DEF vars
<1> QED
  BY <1>1, <1>2, <1>3, <1>4, <1>5, <1>6, <1>7, <1>8, <1>9, <1>10, <1>11,
  <1>12, <1>13, <1>14, <1>15, <1>16, <1>17, <1>18, <1>19, <1>20, <1>21,
  <1>22, <1>23, <1>24, <1>25, <1>26, <1>27, <1>28, <1>29, <1>30, <1>31
     DEF Next, Player, WorkerStep, Misfortune

\* No step leaves the first layer.
LEMMA NextBase == Base /\ [Next]_vars => Base'
<1> SUFFICES ASSUME Base, [Next]_vars PROVE Base'
  OBVIOUS
<1>a. TypeOK'
  BY NextTypeOK
<1>b. TypeOK /\ HandedOut \subseteq Jobs
  BY DEF Base, HandedOut
<1>c. UNCHANGED queue => Advances
  BY QueueSame
<1>d. WorkerHoldsJob /\ Rows /\ LateHandedOut /\ SweepsHandedOut
  BY DEF Base
<1> DEFINE Kept == OrderKept' /\ WorkerHoldsJob' /\ Rows' /\ LateHandedOut' /\ SweepsHandedOut'
<1>e. SUFFICES Kept
  BY <1>a DEF Base
<1> USE <1>b, <1>c, <1>d
    DEF TypeOK, None, Verdicts, WorkerHoldsJob, Busy, Rows, LateHandedOut,
        SweepsHandedOut, jobVars, effects, worker, sweep, late, Idle, Dropped, Goto, Fault
<1>1. ASSUME NEW t \in Tracks, UploadCached(t) PROVE Kept
  BY <1>1 DEF UploadCached, Advances
<1>2. ASSUME NEW t \in Tracks, UploadEnqueued(t) PROVE Kept
  <2>a. PICK j \in Jobs : NewJob(j, "analyze", t, j)
    BY <1>2 DEF UploadEnqueued
  <2>b. /\ OrderKept' /\ HandedOut' = HandedOut /\ j \notin HandedOut
        /\ status[j] = "absent" /\ status'[j] = "pending"
        /\ \A i \in Jobs : i # j => status'[i] = status[i] /\ ahead'[i] = ahead[i]
        /\ kind' = [kind EXCEPT ![j] = "analyze"] /\ track' = [track EXCEPT ![j] = t]
        /\ source' = [source EXCEPT ![j] = j]
    BY SMTT(20), <2>a, NewJobFacts DEF Kinds
  <2>1. Rows'
    BY <1>2, <2>b DEF UploadEnqueued
  <2> QED
    BY <1>2, <2>b, <2>1 DEF UploadEnqueued
<1>3. ASSUME NEW t \in Tracks, TagRequest(t) PROVE Kept
  <2>a. PICK j \in Jobs, s \in Uploads(t) \cup {None} : NewJob(j, "tag", t, s)
    BY <1>3 DEF TagRequest
  <2>b. /\ OrderKept' /\ HandedOut' = HandedOut /\ j \notin HandedOut
        /\ status[j] = "absent" /\ status'[j] = "pending"
        /\ \A i \in Jobs : i # j => status'[i] = status[i] /\ ahead'[i] = ahead[i]
        /\ kind' = [kind EXCEPT ![j] = "tag"] /\ track' = [track EXCEPT ![j] = t]
        /\ source' = [source EXCEPT ![j] = s]
    BY SMTT(20), <2>a, NewJobFacts DEF Kinds, Uploads
  <2>c. s \in {None, j} \cup 1..ahead'[j]
    <3>1. ahead'[j] = s /\ s \in Nat
      BY <2>a, NewJobFacts, MaxJobsAssumption DEF Kinds, Uploads, Jobs
    <3> QED
      BY <3>1
  <2>1. Rows'
    BY <1>3, <2>b, <2>c DEF TagRequest
  <2> QED
    BY <1>3, <2>b, <2>1 DEF TagRequest
<1>4. CASE ClipRequest
  <2>a. PICK j \in Jobs : NewJob(j, "loop", NoTrack, j)
    BY <1>4 DEF ClipRequest
  <2>b. /\ OrderKept' /\ HandedOut' = HandedOut /\ j \notin HandedOut
        /\ status[j] = "absent" /\ status'[j] = "pending"
        /\ \A i \in Jobs : i # j => status'[i] = status[i] /\ ahead'[i] = ahead[i]
        /\ kind' = [kind EXCEPT ![j] = "loop"] /\ track' = [track EXCEPT ![j] = NoTrack]
        /\ source' = [source EXCEPT ![j] = j]
    BY SMTT(20), <2>a, NewJobFacts DEF Kinds
  <2>1. Rows'
    BY <1>4, <2>b DEF ClipRequest
  <2> QED
    BY <1>4, <2>b, <2>1 DEF ClipRequest
<1>5. ASSUME NEW j \in Jobs, ClipDropped(j) PROVE Kept
  BY <1>5 DEF ClipDropped, Advances
<1>6. CASE SweepSelect
  <2>1. Rows'
    <3>1. CASE UNCHANGED told
      BY <1>6, <3>1 DEF SweepSelect, Advances
    <3>2. ASSUME NEW j \in InProgress, TellOrphans({j}) PROVE Rows'
      <4>1. \A i \in Jobs : i \notin HandedOut => told'[i] = told[i]
        BY <3>2, SelectFacts
      <4> QED
        BY <1>6, <4>1 DEF SweepSelect, Advances
    <3> QED
      BY <1>6, <3>1, <3>2 DEF SweepSelect
  <2>2. WorkerHoldsJob' /\ SweepsHandedOut'
    BY <1>6, SelectFacts DEF SweepSelect, Advances
  <2> QED
    BY <1>6, <2>1, <2>2 DEF SweepSelect, Advances
<1>7. CASE SweepCommit
  <2>a. orphans \in SUBSET HandedOut /\ untold \in SUBSET orphans
    BY <1>7, SweepSets
  <2>b. /\ Advances /\ stored' = stored
        /\ \A j \in Jobs : j \notin HandedOut => told'[j] = told[j]
    BY <1>7, <2>a, SweepTells DEF SweepCommit
  <2> QED
    BY <1>7, <2>a, <2>b DEF SweepCommit, Advances
<1>8. CASE Take
  <2>a. PICK j \in Jobs : Claim(j) /\ cur' = j /\ pc' = FirstStep(j)
    BY <1>8 DEF Take
  <2>b. Advances /\ j \in HandedOut'
    BY <2>a, ClaimFacts
  <2>c. pc' \notin {"boot", "sweep", "poll"}
    BY <2>a, FirstStepFacts
  <2> QED
    BY <1>8, <2>a, <2>b, <2>c DEF Take, Advances
<1>9. CASE Announce
  BY <1>9 DEF Announce, Advances
<1>10. CASE Compute
  BY <1>10 DEF Compute, Advances
<1>11. CASE Report
  <2>a. /\ Advances /\ HandedOut' = HandedOut
        /\ \A i \in Jobs : i # cur => stored'[i] = stored[i]
    BY <1>11, StoreFacts DEF Report
  <2> QED
    BY <1>11, <2>a DEF Report, Advances
<1>12. CASE Notify
  BY <1>12 DEF Notify, Tell, Advances
<1>13. CASE Cleanup
  BY <1>13 DEF Cleanup, Advances
<1>14. CASE Fail
  BY <1>14 DEF Fail, Tell, Advances
<1>15. CASE TagBlank
  <2>a. /\ Advances /\ HandedOut' = HandedOut
        /\ \A i \in Jobs : i # cur => stored'[i] = stored[i]
    BY <1>15, StoreFacts DEF TagBlank
  <2> QED
    BY <1>15, <2>a DEF TagBlank, Advances
<1>16. CASE TagCompute
  BY <1>16 DEF TagCompute, Advances
<1>17. CASE TagReport
  <2>a. /\ Advances /\ HandedOut' = HandedOut
        /\ \A i \in Jobs : i # cur => stored'[i] = stored[i]
    BY <1>17, StoreFacts DEF TagReport
  <2> QED
    BY <1>17, <2>a DEF TagReport, Advances
<1>18. CASE LoopRun
  BY <1>18 DEF LoopRun, Advances
<1>19. CASE Abandon
  <2>a. LateHandedOut' /\ SweepsHandedOut'
    BY <1>19, LeaveKeeps DEF Abandon, Advances
  <2> QED
    BY <1>19, <2>a DEF Abandon, Advances
<1>20. CASE TakeLost
  <2>a. Advances
    BY <1>20, ClaimFacts DEF TakeLost
  <2>b. LateHandedOut' /\ SweepsHandedOut'
    BY <1>20, <2>a, LeaveKeeps DEF TakeLost, Advances
  <2> QED
    BY <1>20, <2>a, <2>b DEF TakeLost, Advances
<1>21. CASE ReportRejected
  BY <1>21 DEF ReportRejected, Advances
<1>22. CASE TagRejected
  BY <1>22 DEF TagRejected, Advances
<1>23. CASE SweepUnanswered
  <2>a. /\ Advances /\ stored' = stored
        /\ \A j \in Jobs : j \notin HandedOut => told'[j] = told[j]
    <3>1. CASE UNCHANGED <<queue, effects>>
      BY <3>1
    <3>2. CASE SweepRows(orphans, untold)
      <4>1. orphans \in SUBSET HandedOut /\ untold \in SUBSET orphans
        BY SweepSets
      <4> QED
        BY <3>2, <4>1, SweepTells
    <3> QED
      BY <1>23, <3>1, <3>2 DEF SweepUnanswered
  <2>b. LeaveRequest \/ UNCHANGED late
    BY <1>23 DEF SweepUnanswered
  <2>c. LateHandedOut' /\ SweepsHandedOut'
    BY <1>23, <2>a, <2>b, LeaveKeeps DEF SweepUnanswered, Advances
  <2> QED
    BY <1>23, <2>a, <2>c DEF SweepUnanswered, Advances
<1>24. CASE SweepRejected
  BY <1>24 DEF SweepRejected, Advances
<1>25. CASE Crash
  <2>a. LateHandedOut' /\ SweepsHandedOut'
    BY <1>25, LeaveKeeps DEF Crash, Advances
  <2> QED
    BY <1>25, <2>a DEF Crash, Advances
<1>26. ASSUME NEW r \in lateResults, LateResult(r) PROVE Kept
  <2>a. /\ Advances /\ HandedOut' = HandedOut
        /\ \A i \in Jobs : i # r.job => stored'[i] = stored[i]
    BY <1>26, StoreFacts DEF LateResult
  <2> QED
    BY <1>26, <2>a DEF LateResult, Advances
<1>27. ASSUME NEW v \in lateVerdicts, LateVerdict(v) PROVE Kept
  BY <1>27 DEF LateVerdict, Tell, Advances
<1>28. CASE LateClaim
  BY <1>28, ClaimFacts DEF LateClaim, Advances
<1>29. CASE LateSelect
  <2>a. PICK j \in InProgress :
               /\ TellOrphans({j})
               /\ lateSweeps' = lateSweeps
                         \cup {[rows |-> InProgress, untold |-> InProgress \ {j}]}
    BY <1>29 DEF LateSelect
  <2>b. SweepsHandedOut'
    BY <1>29, <2>a, SelectFacts DEF LateSelect, Advances
  <2>c. \A i \in Jobs : i \notin HandedOut => told'[i] = told[i]
    BY <2>a, SelectFacts
  <2>d. Rows'
    BY <1>29, <2>c DEF LateSelect, Advances
  <2> QED
    BY <1>29, <2>b, <2>d DEF LateSelect, Advances
<1>30. ASSUME NEW w \in lateSweeps, LateSweep(w) PROVE Kept
  <2>a. w.rows \in SUBSET HandedOut /\ w.untold \in SUBSET w.rows
    BY <1>30, SweepSets
  <2>b. /\ Advances /\ stored' = stored
        /\ \A j \in Jobs : j \notin HandedOut => told'[j] = told[j]
    BY <1>30, <2>a, SweepTells DEF LateSweep
  <2> QED
    BY <1>30, <2>a, <2>b DEF LateSweep, Advances
<1>31. CASE UNCHANGED vars
  BY <1>31 DEF vars, Advances
<1> QED
  BY <1>1, <1>2, <1>3, <1>4, <1>5, <1>6, <1>7, <1>8, <1>9, <1>10, <1>11,
  <1>12, <1>13, <1>14, <1>15, <1>16, <1>17, <1>18, <1>19, <1>20, <1>21,
  <1>22, <1>23, <1>24, <1>25, <1>26, <1>27, <1>28, <1>29, <1>30, <1>31
     DEF Next, Player, WorkerStep, Misfortune

-------------------------------------------------------------------------------
\* Which kind of job each step of the worker is for.
StepMatchesKind ==
  /\ pc \in {"announce", "compute", "report", "cleanup"} => kind[cur] = "analyze"
  /\ pc \in {"tag", "tag_report"} => kind[cur] = "tag"

\* The results of the earlier stages are written: before a stage starts, and also
\* behind every late result.
ResultsInOrder ==
  /\ pc \in {"announce", "compute", "report"} =>
       \A k \in Stages : k < stage => k \in stored[cur]
  /\ \A r \in lateResults : kind[r.job] = "analyze" =>
       \A k \in Stages : k < r.stage => k \in stored[r.job]

Complete == StepMatchesKind /\ ResultsInOrder /\ DoneMeansComplete /\ CachedMeansAnalyzed

\* There is nothing to be complete yet.
LEMMA InitComplete == Init => Complete
BY DEF Init, QueueInit, Complete, StepMatchesKind, ResultsInOrder,
       DoneMeansComplete, CachedMeansAnalyzed

\* A step that stores nothing and closes no row as done.
LEMMA RecordsKept ==
  ASSUME Complete, UNCHANGED <<stored, analyzed, kind, track>>,
         \A i \in Jobs : status'[i] = "done" => status[i] = "done"
  PROVE  DoneMeansComplete' /\ CachedMeansAnalyzed'
BY DEF Complete, DoneMeansComplete, CachedMeansAnalyzed, Uploads

\* A request for work: nothing is stored for a job that is new.
LEMMA NewRecordsKept ==
  ASSUME Base, Complete, UNCHANGED <<stored, analyzed>>,
         NEW j \in Jobs, status[j] = "absent", status'[j] = "pending",
         \A i \in Jobs : i # j => /\ status'[i] = status[i]
                                  /\ kind'[i] = kind[i] /\ track'[i] = track[i]
  PROVE  DoneMeansComplete' /\ CachedMeansAnalyzed'
<1>1. stored[j] = {}
  BY DEF Base, Rows, HandedOut
<1>2. Stages # {}
  BY LifecycleAssumption DEF Stages
<1>3. DoneMeansComplete'
  BY DEF Complete, DoneMeansComplete
<1>4. CachedMeansAnalyzed'
  BY <1>1, <1>2 DEF Complete, CachedMeansAnalyzed, Uploads
<1> QED
  BY <1>3, <1>4

\* A result that comes after those of all earlier stages completes the job if it
\* closes it.
LEMMA StoreCompletes ==
  ASSUME Base, Complete,
         NEW j \in HandedOut, NEW k \in Stages, Store(j, k), UNCHANGED jobVars,
         kind[j] = "analyze" => \A i \in Stages : i < k => i \in stored[j]
  PROVE  DoneMeansComplete' /\ CachedMeansAnalyzed'
<1>1. /\ \A i \in Jobs : i # j => status'[i] = status[i] /\ stored'[i] = stored[i]
      /\ status'[j] = IF kind[j] = "tag" \/ k = NStages - 1 THEN "done" ELSE status[j]
      /\ stored'[j] = stored[j] \cup {k} /\ stored' \in [Jobs -> SUBSET Stages]
      /\ \/ analyzed' = analyzed
         \/ /\ kind[j] = "analyze" /\ k = NStages - 1
            /\ analyzed' = analyzed \cup {track[j]}
  BY StoreFacts
<1>2. j \in Jobs /\ stored[j] \in SUBSET Stages
  BY DEF Base, TypeOK, HandedOut
<1>3. kind[j] = "analyze" /\ k = NStages - 1 => stored'[j] = Stages
  <2> SUFFICES ASSUME kind[j] = "analyze", k = NStages - 1, NEW i \in Stages
               PROVE  i \in stored'[j]
    BY <1>1, <1>2
  <2>1. i < k \/ i = k
    BY LifecycleAssumption DEF Stages
  <2> QED
    BY <1>1, <2>1
<1>4. DoneMeansComplete'
  <2> SUFFICES ASSUME NEW i \in Jobs, kind[i] = "analyze", status'[i] = "done"
               PROVE  stored'[i] = Stages
    BY DEF DoneMeansComplete, jobVars
  <2>1. CASE i # j
    BY <1>1, <2>1 DEF Complete, DoneMeansComplete
  <2>2. CASE i = j /\ k = NStages - 1
    BY <1>3, <2>2
  <2>3. CASE i = j /\ k # NStages - 1
    BY <1>1, <1>2, <2>3 DEF Complete, DoneMeansComplete
  <2> QED
    BY <2>1, <2>2, <2>3
<1>5. CachedMeansAnalyzed'
  <2>1. \A i \in Jobs : stored[i] = Stages => stored'[i] = Stages
    BY <1>1, <1>2
  <2> QED
    BY <1>1, <1>2, <1>3, <2>1 DEF Complete, CachedMeansAnalyzed, Uploads, jobVars
<1> QED
  BY <1>4, <1>5

\* No step, late or not, leaves the second layer.
LEMMA NextComplete == Base /\ Complete /\ [Next]_vars => Complete'
<1> SUFFICES ASSUME Base, Complete, [Next]_vars PROVE Complete'
  OBVIOUS
<1> DEFINE Ordered == StepMatchesKind' /\ ResultsInOrder'
           Recorded == DoneMeansComplete' /\ CachedMeansAnalyzed'
<1> SUFFICES Ordered /\ Recorded
  BY DEF Complete
<1>a. /\ Busy => cur \in HandedOut
      /\ stage \in Stages /\ HandedOut \subseteq Jobs
      /\ \A r \in lateResults : r.job \in HandedOut /\ r.stage \in Stages
      /\ \A j \in Jobs : j \notin HandedOut => stored[j] = {}
      /\ stored \in [Jobs -> SUBSET Stages]
  BY DEF Base, TypeOK, WorkerHoldsJob, HandedOut, LateHandedOut, Rows
<1>b. StepMatchesKind /\ ResultsInOrder
  BY DEF Complete
<1>c. UNCHANGED <<queue, jobVars, stored, analyzed>> => Recorded
  BY RecordsKept DEF queue, jobVars
<1> USE <1>a, <1>b, <1>c
    DEF Busy, StepMatchesKind, ResultsInOrder,
        jobVars, effects, worker, late, Idle, Dropped, Goto, Fault,
        LeaveResult, LeaveVerdict, LeaveCall, LeaveSweep, LeaveRequest
<1>1. ASSUME NEW t \in Tracks, UploadCached(t) PROVE Ordered /\ Recorded
  BY <1>1 DEF UploadCached
<1>2. ASSUME NEW t \in Tracks, UploadEnqueued(t) PROVE Ordered /\ Recorded
  <2>1. PICK j \in Jobs : NewJob(j, "analyze", t, j)
    BY <1>2 DEF UploadEnqueued
  <2>2. /\ j \notin HandedOut /\ status[j] = "absent" /\ status'[j] = "pending"
        /\ \A i \in Jobs : i # j => /\ status'[i] = status[i]
                                    /\ kind'[i] = kind[i] /\ track'[i] = track[i]
    <3>1. /\ j \notin HandedOut /\ status[j] = "absent" /\ status'[j] = "pending"
          /\ \A i \in Jobs : i # j => status'[i] = status[i]
          /\ kind' = [kind EXCEPT ![j] = "analyze"] /\ track' = [track EXCEPT ![j] = t]
      BY <2>1, NewJobFacts DEF Kinds
    <3> QED
      BY <3>1 DEF Base, TypeOK
  <2>3. UNCHANGED <<stored, analyzed>>
    BY <1>2 DEF UploadEnqueued
  <2>4. Recorded
    BY <2>2, <2>3, NewRecordsKept
  <2>5. Ordered
    BY <1>2, <2>2 DEF UploadEnqueued
  <2> QED
    BY <2>4, <2>5
<1>3. ASSUME NEW t \in Tracks, TagRequest(t) PROVE Ordered /\ Recorded
  <2>1. PICK j \in Jobs, s \in Uploads(t) \cup {None} : NewJob(j, "tag", t, s)
    BY <1>3 DEF TagRequest
  <2>2. /\ j \notin HandedOut /\ status[j] = "absent" /\ status'[j] = "pending"
        /\ \A i \in Jobs : i # j => /\ status'[i] = status[i]
                                    /\ kind'[i] = kind[i] /\ track'[i] = track[i]
    <3>1. /\ j \notin HandedOut /\ status[j] = "absent" /\ status'[j] = "pending"
          /\ \A i \in Jobs : i # j => status'[i] = status[i]
          /\ kind' = [kind EXCEPT ![j] = "tag"] /\ track' = [track EXCEPT ![j] = t]
      BY <2>1, NewJobFacts DEF Kinds, Uploads
    <3> QED
      BY <3>1 DEF Base, TypeOK
  <2>3. UNCHANGED <<stored, analyzed>>
    BY <1>3 DEF TagRequest
  <2>4. Recorded
    BY <2>2, <2>3, NewRecordsKept
  <2>5. Ordered
    BY <1>3, <2>2 DEF TagRequest
  <2> QED
    BY <2>4, <2>5
<1>4. CASE ClipRequest
  <2>1. PICK j \in Jobs : NewJob(j, "loop", NoTrack, j)
    BY <1>4 DEF ClipRequest
  <2>2. /\ j \notin HandedOut /\ status[j] = "absent" /\ status'[j] = "pending"
        /\ \A i \in Jobs : i # j => /\ status'[i] = status[i]
                                    /\ kind'[i] = kind[i] /\ track'[i] = track[i]
    <3>1. /\ j \notin HandedOut /\ status[j] = "absent" /\ status'[j] = "pending"
          /\ \A i \in Jobs : i # j => status'[i] = status[i]
          /\ kind' = [kind EXCEPT ![j] = "loop"] /\ track' = [track EXCEPT ![j] = NoTrack]
      BY <2>1, NewJobFacts DEF Kinds
    <3> QED
      BY <3>1 DEF Base, TypeOK
  <2>3. UNCHANGED <<stored, analyzed>>
    BY <1>4 DEF ClipRequest
  <2>4. Recorded
    BY <2>2, <2>3, NewRecordsKept
  <2>5. Ordered
    BY <1>4, <2>2 DEF ClipRequest
  <2> QED
    BY <2>4, <2>5
<1>5. ASSUME NEW j \in Jobs, ClipDropped(j) PROVE Ordered /\ Recorded
  BY <1>5 DEF ClipDropped
<1>6. CASE SweepSelect
  BY <1>6 DEF SweepSelect
<1>7. CASE SweepCommit
  <2>1. /\ UNCHANGED <<stored, analyzed>>
        /\ \A i \in Jobs : status'[i] = "done" => status[i] = "done"
    BY <1>7, SweepSets, SweepFacts DEF SweepCommit
  <2>2. Recorded
    BY <1>7, <2>1, RecordsKept DEF SweepCommit
  <2> QED
    BY <1>7, <2>1, <2>2 DEF SweepCommit
<1>8. CASE Take
  <2>1. PICK j \in Jobs : Claim(j) /\ cur' = j /\ pc' = FirstStep(j)
    BY <1>8 DEF Take
  <2>2. Ordered
    <3>1. stage = 0
      BY <1>8 DEF Take, Base, WorkerHoldsJob
    <3>2. ~ \E k \in Stages : k < 0
      BY LifecycleAssumption DEF Stages
    <3> QED
      BY <1>8, <2>1, <3>1, <3>2, FirstStepFacts DEF Take
  <2>3. \A i \in Jobs : status'[i] = "done" => status[i] = "done"
    BY <2>1, ClaimFacts
  <2>4. Recorded
    BY <1>8, <2>3, RecordsKept DEF Take
  <2> QED
    BY <2>2, <2>4
<1>9. CASE Announce
  BY <1>9 DEF Announce
<1>10. CASE Compute
  BY <1>10 DEF Compute
<1>11. CASE Report
  <2>1. /\ stored'[cur] = stored[cur] \cup {stage}
        /\ \A i \in Jobs : i # cur => stored'[i] = stored[i]
    BY <1>11, StoreFacts DEF Report
  <2>2. \A k \in Stages : k < stage + 1 => k < stage \/ k = stage
    BY DEF Stages
  <2>3. Ordered
    BY <1>11, <2>1, <2>2 DEF Report
  <2>4. Recorded
    BY <1>11, StoreCompletes DEF Report
  <2> QED
    BY <2>3, <2>4
<1>12. CASE Notify
  BY <1>12 DEF Notify
<1>13. CASE Cleanup
  BY <1>13 DEF Cleanup
<1>14. CASE Fail
  BY <1>14 DEF Fail
<1>15. CASE TagBlank
  <2>1. /\ stored'[cur] = stored[cur] \cup {stage}
        /\ \A i \in Jobs : i # cur => stored'[i] = stored[i]
    BY <1>15, StoreFacts DEF TagBlank
  <2>2. Ordered
    BY <1>15, <2>1 DEF TagBlank
  <2>3. Recorded
    BY <1>15, StoreCompletes DEF TagBlank
  <2> QED
    BY <2>2, <2>3
<1>16. CASE TagCompute
  BY <1>16 DEF TagCompute
<1>17. CASE TagReport
  <2>1. /\ stored'[cur] = stored[cur] \cup {stage}
        /\ \A i \in Jobs : i # cur => stored'[i] = stored[i]
    BY <1>17, StoreFacts DEF TagReport
  <2>2. Ordered
    BY <1>17, <2>1 DEF TagReport
  <2>3. Recorded
    BY <1>17, StoreCompletes DEF TagReport
  <2> QED
    BY <2>2, <2>3
<1>18. CASE LoopRun
  BY <1>18 DEF LoopRun
<1>19. CASE Abandon
  BY <1>19 DEF Abandon
<1>20. CASE TakeLost
  <2>1. \A i \in Jobs : status'[i] = "done" => status[i] = "done"
    BY <1>20, ClaimFacts DEF TakeLost, queue
  <2>2. Recorded
    BY <1>20, <2>1, RecordsKept DEF TakeLost
  <2> QED
    BY <1>20, <2>2 DEF TakeLost
<1>21. CASE ReportRejected
  BY <1>21 DEF ReportRejected
<1>22. CASE TagRejected
  BY <1>22 DEF TagRejected
<1>23. CASE SweepUnanswered
  <2>1. Recorded
    <3>1. CASE UNCHANGED <<queue, effects>>
      BY <1>23, <3>1 DEF SweepUnanswered
    <3>2. CASE SweepRows(orphans, untold)
      <4>1. /\ UNCHANGED <<stored, analyzed>>
            /\ \A i \in Jobs : status'[i] = "done" => status[i] = "done"
        BY <3>2, SweepSets, SweepFacts
      <4> QED
        BY <1>23, <4>1, RecordsKept DEF SweepUnanswered
    <3> QED
      BY <1>23, <3>1, <3>2 DEF SweepUnanswered
  <2>2. stored' = stored
    BY <1>23, SweepSets, SweepFacts DEF SweepUnanswered
  <2> QED
    BY <1>23, <2>1, <2>2 DEF SweepUnanswered
<1>24. CASE SweepRejected
  BY <1>24 DEF SweepRejected
<1>25. CASE Crash
  BY <1>25 DEF Crash
<1>26. ASSUME NEW r \in lateResults, LateResult(r) PROVE Ordered /\ Recorded
  <2>1. /\ stored'[r.job] = stored[r.job] \cup {r.stage}
        /\ \A i \in Jobs : i # r.job => stored'[i] = stored[i]
    BY <1>26, StoreFacts DEF LateResult
  <2>2. Ordered
    BY <1>26, <2>1 DEF LateResult
  <2>3. Recorded
    BY <1>26, StoreCompletes DEF LateResult
  <2> QED
    BY <2>2, <2>3
<1>27. ASSUME NEW v \in lateVerdicts, LateVerdict(v) PROVE Ordered /\ Recorded
  BY <1>27 DEF LateVerdict
<1>28. CASE LateClaim
  <2>1. \A i \in Jobs : status'[i] = "done" => status[i] = "done"
    BY <1>28, ClaimFacts DEF LateClaim
  <2>2. Recorded
    BY <1>28, <2>1, RecordsKept DEF LateClaim
  <2> QED
    BY <1>28, <2>2 DEF LateClaim
<1>29. CASE LateSelect
  BY <1>29 DEF LateSelect
<1>30. ASSUME NEW w \in lateSweeps, LateSweep(w) PROVE Ordered /\ Recorded
  <2>1. /\ UNCHANGED <<stored, analyzed>>
        /\ \A i \in Jobs : status'[i] = "done" => status[i] = "done"
    BY <1>30, SweepSets, SweepFacts DEF LateSweep
  <2>2. Recorded
    BY <1>30, <2>1, RecordsKept DEF LateSweep
  <2> QED
    BY <1>30, <2>1, <2>2 DEF LateSweep
<1>31. CASE UNCHANGED vars
  BY <1>31 DEF vars
<1> QED
  BY <1>1, <1>2, <1>3, <1>4, <1>5, <1>6, <1>7, <1>8, <1>9, <1>10, <1>11,
  <1>12, <1>13, <1>14, <1>15, <1>16, <1>17, <1>18, <1>19, <1>20, <1>21,
  <1>22, <1>23, <1>24, <1>25, <1>26, <1>27, <1>28, <1>29, <1>30, <1>31
     DEF Next, Player, WorkerStep, Misfortune

-------------------------------------------------------------------------------
\* As long as no claim and no sweep has begun late.

\* A sweep has selected the row and has yet to close it.
Swept(j) == j \in orphans \/ \E w \in lateSweeps : j \in w.rows

\* The job in the worker's hands has had no terminal event, and none of an
\* earlier attempt is on the wire: there is no earlier attempt.
VerdictPending ==
  /\ Busy /\ pc # "cleanup" => told[cur] = {}
  /\ Busy => \A v \in lateVerdicts : v.job # cur

\* An event on the wire says what was announced already, if anything was.
LateVerdictsAgree ==
  \A v \in lateVerdicts : kind[v.job] = "analyze" =>
    /\ told[v.job] \subseteq {v.verdict}
    /\ \A w \in lateVerdicts : w.job = v.job => w.verdict = v.verdict

\* A sweep holds neither the row nor the upload of the worker's job, and no row of an
\* analysis that is announced done, now or by an event on the wire.
SweepsApart ==
  \A j \in Jobs : Swept(j) =>
    /\ Busy => cur \notin {j, source[j]}
    /\ kind[j] = "analyze" => /\ "done" \notin told[j]
                              /\ \A v \in lateVerdicts : v.job = j => v.verdict = "failed"

\* track_done of an analysis, about to be sent or still on the wire.
DoneIsWritten ==
  /\ pc = "notify" /\ kind[cur] = "analyze" => status[cur] = "done"
  /\ \A v \in lateVerdicts : v.verdict = "done" /\ kind[v.job] = "analyze"
                               => status[v.job] = "done"

InTime == /\ VerdictPending /\ LateVerdictsAgree /\ SweepsApart /\ DoneIsWritten
          /\ AudioKept /\ VerdictConsistent /\ DoneEventMeansDone
Punctual == Prompt => InTime

\* Nothing is late yet.
LEMMA InitPunctual == Init => Punctual
BY DEF Init, QueueInit, Punctual, InTime, VerdictPending, Busy, LateVerdictsAgree,
       SweepsApart, Swept, DoneIsWritten, AudioKept, Analyzing, VerdictConsistent,
       DoneEventMeansDone, Verdicts

\* What has begun late stays so.
LEMMA PromptBefore == Next /\ Prompt' => Prompt
<1> USE DEF Prompt
<1>1. CASE Player
  BY <1>1 DEF Player, UploadCached, UploadEnqueued, TagRequest, ClipRequest, ClipDropped, late
<1>2. CASE WorkerStep
  BY <1>2 DEF WorkerStep, SweepSelect, SweepCommit, Take, Announce, Compute, Report, Notify,
              Cleanup, Fail, TagBlank, TagCompute, TagReport, LoopRun, late
<1>3. CASE Misfortune
  BY <1>3 DEF Misfortune, Abandon, TakeLost, ReportRejected, TagRejected, SweepUnanswered,
              SweepRejected, Crash, LateResult, LateVerdict, LateClaim, LateSelect, LateSweep,
              late, Begun, LeaveRequest, LeaveResult, LeaveVerdict, LeaveCall, LeaveSweep
<1> QED
  BY <1>1, <1>2, <1>3 DEF Next

\* The sweep deletes what the audio_path of its rows names: their own uploads, and
\* uploads that were there before them, which have been handed out before them.
LEMMA SweptSources ==
  ASSUME Base, NEW j \in HandedOut
  PROVE  source[j] \in HandedOut \cup {None}
<1>1. j \in Jobs /\ 1..ahead[j] \subseteq HandedOut
  BY DEF Base, OrderKept, HandedOut
<1> QED
  BY <1>1 DEF Base, Rows

\* What the UPDATEs of a sweep leave as it must be.
LEMMA SweepsInTime ==
  ASSUME Base, InTime, Prompt, NEW S \in SUBSET HandedOut, NEW U \in SUBSET S,
         SweepRows(S, U), \A j \in S : Swept(j)
  PROVE  /\ \A j \in Jobs : kind[j] = "analyze" =>
              /\ told'[j] # Verdicts
              /\ "done" \in told'[j] => status'[j] = "done" /\ ~Swept(j)
              /\ status'[j] = "pending" => status[j] = "pending" /\ (j \in files => j \in files')
              /\ Busy /\ j = cur /\ j \in files => j \in files'
         /\ \A v \in lateVerdicts : kind[v.job] = "analyze" =>
              /\ told'[v.job] \subseteq {v.verdict}
              /\ v.verdict = "done" => status'[v.job] = status[v.job]
         /\ Busy => told'[cur] = told[cur] /\ status'[cur] = status[cur]
<1>1. /\ \A j \in Jobs : status'[j] = IF j \in S THEN "failed" ELSE status[j]
      /\ \A j \in Jobs : told'[j] = IF j \in U THEN told[j] \cup {"failed"} ELSE told[j]
      /\ files' = files \ {source[j] : j \in S}
      /\ told' \in [Jobs -> SUBSET Verdicts]
  BY ZenonT(40), SweepFacts
<1>2. /\ HandedOut \subseteq Jobs /\ told \in [Jobs -> SUBSET Verdicts]
      /\ \A v \in lateVerdicts : v.job \in Jobs /\ v.verdict \in Verdicts
      /\ Busy => cur \in HandedOut
  BY DEF Base, TypeOK, HandedOut, LateHandedOut, WorkerHoldsJob
<1>3. \A j \in S : kind[j] = "analyze" => "done" \notin told[j]
  BY <1>2 DEF InTime, SweepsApart
<1>4. ASSUME NEW j \in Jobs, kind[j] = "analyze"
      PROVE  told'[j] # Verdicts /\ ("done" \in told'[j] => status'[j] = "done" /\ ~Swept(j))
  <2>1. told[j] # Verdicts /\ ("done" \in told[j] => status[j] = "done" /\ ~Swept(j))
    BY <1>4 DEF InTime, VerdictConsistent, DoneEventMeansDone, SweepsApart
  <2>2. CASE j \in S
    <3>1. "done" \notin told'[j]
      BY <1>1, <1>3, <1>4, <2>2
    <3> QED
      BY <3>1 DEF Verdicts
  <2>3. CASE j \notin S
    BY <1>1, <2>1, <2>3
  <2> QED
    BY <2>2, <2>3
<1>5. ASSUME NEW j \in Jobs, j \in files, kind[j] = "analyze", status'[j] = "pending"
      PROVE  status[j] = "pending" /\ j \in files'
  <2>1. status[j] = "pending"
    BY <1>1, <1>5
  <2>2. j \notin HandedOut /\ j # None
    BY <2>1, MaxJobsAssumption DEF HandedOut, Jobs, None
  <2> QED
    BY <1>1, <1>5, <2>1, <2>2, SweptSources
<1>6. ASSUME NEW j \in Jobs, j \in files, Busy, j = cur PROVE j \in files'
  BY <1>1, <1>2, <1>6 DEF InTime, SweepsApart
<1>7. ASSUME NEW j \in Jobs, status'[j] = "pending" PROVE status[j] = "pending"
  BY <1>1, <1>7
<1>8. ASSUME NEW v \in lateVerdicts, kind[v.job] = "analyze"
      PROVE  /\ told'[v.job] \subseteq {v.verdict}
             /\ v.verdict = "done" => status'[v.job] = status[v.job]
  <2>1. told[v.job] \subseteq {v.verdict}
    BY <1>8 DEF InTime, LateVerdictsAgree
  <2>2. v.job \in S => v.verdict = "failed"
    BY <1>2, <1>8 DEF InTime, SweepsApart
  <2>3. v.verdict = "done" => v.job \notin S
    BY <2>2
  <2> QED
    BY <1>1, <1>2, <2>1, <2>2, <2>3
<1>9. ASSUME Busy PROVE told'[cur] = told[cur] /\ status'[cur] = status[cur]
  <2>1. cur \notin S
    BY <1>2, <1>9 DEF InTime, SweepsApart
  <2> QED
    BY <1>1, <1>2, <1>9, <2>1
<1> QED
  BY <1>4, <1>5, <1>6, <1>7, <1>8, <1>9

\* Nor the third, as long as no claim and no sweep begins late.
LEMMA NextPunctual == Base /\ Punctual /\ Complete /\ [Next]_vars => Punctual'
<1> SUFFICES ASSUME Base, Complete, Punctual, [Next]_vars, Prompt' PROVE InTime'
  BY DEF Punctual
<1>a. Prompt /\ InTime
  BY PromptBefore DEF Punctual, Prompt, vars, late
<1>b. /\ Busy => cur \in HandedOut
      /\ pc # "sweep" => orphans = {} /\ untold = {}
      /\ ~Busy => cur = None
      /\ HandedOut = {j \in Jobs : status[j] \notin {"absent", "pending"}}
      /\ told \in [Jobs -> SUBSET Verdicts] /\ None \notin Jobs /\ files \subseteq Jobs
      /\ \A j \in Jobs : j \notin HandedOut => told[j] = {}
      /\ \A j \in Jobs : status[j] # "absent" /\ kind[j] = "analyze" => source[j] = j
      /\ \A v \in lateVerdicts : v.job \in HandedOut /\ v.verdict \in Verdicts
      /\ orphans \subseteq HandedOut /\ \A w \in lateSweeps : w.rows \subseteq HandedOut
  BY MaxJobsAssumption
     DEF Base, TypeOK, WorkerHoldsJob, HandedOut, LateHandedOut, Rows, SweepsHandedOut, None, Jobs
<1>c. StepMatchesKind
  BY DEF Complete
<1> DEFINE Agreed == VerdictPending' /\ LateVerdictsAgree'
           Written == DoneIsWritten' /\ DoneEventMeansDone'
<1> SUFFICES Agreed /\ SweepsApart' /\ Written /\ AudioKept' /\ VerdictConsistent'
  BY DEF InTime
<1> USE <1>a, <1>b, <1>c
    DEF Prompt, Busy, InTime, StepMatchesKind, Swept, VerdictPending, LateVerdictsAgree,
        SweepsApart, DoneIsWritten, DoneEventMeansDone, AudioKept, Analyzing, VerdictConsistent,
        queue, jobVars, effects, worker, sweep, late, Idle, Dropped, Goto, Fault,
        LeaveResult, LeaveVerdict, LeaveCall, LeaveSweep, LeaveRequest
<1>1. ASSUME NEW t \in Tracks, UploadCached(t) PROVE Agreed /\ SweepsApart' /\ Written /\ AudioKept' /\ VerdictConsistent'
  <2>1. Agreed
    BY <1>1 DEF UploadCached
  <2>2. SweepsApart'
    BY <1>1 DEF UploadCached
  <2>3. Written
    BY <1>1 DEF UploadCached
  <2>4. AudioKept'
    BY <1>1 DEF UploadCached
  <2>5. VerdictConsistent'
    BY <1>1 DEF UploadCached
  <2> QED
    BY <2>1, <2>2, <2>3, <2>4, <2>5
<1>2. ASSUME NEW t \in Tracks, UploadEnqueued(t) PROVE Agreed /\ SweepsApart' /\ Written /\ AudioKept' /\ VerdictConsistent'
  <2>a. PICK j \in Jobs : NewJob(j, "analyze", t, j) /\ files' = files \cup {j}
    BY <1>2 DEF UploadEnqueued
  <2>b. /\ j \notin HandedOut /\ status[j] = "absent" /\ status'[j] = "pending"
        /\ \A i \in Jobs : i # j => /\ status'[i] = status[i]
                                    /\ kind'[i] = kind[i] /\ source'[i] = source[i]
        /\ kind'[j] = "analyze"
    <3>1. /\ j \notin HandedOut /\ status[j] = "absent" /\ status'[j] = "pending"
          /\ \A i \in Jobs : i # j => status'[i] = status[i]
          /\ kind' = [kind EXCEPT ![j] = "analyze"]
          /\ source' = [source EXCEPT ![j] = j]
      BY <2>a, NewJobFacts DEF Kinds
    <3> QED
      BY <3>1 DEF Base, TypeOK
  <2>1. Agreed
    BY <1>2, <2>a, <2>b DEF UploadEnqueued, Verdicts
  <2>2. SweepsApart'
    BY <1>2, <2>a, <2>b DEF UploadEnqueued, Verdicts
  <2>3. Written
    BY <1>2, <2>a, <2>b DEF UploadEnqueued, Verdicts
  <2>4. AudioKept'
    BY <1>2, <2>a, <2>b DEF UploadEnqueued, Verdicts
  <2>5. VerdictConsistent'
    BY <1>2, <2>a, <2>b DEF UploadEnqueued, Verdicts
  <2> QED
    BY <2>1, <2>2, <2>3, <2>4, <2>5
<1>3. ASSUME NEW t \in Tracks, TagRequest(t) PROVE Agreed /\ SweepsApart' /\ Written /\ AudioKept' /\ VerdictConsistent'
  <2>a. PICK j \in Jobs, s \in Uploads(t) \cup {None} : NewJob(j, "tag", t, s)
    BY <1>3 DEF TagRequest
  <2>b. /\ j \notin HandedOut /\ status[j] = "absent" /\ status'[j] = "pending"
        /\ \A i \in Jobs : i # j => /\ status'[i] = status[i]
                                    /\ kind'[i] = kind[i] /\ source'[i] = source[i]
        /\ kind'[j] = "tag"
    <3>1. /\ j \notin HandedOut /\ status[j] = "absent" /\ status'[j] = "pending"
          /\ \A i \in Jobs : i # j => status'[i] = status[i]
          /\ kind' = [kind EXCEPT ![j] = "tag"]
          /\ source' = [source EXCEPT ![j] = s]
      BY <2>a, NewJobFacts DEF Kinds, Uploads
    <3> QED
      BY <3>1 DEF Base, TypeOK
  <2>1. Agreed
    BY <1>3, <2>b DEF TagRequest, Verdicts
  <2>2. SweepsApart'
    BY <1>3, <2>b DEF TagRequest, Verdicts
  <2>3. Written
    BY <1>3, <2>b DEF TagRequest, Verdicts
  <2>4. AudioKept'
    BY <1>3, <2>b DEF TagRequest, Verdicts
  <2>5. VerdictConsistent'
    BY <1>3, <2>b DEF TagRequest, Verdicts
  <2> QED
    BY <2>1, <2>2, <2>3, <2>4, <2>5
<1>4. CASE ClipRequest
  <2>a. PICK j \in Jobs : NewJob(j, "loop", NoTrack, j)
    BY <1>4 DEF ClipRequest
  <2>b. /\ j \notin HandedOut /\ status[j] = "absent" /\ status'[j] = "pending"
        /\ \A i \in Jobs : i # j => /\ status'[i] = status[i]
                                    /\ kind'[i] = kind[i] /\ source'[i] = source[i]
        /\ kind'[j] = "loop"
    <3>1. /\ j \notin HandedOut /\ status[j] = "absent" /\ status'[j] = "pending"
          /\ \A i \in Jobs : i # j => status'[i] = status[i]
          /\ kind' = [kind EXCEPT ![j] = "loop"]
          /\ source' = [source EXCEPT ![j] = j]
      BY <2>a, NewJobFacts DEF Kinds
    <3> QED
      BY <3>1 DEF Base, TypeOK
  <2>1. Agreed
    BY <1>4, <2>b DEF ClipRequest, Verdicts
  <2>2. SweepsApart'
    BY <1>4, <2>b DEF ClipRequest, Verdicts
  <2>3. Written
    BY <1>4, <2>b DEF ClipRequest, Verdicts
  <2>4. AudioKept'
    BY <1>4, <2>b DEF ClipRequest, Verdicts
  <2>5. VerdictConsistent'
    BY <1>4, <2>b DEF ClipRequest, Verdicts
  <2> QED
    BY <2>1, <2>2, <2>3, <2>4, <2>5
<1>5. ASSUME NEW j \in Jobs, ClipDropped(j) PROVE Agreed /\ SweepsApart' /\ Written /\ AudioKept' /\ VerdictConsistent'
  <2>1. Agreed
    BY <1>5 DEF ClipDropped
  <2>2. SweepsApart'
    BY <1>5 DEF ClipDropped
  <2>3. Written
    BY <1>5 DEF ClipDropped
  <2>4. AudioKept'
    BY <1>5 DEF ClipDropped
  <2>5. VerdictConsistent'
    BY <1>5 DEF ClipDropped
  <2> QED
    BY <2>1, <2>2, <2>3, <2>4, <2>5
<1>6. CASE SweepSelect
  <2>1. CASE Idle /\ UNCHANGED <<told, waiting>>
    BY <1>6, <2>1 DEF SweepSelect
  <2>2. ASSUME NEW j \in InProgress, TellOrphans({j}), orphans' = InProgress, pc' = "sweep"
        PROVE  Agreed /\ SweepsApart' /\ Written /\ AudioKept' /\ VerdictConsistent'
    <3>a. /\ \A i \in Jobs : i # j => told'[i] = told[i]
          /\ told'[j] = told[j] \cup {"failed"}
          /\ j \in Jobs /\ status[j] = "in_progress"
      BY <2>2, SelectFacts
    <3>b. kind[j] = "analyze" => "done" \notin told'[j]
      BY <3>a
    <3>1. Agreed
      BY <1>6, <2>2, <3>a, <3>b DEF SweepSelect, Verdicts
    <3>2. SweepsApart'
      BY <1>6, <2>2, <3>a, <3>b DEF SweepSelect, InProgress, Verdicts
    <3>3. Written
      BY <1>6, <2>2, <3>a, <3>b DEF SweepSelect
    <3>4. AudioKept'
      BY <1>6, <2>2, <3>a DEF SweepSelect
    <3>5. VerdictConsistent'
      <4>1. "done" \in Verdicts
        BY DEF Verdicts
      <4> QED
        BY <1>6, <3>a, <3>b, <4>1 DEF SweepSelect
    <3> QED
      BY <3>1, <3>2, <3>3, <3>4, <3>5
  <2> QED
    BY <1>6, <2>1, <2>2 DEF SweepSelect
<1>7. CASE SweepCommit
  <2>a. orphans \in SUBSET HandedOut /\ untold \in SUBSET orphans /\ \A j \in orphans : Swept(j)
    BY <1>7, SweepSets
  <2>b. SweepRows(orphans, untold) /\ UNCHANGED <<kind, source, lateVerdicts>>
    BY <1>7 DEF SweepCommit
  <2>c. /\ \A j \in Jobs : kind[j] = "analyze" =>
             /\ told'[j] # Verdicts
             /\ "done" \in told'[j] => status'[j] = "done" /\ ~Swept(j)
             /\ status'[j] = "pending" => status[j] = "pending" /\ (j \in files => j \in files')
             /\ Busy /\ j = cur /\ j \in files => j \in files'
        /\ \A v \in lateVerdicts : kind[v.job] = "analyze" =>
             /\ told'[v.job] \subseteq {v.verdict}
             /\ v.verdict = "done" => status'[v.job] = status[v.job]
        /\ Busy => told'[cur] = told[cur] /\ status'[cur] = status[cur]
    BY <1>a, <2>a, <2>b, SweepsInTime
  <2>1. Agreed
    BY <1>7, <2>b, <2>c DEF SweepCommit
  <2>2. SweepsApart'
    BY <1>7, <2>b, <2>c DEF SweepCommit
  <2>3. Written
    BY <1>7, <2>b, <2>c DEF SweepCommit
  <2>4. AudioKept'
    BY <1>7, <2>b, <2>c DEF SweepCommit
  <2>5. VerdictConsistent'
    BY <1>7, <2>b, <2>c DEF SweepCommit
  <2> QED
    BY <2>1, <2>2, <2>3, <2>4, <2>5
<1>8. CASE Take
  <2>a. PICK j \in Jobs : Claim(j) /\ cur' = j /\ pc' = FirstStep(j)
    BY <1>8 DEF Take
  <2>b. /\ \A i \in Jobs : i # j => status'[i] = status[i]
        /\ j \notin HandedOut /\ status[j] = "pending" /\ status'[j] = "in_progress"
    BY <2>a, ClaimFacts
  <2>c. pc' \in {"fail", "announce", "tag", "loop"}
    BY <2>a, FirstStepFacts
  <2>d. \A i \in Jobs : Swept(i) => source[i] \in HandedOut \cup {None}
    BY SweptSources
  <2>1. Agreed
    BY <1>8, <2>a, <2>b, <2>c DEF Take
  <2>2. SweepsApart'
    BY <1>8, <2>a, <2>b, <2>c, <2>d DEF Take
  <2>3. Written
    BY <1>8, <2>a, <2>b, <2>c DEF Take
  <2>4. AudioKept'
    BY <1>8, <2>a, <2>b, <2>c DEF Take
  <2>5. VerdictConsistent'
    BY <1>8 DEF Take
  <2> QED
    BY <2>1, <2>2, <2>3, <2>4, <2>5
<1>9. CASE Announce
  <2>1. Agreed
    BY <1>9 DEF Announce
  <2>2. SweepsApart'
    BY <1>9 DEF Announce
  <2>3. Written
    BY <1>9 DEF Announce
  <2>4. AudioKept'
    BY <1>9 DEF Announce
  <2>5. VerdictConsistent'
    BY <1>9 DEF Announce
  <2> QED
    BY <2>1, <2>2, <2>3, <2>4, <2>5
<1>10. CASE Compute
  <2>1. Agreed
    BY <1>10 DEF Compute
  <2>2. SweepsApart'
    BY <1>10 DEF Compute
  <2>3. Written
    BY <1>10 DEF Compute
  <2>4. AudioKept'
    BY <1>10 DEF Compute
  <2>5. VerdictConsistent'
    BY <1>10 DEF Compute
  <2> QED
    BY <2>1, <2>2, <2>3, <2>4, <2>5
<1>11. CASE Report
  <2>a. /\ \A i \in Jobs : i # cur => status'[i] = status[i]
        /\ status'[cur] = IF kind[cur] = "tag" \/ stage = NStages - 1 THEN "done" ELSE status[cur]
    BY <1>11, StoreFacts DEF Report, Base, TypeOK, LateHandedOut
  <2>1. Agreed
    BY <1>11, <2>a DEF Report
  <2>2. SweepsApart'
    BY <1>11, <2>a DEF Report
  <2>3. Written
    BY <1>11, <2>a DEF Report
  <2>4. AudioKept'
    BY <1>11, <2>a DEF Report
  <2>5. VerdictConsistent'
    BY <1>11, <2>a DEF Report
  <2> QED
    BY <2>1, <2>2, <2>3, <2>4, <2>5
<1>12. CASE Notify
  <2>a. /\ cur \in Jobs /\ UNCHANGED <<kind, source, status>>
        /\ \A i \in Jobs : told'[i] = IF i = cur THEN told[i] \cup {"done"} ELSE told[i]
    BY <1>12 DEF Notify, Tell
  <2>b. kind[cur] = "analyze" => told'[cur] = {"done"}
    BY <1>12, <2>a DEF Notify
  <2>1. Agreed
    BY <1>12 DEF Notify, Tell
  <2>2. SweepsApart'
    BY <1>12 DEF Notify, Tell
  <2>3. Written
    BY <1>12 DEF Notify, Tell
  <2>4. AudioKept'
    BY <1>12 DEF Notify, Tell
  <2>5. VerdictConsistent'
    <3>1. ASSUME NEW i \in Jobs, kind[i] = "analyze" PROVE told'[i] # Verdicts
      <4>1. CASE i = cur
        BY <2>b, <3>1, <4>1 DEF Verdicts
      <4>2. CASE i # cur
        BY <2>a, <3>1, <4>2
      <4> QED
        BY <4>1, <4>2
    <3> QED
      BY <2>a, <3>1
  <2> QED
    BY <2>1, <2>2, <2>3, <2>4, <2>5
<1>13. CASE Cleanup
  <2>1. Agreed
    BY <1>13 DEF Cleanup
  <2>2. SweepsApart'
    BY <1>13 DEF Cleanup
  <2>3. Written
    BY <1>13 DEF Cleanup
  <2>4. AudioKept'
    BY <1>13 DEF Cleanup
  <2>5. VerdictConsistent'
    BY <1>13 DEF Cleanup
  <2> QED
    BY <2>1, <2>2, <2>3, <2>4, <2>5
<1>14. CASE Fail
  <2>a. /\ cur \in Jobs /\ UNCHANGED <<kind, source, status>>
        /\ \A i \in Jobs : told'[i] = IF i = cur THEN told[i] \cup {"failed"} ELSE told[i]
    BY <1>14 DEF Fail, Tell
  <2>b. kind[cur] = "analyze" => told'[cur] = {"failed"}
    BY <1>14, <2>a DEF Fail
  <2>1. Agreed
    BY <1>14 DEF Fail, Tell
  <2>2. SweepsApart'
    BY <1>14 DEF Fail, Tell
  <2>3. Written
    BY <1>14 DEF Fail, Tell
  <2>4. AudioKept'
    BY <1>14 DEF Fail, Tell
  <2>5. VerdictConsistent'
    <3>1. ASSUME NEW i \in Jobs, kind[i] = "analyze" PROVE told'[i] # Verdicts
      <4>1. CASE i = cur
        BY <2>b, <3>1, <4>1 DEF Verdicts
      <4>2. CASE i # cur
        BY <2>a, <3>1, <4>2
      <4> QED
        BY <4>1, <4>2
    <3> QED
      BY <2>a, <3>1
  <2> QED
    BY <2>1, <2>2, <2>3, <2>4, <2>5
<1>15. CASE TagBlank
  <2>a. /\ \A i \in Jobs : i # cur => status'[i] = status[i]
        /\ status'[cur] = IF kind[cur] = "tag" \/ stage = NStages - 1 THEN "done" ELSE status[cur]
    BY <1>15, StoreFacts DEF TagBlank, Base, TypeOK, LateHandedOut
  <2>1. Agreed
    BY <1>15, <2>a DEF TagBlank
  <2>2. SweepsApart'
    BY <1>15, <2>a DEF TagBlank
  <2>3. Written
    BY <1>15, <2>a DEF TagBlank
  <2>4. AudioKept'
    BY <1>15, <2>a DEF TagBlank
  <2>5. VerdictConsistent'
    BY <1>15, <2>a DEF TagBlank
  <2> QED
    BY <2>1, <2>2, <2>3, <2>4, <2>5
<1>16. CASE TagCompute
  <2>1. Agreed
    BY <1>16 DEF TagCompute
  <2>2. SweepsApart'
    BY <1>16 DEF TagCompute
  <2>3. Written
    BY <1>16 DEF TagCompute
  <2>4. AudioKept'
    BY <1>16 DEF TagCompute
  <2>5. VerdictConsistent'
    BY <1>16 DEF TagCompute
  <2> QED
    BY <2>1, <2>2, <2>3, <2>4, <2>5
<1>17. CASE TagReport
  <2>a. /\ \A i \in Jobs : i # cur => status'[i] = status[i]
        /\ status'[cur] = IF kind[cur] = "tag" \/ stage = NStages - 1 THEN "done" ELSE status[cur]
    BY <1>17, StoreFacts DEF TagReport, Base, TypeOK, LateHandedOut
  <2>1. Agreed
    BY <1>17, <2>a DEF TagReport
  <2>2. SweepsApart'
    BY <1>17, <2>a DEF TagReport
  <2>3. Written
    BY <1>17, <2>a DEF TagReport
  <2>4. AudioKept'
    BY <1>17, <2>a DEF TagReport
  <2>5. VerdictConsistent'
    BY <1>17, <2>a DEF TagReport
  <2> QED
    BY <2>1, <2>2, <2>3, <2>4, <2>5
<1>18. CASE LoopRun
  <2>1. Agreed
    BY <1>18 DEF LoopRun
  <2>2. SweepsApart'
    BY <1>18 DEF LoopRun
  <2>3. Written
    BY <1>18 DEF LoopRun
  <2>4. AudioKept'
    BY <1>18 DEF LoopRun
  <2>5. VerdictConsistent'
    BY <1>18 DEF LoopRun
  <2> QED
    BY <2>1, <2>2, <2>3, <2>4, <2>5
<1>19. CASE Abandon
  <2>1. Agreed
    BY <1>19 DEF Abandon
  <2>2. SweepsApart'
    BY <1>19 DEF Abandon
  <2>3. Written
    BY <1>19 DEF Abandon
  <2>4. AudioKept'
    BY <1>19 DEF Abandon
  <2>5. VerdictConsistent'
    BY <1>19 DEF Abandon
  <2> QED
    BY <2>1, <2>2, <2>3, <2>4, <2>5
<1>20. CASE TakeLost
  <2>a. \A i \in Jobs : /\ status[i] = "done" => status'[i] = "done"
                        /\ status'[i] = "pending" => status[i] = "pending"
    BY <1>20, ClaimFacts DEF TakeLost
  <2>1. Agreed
    BY <1>20, <2>a DEF TakeLost
  <2>2. SweepsApart'
    BY <1>20, <2>a DEF TakeLost
  <2>3. Written
    BY <1>20, <2>a DEF TakeLost
  <2>4. AudioKept'
    BY <1>20, <2>a DEF TakeLost
  <2>5. VerdictConsistent'
    BY <1>20, <2>a DEF TakeLost
  <2> QED
    BY <2>1, <2>2, <2>3, <2>4, <2>5
<1>21. CASE ReportRejected
  <2>1. Agreed
    BY <1>21 DEF ReportRejected
  <2>2. SweepsApart'
    BY <1>21 DEF ReportRejected
  <2>3. Written
    BY <1>21 DEF ReportRejected
  <2>4. AudioKept'
    BY <1>21 DEF ReportRejected
  <2>5. VerdictConsistent'
    BY <1>21 DEF ReportRejected
  <2> QED
    BY <2>1, <2>2, <2>3, <2>4, <2>5
<1>22. CASE TagRejected
  <2>1. Agreed
    BY <1>22 DEF TagRejected
  <2>2. SweepsApart'
    BY <1>22 DEF TagRejected
  <2>3. Written
    BY <1>22 DEF TagRejected
  <2>4. AudioKept'
    BY <1>22 DEF TagRejected
  <2>5. VerdictConsistent'
    BY <1>22 DEF TagRejected
  <2> QED
    BY <2>1, <2>2, <2>3, <2>4, <2>5
<1>23. CASE SweepUnanswered
  <2>a. ~Busy /\ pc' \in {"boot", "poll"} /\ cur' = None /\ UNCHANGED <<kind, source>>
    BY <1>23 DEF SweepUnanswered
  <2>b. UNCHANGED lateVerdicts /\ (\A j \in Jobs : Swept(j)' => Swept(j))
    BY <1>23 DEF SweepUnanswered
  <2>1. CASE UNCHANGED <<queue, effects>>
    BY <2>a, <2>b, <2>1
  <2>2. CASE SweepRows(orphans, untold)
    <3>a. orphans \in SUBSET HandedOut /\ untold \in SUBSET orphans /\ \A j \in orphans : Swept(j)
      BY SweepSets
    <3>b. /\ \A j \in Jobs : kind[j] = "analyze" =>
               /\ told'[j] # Verdicts
               /\ "done" \in told'[j] => status'[j] = "done" /\ ~Swept(j)
               /\ status'[j] = "pending" => status[j] = "pending" /\ (j \in files => j \in files')
          /\ \A v \in lateVerdicts : kind[v.job] = "analyze" =>
               /\ told'[v.job] \subseteq {v.verdict}
               /\ v.verdict = "done" => status'[v.job] = status[v.job]
      BY <1>a, <2>2, <3>a, SweepsInTime
    <3>1. Agreed
      BY <2>a, <2>b, <3>b
    <3>2. SweepsApart'
      BY <2>a, <2>b, <3>b
    <3>3. Written
      BY <2>a, <2>b, <3>b
    <3>4. AudioKept'
      BY <2>a, <2>b, <3>b
    <3>5. VerdictConsistent'
      BY <2>a, <2>b, <3>b
    <3> QED
      BY <3>1, <3>2, <3>3, <3>4, <3>5
  <2> QED
    BY <1>23, <2>1, <2>2 DEF SweepUnanswered
<1>24. CASE SweepRejected
  <2>1. Agreed
    BY <1>24 DEF SweepRejected
  <2>2. SweepsApart'
    BY <1>24 DEF SweepRejected
  <2>3. Written
    BY <1>24 DEF SweepRejected
  <2>4. AudioKept'
    BY <1>24 DEF SweepRejected
  <2>5. VerdictConsistent'
    BY <1>24 DEF SweepRejected
  <2> QED
    BY <2>1, <2>2, <2>3, <2>4, <2>5
<1>25. CASE Crash
  <2>1. Agreed
    BY <1>25 DEF Crash
  <2>2. SweepsApart'
    BY <1>25 DEF Crash
  <2>3. Written
    BY <1>25 DEF Crash
  <2>4. AudioKept'
    BY <1>25 DEF Crash
  <2>5. VerdictConsistent'
    BY <1>25 DEF Crash
  <2> QED
    BY <2>1, <2>2, <2>3, <2>4, <2>5
<1>26. ASSUME NEW r \in lateResults, LateResult(r) PROVE Agreed /\ SweepsApart' /\ Written /\ AudioKept' /\ VerdictConsistent'
  <2>a. /\ \A i \in Jobs : i # r.job => status'[i] = status[i]
        /\ status'[r.job] = IF kind[r.job] = "tag" \/ r.stage = NStages - 1 THEN "done" ELSE status[r.job]
    BY <1>26, StoreFacts DEF LateResult, Base, TypeOK, LateHandedOut
  <2>1. Agreed
    BY <1>26, <2>a DEF LateResult
  <2>2. SweepsApart'
    BY <1>26, <2>a DEF LateResult
  <2>3. Written
    BY <1>26, <2>a DEF LateResult
  <2>4. AudioKept'
    BY <1>26, <2>a DEF LateResult
  <2>5. VerdictConsistent'
    BY <1>26, <2>a DEF LateResult
  <2> QED
    BY <2>1, <2>2, <2>3, <2>4, <2>5
<1>27. ASSUME NEW v \in lateVerdicts, LateVerdict(v) PROVE Agreed /\ SweepsApart' /\ Written /\ AudioKept' /\ VerdictConsistent'
  <2>a. /\ v.job \in Jobs /\ UNCHANGED <<kind, source, status>>
        /\ \A i \in Jobs : told'[i] = IF i = v.job THEN told[i] \cup {v.verdict} ELSE told[i]
    BY <1>27 DEF LateVerdict, Tell
  <2>b. kind[v.job] = "analyze" => told'[v.job] = {v.verdict}
    BY <1>27, <2>a DEF LateVerdict
  <2>1. Agreed
    BY <1>27 DEF LateVerdict, Tell
  <2>2. SweepsApart'
    BY <1>27 DEF LateVerdict, Tell
  <2>3. Written
    BY <1>27 DEF LateVerdict, Tell
  <2>4. AudioKept'
    BY <1>27 DEF LateVerdict, Tell
  <2>5. VerdictConsistent'
    <3>1. ASSUME NEW i \in Jobs, kind[i] = "analyze" PROVE told'[i] # Verdicts
      <4>1. CASE i = v.job
        BY <2>b, <3>1, <4>1 DEF Verdicts
      <4>2. CASE i # v.job
        BY <2>a, <3>1, <4>2
      <4> QED
        BY <4>1, <4>2
    <3> QED
      BY <2>a, <3>1
  <2> QED
    BY <2>1, <2>2, <2>3, <2>4, <2>5
<1>28. CASE LateClaim
  BY <1>28 DEF LateClaim, Begun
<1>29. CASE LateSelect
  BY <1>29 DEF LateSelect, Begun
<1>30. ASSUME NEW w \in lateSweeps, LateSweep(w) PROVE Agreed /\ SweepsApart' /\ Written /\ AudioKept' /\ VerdictConsistent'
  <2>a. w.rows \in SUBSET HandedOut /\ w.untold \in SUBSET w.rows /\ \A j \in w.rows : Swept(j)
    BY <1>30, SweepSets
  <2>b. SweepRows(w.rows, w.untold) /\ UNCHANGED <<kind, source, lateVerdicts>>
    BY <1>30 DEF LateSweep
  <2>c. /\ \A j \in Jobs : kind[j] = "analyze" =>
             /\ told'[j] # Verdicts
             /\ "done" \in told'[j] => status'[j] = "done" /\ ~Swept(j)
             /\ status'[j] = "pending" => status[j] = "pending" /\ (j \in files => j \in files')
             /\ Busy /\ j = cur /\ j \in files => j \in files'
        /\ \A v \in lateVerdicts : kind[v.job] = "analyze" =>
             /\ told'[v.job] \subseteq {v.verdict}
             /\ v.verdict = "done" => status'[v.job] = status[v.job]
        /\ Busy => told'[cur] = told[cur] /\ status'[cur] = status[cur]
    BY <1>a, <2>a, <2>b, SweepsInTime
  <2>1. Agreed
    BY <1>30, <2>b, <2>c DEF LateSweep
  <2>2. SweepsApart'
    BY <1>30, <2>b, <2>c DEF LateSweep
  <2>3. Written
    BY <1>30, <2>b, <2>c DEF LateSweep
  <2>4. AudioKept'
    BY <1>30, <2>b, <2>c DEF LateSweep
  <2>5. VerdictConsistent'
    BY <1>30, <2>b, <2>c DEF LateSweep
  <2> QED
    BY <2>1, <2>2, <2>3, <2>4, <2>5
<1>31. CASE UNCHANGED vars
  BY <1>31 DEF vars
<1> QED
  BY <1>1, <1>2, <1>3, <1>4, <1>5, <1>6, <1>7, <1>8, <1>9, <1>10, <1>11,
  <1>12, <1>13, <1>14, <1>15, <1>16, <1>17, <1>18, <1>19, <1>20, <1>21,
  <1>22, <1>23, <1>24, <1>25, <1>26, <1>27, <1>28, <1>29, <1>30, <1>31
     DEF Next, Player, WorkerStep, Misfortune

-------------------------------------------------------------------------------
\* The layers hold in every reachable state, faults and all.
LEMMA Invariance == Spec => []Base /\ []Complete /\ []Punctual
<1>1. Init => Base /\ Complete /\ Punctual
  BY InitBase, InitComplete, InitPunctual
<1>2. Base /\ [Next]_vars => Base'
  BY NextBase
<1>3. Base /\ Complete /\ [Next]_vars => Complete'
  BY NextComplete
<1>4. Base /\ Punctual /\ Complete /\ [Next]_vars => Punctual'
  BY NextPunctual
<1> QED
  BY <1>1, <1>2, <1>3, <1>4, PTL DEF Spec

\* The state keeps its types: the worker never acts on a job it was not given.
THEOREM TypeCorrect == Spec => []TypeOK
<1>1. Base => TypeOK
  BY DEF Base
<1> QED
  BY <1>1, Invariance, PTL

\* A closed analysis has the results of all its stages (raise_for_status and the
\* order of the stages in process_job).
THEOREM DoneIsComplete == Spec => []DoneMeansComplete
<1>1. Complete => DoneMeansComplete
  BY DEF Complete
<1> QED
  BY <1>1, Invariance, PTL

\* The cache test of POST /v1/analyze is right about the stages.
THEOREM CacheIsEarned == Spec => []CachedMeansAnalyzed
<1>1. Complete => CachedMeansAnalyzed
  BY DEF Complete
<1> QED
  BY <1>1, Invariance, PTL

\* track_done of an analysis is published for closed rows only, and no sweep that is
\* between its SELECT and its UPDATEs, not even one whose sender has given up, turns
\* such a row to failed, unless some claim or sweep began late.
THEOREM DoneEventIsTrue == Spec => []DoneEventMeansDone
<1>1. Punctual => DoneEventMeansDone
  BY DEF Punctual, InTime, DoneEventMeansDone
<1> QED
  BY <1>1, Invariance, PTL

\* No upload is deleted before its analysis has run.
THEOREM AudioIsKept == Spec => []AudioKept
<1>1. Punctual => AudioKept
  BY DEF Punctual, InTime, AudioKept
<1> QED
  BY <1>1, Invariance, PTL

\* No analysis is announced both done and failed.
THEOREM VerdictsAgree == Spec => []VerdictConsistent
<1>1. Punctual => VerdictConsistent
  BY DEF Punctual, InTime, VerdictConsistent
<1> QED
  BY <1>1, Invariance, PTL

-------------------------------------------------------------------------------
\* Who still owes the Player an answer.

\* What makes a request late is a fault, and for a claim or a sweep to begin late
\* it takes a full pool.
LateByFault ==
  /\ faults = 0 => lateResults = {} /\ lateVerdicts = {} /\ lateSweeps = {} /\ lateCalls = {}
  /\ "late_call" \notin Faults => lateCalls = {}

\* A row is closed as failed only after its event: a sweep publishes before it
\* updates (sweep_orphans).
FailedIsAnnounced == \A j \in Jobs : status[j] = "failed" => "failed" \in told[j]

\* Of the rows a sweep has selected, those it has no event left to publish for.
SweptAreTold ==
  /\ \A j \in orphans \ untold : "failed" \in told[j]
  /\ \A w \in lateSweeps : \A j \in w.rows \ w.untold : "failed" \in told[j]

Announced == FailedIsAnnounced /\ SweptAreTold
Accounted == LateByFault /\ Announced /\ WaitHasCause /\ CrashLosesNoJob

\* Nobody has asked for anything yet.
LEMMA InitAccounted == Init => Accounted
BY DEF Init, QueueInit, Accounted, LateByFault, Announced, FailedIsAnnounced, SweptAreTold,
       WaitHasCause, CrashLosesNoJob, HandedOut

\* What the UPDATEs of a sweep leave: all rows it closes are announced.
LEMMA SweepsAnnounce ==
  ASSUME Base, Accounted, NEW S \in SUBSET HandedOut, NEW U \in SUBSET S,
         SweepRows(S, U), \A j \in S \ U : "failed" \in told[j]
  PROVE  /\ FailedIsAnnounced' /\ HandedOut' = HandedOut
         /\ \A j \in Jobs : told[j] \subseteq told'[j]
         /\ \A j \in S : told'[j] # {}
         /\ \A j \in Jobs : status[j] = "pending" => status'[j] = "pending"
         /\ \A j \in Jobs : j \notin S => status'[j] = status[j]
         /\ waiting' \subseteq waiting
<1>1. /\ \A j \in Jobs : status'[j] = IF j \in S THEN "failed" ELSE status[j]
      /\ \A j \in Jobs : told'[j] = IF j \in U THEN told[j] \cup {"failed"} ELSE told[j]
      /\ waiting' = waiting \ {track[j] : j \in U} /\ HandedOut' = HandedOut
  BY SweepFacts
<1>2. \A j \in S : j \in Jobs /\ status[j] # "pending"
  BY DEF HandedOut
<1>3. \A j \in S : "failed" \in told'[j]
  BY <1>1, <1>2
<1>4. FailedIsAnnounced'
  BY <1>1, <1>3 DEF Accounted, Announced, FailedIsAnnounced
<1> QED
  BY <1>1, <1>2, <1>3, <1>4

\* No step leaves a wait without its cause, or a job without its heir.
LEMMA NextAccounted == Base /\ Complete /\ Accounted /\ [Next]_vars => Accounted'
<1> SUFFICES ASSUME Base, Complete, Accounted, [Next]_vars PROVE Accounted'
  OBVIOUS
<1>a. /\ Busy => cur \in HandedOut
      /\ ~Busy => cur = None
      /\ pc # "sweep" => orphans = {} /\ untold = {}
      /\ HandedOut = {j \in Jobs : status[j] \notin {"absent", "pending"}}
      /\ status \in [Jobs -> Status] /\ faults \in Nat
      /\ told \in [Jobs -> SUBSET Verdicts] /\ None \notin Jobs
      /\ \A j \in Jobs : j \notin HandedOut => told[j] = {}
      /\ \A j \in Jobs : status[j] = "absent" => track[j] = NoTrack
      /\ \A v \in lateVerdicts : v.job \in HandedOut
      /\ \A r \in lateResults : r.job \in HandedOut /\ r.stage \in Stages
      /\ orphans \subseteq HandedOut /\ untold \subseteq orphans
      /\ \A w \in lateSweeps : w.rows \subseteq HandedOut /\ w.untold \subseteq w.rows
      /\ stage \in Stages /\ NoTrack \notin Tracks
  BY MaxJobsAssumption, LifecycleAssumption
     DEF Base, TypeOK, QueueTypeOK, WorkerHoldsJob, HandedOut, LateHandedOut, Rows,
         SweepsHandedOut, None, Jobs
<1>b. StepMatchesKind
  BY DEF Complete
<1>c. UNCHANGED queue => HandedOut' = HandedOut
  BY QueueSame
<1> USE <1>a, <1>b, <1>c
    DEF Busy, StepMatchesKind, Status, Uploads, Accounted, Working, LateByFault, Announced,
        FailedIsAnnounced, SweptAreTold, WaitHasCause, CrashLosesNoJob,
        queue, jobVars, effects, worker, sweep, late, Idle, Dropped, Goto, Fault,
        LeaveResult, LeaveVerdict, LeaveCall, LeaveSweep, LeaveRequest
<1>1. ASSUME NEW t \in Tracks, UploadCached(t) PROVE Accounted'
  <2>1. LateByFault'
    BY <1>1 DEF UploadCached
  <2>2. Announced'
    BY <1>1 DEF UploadCached
  <2>3. WaitHasCause'
    BY <1>1 DEF UploadCached
  <2>4. CrashLosesNoJob'
    BY <1>1 DEF UploadCached
  <2> QED
    BY <2>1, <2>2, <2>3, <2>4
<1>2. ASSUME NEW t \in Tracks, UploadEnqueued(t) PROVE Accounted'
  <2>a. PICK j \in Jobs : NewJob(j, "analyze", t, j)
    BY <1>2 DEF UploadEnqueued
  <2>b. /\ j \notin HandedOut /\ status[j] = "absent" /\ status'[j] = "pending"
        /\ \A i \in Jobs : i # j => /\ status'[i] = status[i]
                                    /\ kind'[i] = kind[i] /\ track'[i] = track[i]
        /\ kind'[j] = "analyze" /\ track'[j] = t /\ HandedOut' = HandedOut
    <3>1. /\ j \notin HandedOut /\ status[j] = "absent" /\ status'[j] = "pending"
          /\ \A i \in Jobs : i # j => status'[i] = status[i]
          /\ kind' = [kind EXCEPT ![j] = "analyze"] /\ track' = [track EXCEPT ![j] = t]
          /\ HandedOut' = HandedOut
      BY <2>a, NewJobFacts DEF Kinds
    <3> QED
      BY <3>1 DEF Base, TypeOK
  <2>1. LateByFault'
    BY <1>2, <2>b DEF UploadEnqueued
  <2>2. Announced'
    BY <1>2, <2>b DEF UploadEnqueued
  <2>3. WaitHasCause'
    BY <1>2, <2>b DEF UploadEnqueued
  <2>4. CrashLosesNoJob'
    BY <1>2, <2>b DEF UploadEnqueued
  <2> QED
    BY <2>1, <2>2, <2>3, <2>4
<1>3. ASSUME NEW t \in Tracks, TagRequest(t) PROVE Accounted'
  <2>a. PICK j \in Jobs, s \in Uploads(t) \cup {None} : NewJob(j, "tag", t, s)
    BY <1>3 DEF TagRequest
  <2>b. /\ j \notin HandedOut /\ status[j] = "absent" /\ status'[j] = "pending"
        /\ \A i \in Jobs : i # j => /\ status'[i] = status[i]
                                    /\ kind'[i] = kind[i] /\ track'[i] = track[i]
        /\ kind'[j] = "tag" /\ track'[j] = t /\ HandedOut' = HandedOut
    <3>1. /\ j \notin HandedOut /\ status[j] = "absent" /\ status'[j] = "pending"
          /\ \A i \in Jobs : i # j => status'[i] = status[i]
          /\ kind' = [kind EXCEPT ![j] = "tag"] /\ track' = [track EXCEPT ![j] = t]
          /\ HandedOut' = HandedOut
      BY <2>a, NewJobFacts DEF Kinds, Uploads
    <3> QED
      BY <3>1 DEF Base, TypeOK
  <2>1. LateByFault'
    BY <1>3, <2>b DEF TagRequest
  <2>2. Announced'
    BY <1>3, <2>b DEF TagRequest
  <2>3. WaitHasCause'
    BY <1>3, <2>b DEF TagRequest
  <2>4. CrashLosesNoJob'
    BY <1>3, <2>b DEF TagRequest
  <2> QED
    BY <2>1, <2>2, <2>3, <2>4
<1>4. CASE ClipRequest
  <2>a. PICK j \in Jobs : NewJob(j, "loop", NoTrack, j)
    BY <1>4 DEF ClipRequest
  <2>b. /\ j \notin HandedOut /\ status[j] = "absent" /\ status'[j] = "pending"
        /\ \A i \in Jobs : i # j => /\ status'[i] = status[i]
                                    /\ kind'[i] = kind[i] /\ track'[i] = track[i]
        /\ kind'[j] = "loop" /\ track'[j] = NoTrack /\ HandedOut' = HandedOut
    <3>1. /\ j \notin HandedOut /\ status[j] = "absent" /\ status'[j] = "pending"
          /\ \A i \in Jobs : i # j => status'[i] = status[i]
          /\ kind' = [kind EXCEPT ![j] = "loop"] /\ track' = [track EXCEPT ![j] = NoTrack]
          /\ HandedOut' = HandedOut
      BY <2>a, NewJobFacts DEF Kinds
    <3> QED
      BY <3>1 DEF Base, TypeOK
  <2>1. LateByFault'
    BY <1>4, <2>b DEF ClipRequest
  <2>2. Announced'
    BY <1>4, <2>b DEF ClipRequest
  <2>3. WaitHasCause'
    BY <1>4, <2>b DEF ClipRequest
  <2>4. CrashLosesNoJob'
    BY <1>4, <2>b DEF ClipRequest
  <2> QED
    BY <2>1, <2>2, <2>3, <2>4
<1>5. ASSUME NEW j \in Jobs, ClipDropped(j) PROVE Accounted'
  <2>1. LateByFault'
    BY <1>5 DEF ClipDropped
  <2>2. Announced'
    BY <1>5 DEF ClipDropped
  <2>3. WaitHasCause'
    BY <1>5 DEF ClipDropped
  <2>4. CrashLosesNoJob'
    BY <1>5 DEF ClipDropped
  <2> QED
    BY <2>1, <2>2, <2>3, <2>4
<1>6. CASE SweepSelect
  <2>1. CASE InProgress = {} /\ Idle /\ UNCHANGED <<told, waiting>>
    <3>1. LateByFault'
      BY <1>6, <2>1 DEF SweepSelect, InProgress, HandedOut
    <3>2. Announced'
      BY <1>6, <2>1 DEF SweepSelect, InProgress, HandedOut
    <3>3. WaitHasCause'
      BY <1>6, <2>1 DEF SweepSelect, InProgress, HandedOut
    <3>4. CrashLosesNoJob'
      BY <1>6, <2>1 DEF SweepSelect, InProgress, HandedOut
    <3> QED
      BY <3>1, <3>2, <3>3, <3>4
  <2>2. ASSUME NEW j \in InProgress, TellOrphans({j}), orphans' = InProgress,
               untold' = InProgress \ {j}, pc' = "sweep", cur' = cur
        PROVE  Accounted'
    <3>a. /\ \A i \in Jobs : i # j => told'[i] = told[i]
          /\ told'[j] = told[j] \cup {"failed"} /\ j \in Jobs
          /\ waiting' = waiting \ {track[j]}
      BY <2>2, SelectFacts
    <3>1. LateByFault'
      BY <1>6, <2>2, <3>a DEF SweepSelect, InProgress, HandedOut
    <3>2. Announced'
      BY <1>6, <2>2, <3>a DEF SweepSelect, InProgress, HandedOut
    <3>3. WaitHasCause'
      BY <1>6, <2>2, <3>a DEF SweepSelect, InProgress, HandedOut
    <3>4. CrashLosesNoJob'
      BY <1>6, <2>2, <3>a DEF SweepSelect, InProgress, HandedOut
    <3> QED
      BY <3>1, <3>2, <3>3, <3>4
  <2> QED
    BY <1>6, <2>1, <2>2 DEF SweepSelect
<1>7. CASE SweepCommit
  <2>a. orphans \in SUBSET HandedOut /\ untold \in SUBSET orphans /\ \A j \in orphans \ untold : "failed" \in told[j]
    BY <1>7, SweepSets
  <2>b. SweepRows(orphans, untold)
    BY <1>7 DEF SweepCommit
  <2>c. /\ FailedIsAnnounced' /\ HandedOut' = HandedOut
        /\ \A j \in Jobs : told[j] \subseteq told'[j]
        /\ \A j \in orphans : told'[j] # {}
        /\ \A j \in Jobs : status[j] = "pending" => status'[j] = "pending"
        /\ \A j \in Jobs : j \notin orphans => status'[j] = status[j]
        /\ waiting' \subseteq waiting
    BY <2>a, <2>b, SweepsAnnounce
  <2>1. LateByFault'
    BY <1>7, <2>c DEF SweepCommit
  <2>2. Announced'
    BY <1>7, <2>c DEF SweepCommit
  <2>3. WaitHasCause'
    BY <1>7, <2>c DEF SweepCommit
  <2>4. CrashLosesNoJob'
    BY <1>7, <2>c DEF SweepCommit
  <2> QED
    BY <2>1, <2>2, <2>3, <2>4
<1>8. CASE Take
  <2>a. PICK j \in Jobs : Claim(j) /\ cur' = j /\ pc' = FirstStep(j)
    BY <1>8 DEF Take
  <2>b. /\ \A i \in Jobs : i # j => status'[i] = status[i]
        /\ HandedOut' = HandedOut \cup {j} /\ status[j] = "pending" /\ status'[j] = "in_progress"
    BY <2>a, ClaimFacts
  <2>c. kind[j] = "analyze" => pc' \in {"announce", "fail"}
    BY <2>a, FirstStepFacts
  <2>1. LateByFault'
    BY <1>8, <2>a, <2>b, <2>c DEF Take
  <2>2. Announced'
    BY <1>8, <2>a, <2>b, <2>c DEF Take
  <2>3. WaitHasCause'
    BY <1>8, <2>a, <2>b, <2>c DEF Take
  <2>4. CrashLosesNoJob'
    BY <1>8, <2>a, <2>b, <2>c DEF Take
  <2> QED
    BY <2>1, <2>2, <2>3, <2>4
<1>9. CASE Announce
  <2>1. LateByFault'
    BY <1>9 DEF Announce
  <2>2. Announced'
    BY <1>9 DEF Announce
  <2>3. WaitHasCause'
    BY <1>9 DEF Announce
  <2>4. CrashLosesNoJob'
    BY <1>9 DEF Announce
  <2> QED
    BY <2>1, <2>2, <2>3, <2>4
<1>10. CASE Compute
  <2>1. LateByFault'
    BY <1>10 DEF Compute
  <2>2. Announced'
    BY <1>10 DEF Compute
  <2>3. WaitHasCause'
    BY <1>10 DEF Compute
  <2>4. CrashLosesNoJob'
    BY <1>10 DEF Compute
  <2> QED
    BY <2>1, <2>2, <2>3, <2>4
<1>11. CASE Report
  <2>a. /\ \A i \in Jobs : i # cur => status'[i] = status[i]
        /\ status'[cur] = IF kind[cur] = "tag" \/ stage = NStages - 1 THEN "done" ELSE status[cur]
        /\ HandedOut' = HandedOut
    BY <1>11, StoreFacts DEF Report
  <2>1. LateByFault'
    BY <1>11, <2>a DEF Report
  <2>2. Announced'
    BY <1>11, <2>a DEF Report
  <2>3. WaitHasCause'
    BY <1>11, <2>a DEF Report
  <2>4. CrashLosesNoJob'
    BY <1>11, <2>a DEF Report
  <2> QED
    BY <2>1, <2>2, <2>3, <2>4
<1>12. CASE Notify
  <2>1. LateByFault'
    BY <1>12 DEF Notify, Tell
  <2>2. Announced'
    BY <1>12 DEF Notify, Tell
  <2>3. WaitHasCause'
    BY <1>12 DEF Notify, Tell
  <2>4. CrashLosesNoJob'
    BY <1>12 DEF Notify, Tell
  <2> QED
    BY <2>1, <2>2, <2>3, <2>4
<1>13. CASE Cleanup
  <2>1. LateByFault'
    BY <1>13 DEF Cleanup
  <2>2. Announced'
    BY <1>13 DEF Cleanup
  <2>3. WaitHasCause'
    BY <1>13 DEF Cleanup
  <2>4. CrashLosesNoJob'
    BY <1>13 DEF Cleanup
  <2> QED
    BY <2>1, <2>2, <2>3, <2>4
<1>14. CASE Fail
  <2>1. LateByFault'
    BY <1>14 DEF Fail, Tell
  <2>2. Announced'
    BY <1>14 DEF Fail, Tell
  <2>3. WaitHasCause'
    BY <1>14 DEF Fail, Tell
  <2>4. CrashLosesNoJob'
    BY <1>14 DEF Fail, Tell
  <2> QED
    BY <2>1, <2>2, <2>3, <2>4
<1>15. CASE TagBlank
  <2>a. /\ \A i \in Jobs : i # cur => status'[i] = status[i]
        /\ status'[cur] = IF kind[cur] = "tag" \/ stage = NStages - 1 THEN "done" ELSE status[cur]
        /\ HandedOut' = HandedOut
    BY <1>15, StoreFacts DEF TagBlank
  <2>1. LateByFault'
    BY <1>15, <2>a DEF TagBlank
  <2>2. Announced'
    BY <1>15, <2>a DEF TagBlank
  <2>3. WaitHasCause'
    BY <1>15, <2>a DEF TagBlank
  <2>4. CrashLosesNoJob'
    BY <1>15, <2>a DEF TagBlank
  <2> QED
    BY <2>1, <2>2, <2>3, <2>4
<1>16. CASE TagCompute
  <2>1. LateByFault'
    BY <1>16 DEF TagCompute
  <2>2. Announced'
    BY <1>16 DEF TagCompute
  <2>3. WaitHasCause'
    BY <1>16 DEF TagCompute
  <2>4. CrashLosesNoJob'
    BY <1>16 DEF TagCompute
  <2> QED
    BY <2>1, <2>2, <2>3, <2>4
<1>17. CASE TagReport
  <2>a. /\ \A i \in Jobs : i # cur => status'[i] = status[i]
        /\ status'[cur] = IF kind[cur] = "tag" \/ stage = NStages - 1 THEN "done" ELSE status[cur]
        /\ HandedOut' = HandedOut
    BY <1>17, StoreFacts DEF TagReport
  <2>1. LateByFault'
    BY <1>17, <2>a DEF TagReport
  <2>2. Announced'
    BY <1>17, <2>a DEF TagReport
  <2>3. WaitHasCause'
    BY <1>17, <2>a DEF TagReport
  <2>4. CrashLosesNoJob'
    BY <1>17, <2>a DEF TagReport
  <2> QED
    BY <2>1, <2>2, <2>3, <2>4
<1>18. CASE LoopRun
  <2>1. LateByFault'
    BY <1>18 DEF LoopRun
  <2>2. Announced'
    BY <1>18 DEF LoopRun
  <2>3. WaitHasCause'
    BY <1>18 DEF LoopRun
  <2>4. CrashLosesNoJob'
    BY <1>18 DEF LoopRun
  <2> QED
    BY <2>1, <2>2, <2>3, <2>4
<1>19. CASE Abandon
  <2>1. LateByFault'
    BY <1>19 DEF Abandon
  <2>2. Announced'
    BY <1>19 DEF Abandon
  <2>3. WaitHasCause'
    BY <1>19 DEF Abandon
  <2>4. CrashLosesNoJob'
    BY <1>19 DEF Abandon
  <2> QED
    BY <2>1, <2>2, <2>3, <2>4
<1>20. CASE TakeLost
  <2>a. \A i \in Jobs : status'[i] = "failed" => status[i] = "failed"
    BY <1>20, ClaimFacts DEF TakeLost
  <2>1. LateByFault'
    BY <1>20, <2>a DEF TakeLost
  <2>2. Announced'
    BY <1>20, <2>a DEF TakeLost
  <2>3. WaitHasCause'
    BY <1>20, <2>a DEF TakeLost
  <2>4. CrashLosesNoJob'
    BY <1>20, <2>a DEF TakeLost
  <2> QED
    BY <2>1, <2>2, <2>3, <2>4
<1>21. CASE ReportRejected
  <2>1. LateByFault'
    BY <1>21 DEF ReportRejected
  <2>2. Announced'
    BY <1>21 DEF ReportRejected
  <2>3. WaitHasCause'
    BY <1>21 DEF ReportRejected
  <2>4. CrashLosesNoJob'
    BY <1>21 DEF ReportRejected
  <2> QED
    BY <2>1, <2>2, <2>3, <2>4
<1>22. CASE TagRejected
  <2>1. LateByFault'
    BY <1>22 DEF TagRejected
  <2>2. Announced'
    BY <1>22 DEF TagRejected
  <2>3. WaitHasCause'
    BY <1>22 DEF TagRejected
  <2>4. CrashLosesNoJob'
    BY <1>22 DEF TagRejected
  <2> QED
    BY <2>1, <2>2, <2>3, <2>4
<1>23. CASE SweepUnanswered
  <2>a. faults' # 0 /\ ~(Faults \subseteq {"crash"})
    BY <1>23 DEF SweepUnanswered
  <2>b. LateByFault'
    BY <1>23, <2>a DEF SweepUnanswered
  <2>1. CASE UNCHANGED <<queue, effects>>
    BY <1>23, <2>a, <2>b, <2>1 DEF SweepUnanswered
  <2>2. CASE SweepRows(orphans, untold) /\ UNCHANGED late
    <3>a. /\ orphans \in SUBSET HandedOut /\ untold \in SUBSET orphans
          /\ \A j \in orphans \ untold : "failed" \in told[j]
      BY SweepSets
    <3>b. FailedIsAnnounced' /\ \A j \in Jobs : told[j] \subseteq told'[j]
      BY <2>2, <3>a, SweepsAnnounce
    <3>1. Announced'
      BY <1>23, <2>2, <3>b DEF SweepUnanswered
    <3> QED
      BY <2>a, <2>b, <3>1
  <2> QED
    BY <1>23, <2>1, <2>2 DEF SweepUnanswered
<1>24. CASE SweepRejected
  <2>1. LateByFault'
    BY <1>24 DEF SweepRejected
  <2>2. Announced'
    BY <1>24 DEF SweepRejected
  <2>3. WaitHasCause'
    BY <1>24 DEF SweepRejected
  <2>4. CrashLosesNoJob'
    BY <1>24 DEF SweepRejected
  <2> QED
    BY <2>1, <2>2, <2>3, <2>4
<1>25. CASE Crash
  <2>1. LateByFault'
    BY <1>25 DEF Crash
  <2>2. Announced'
    BY <1>25 DEF Crash
  <2>3. WaitHasCause'
    BY <1>25 DEF Crash
  <2>4. CrashLosesNoJob'
    BY <1>25 DEF Crash
  <2> QED
    BY <2>1, <2>2, <2>3, <2>4
<1>26. ASSUME NEW r \in lateResults, LateResult(r) PROVE Accounted'
  <2>a. /\ \A i \in Jobs : i # r.job => status'[i] = status[i]
        /\ status'[r.job] = IF kind[r.job] = "tag" \/ r.stage = NStages - 1 THEN "done" ELSE status[r.job]
        /\ HandedOut' = HandedOut
    BY <1>26, StoreFacts DEF LateResult
  <2>1. LateByFault'
    BY <1>26, <2>a DEF LateResult
  <2>2. Announced'
    BY <1>26, <2>a DEF LateResult
  <2>3. WaitHasCause'
    BY <1>26, <2>a DEF LateResult
  <2>4. CrashLosesNoJob'
    BY <1>26, <2>a DEF LateResult
  <2> QED
    BY <2>1, <2>2, <2>3, <2>4
<1>27. ASSUME NEW v \in lateVerdicts, LateVerdict(v) PROVE Accounted'
  <2>1. LateByFault'
    BY <1>27 DEF LateVerdict, Tell
  <2>2. Announced'
    BY <1>27 DEF LateVerdict, Tell
  <2>3. WaitHasCause'
    BY <1>27 DEF LateVerdict, Tell
  <2>4. CrashLosesNoJob'
    BY <1>27 DEF LateVerdict, Tell
  <2> QED
    BY <2>1, <2>2, <2>3, <2>4
<1>28. CASE LateClaim
  <2>a. "late_call" \in Faults /\ faults # 0
    BY <1>28 DEF LateClaim, Begun
  <2>b. \A i \in Jobs : status'[i] = "failed" => status[i] = "failed"
    BY <1>28, ClaimFacts DEF LateClaim
  <2> QED
    BY <1>28, <2>a, <2>b DEF LateClaim
<1>29. CASE LateSelect
  <2>a. PICK j \in InProgress :
               /\ TellOrphans({j})
               /\ lateSweeps' = lateSweeps
                         \cup {[rows |-> InProgress, untold |-> InProgress \ {j}]}
    BY <1>29 DEF LateSelect
  <2>b. "late_call" \in Faults /\ faults # 0
    BY <1>29 DEF LateSelect, Begun
  <2>c. /\ \A i \in Jobs : i # j => told'[i] = told[i]
        /\ told'[j] = told[j] \cup {"failed"} /\ j \in Jobs
    BY <2>a, SelectFacts
  <2>1. Announced'
    BY <1>29, <2>a, <2>c DEF LateSelect
  <2>2. LateByFault' /\ WaitHasCause' /\ CrashLosesNoJob'
    BY <1>29, <2>b DEF LateSelect, Begun
  <2> QED
    BY <2>1, <2>2
<1>30. ASSUME NEW w \in lateSweeps, LateSweep(w) PROVE Accounted'
  <2>a. w.rows \in SUBSET HandedOut /\ w.untold \in SUBSET w.rows /\ \A j \in w.rows \ w.untold : "failed" \in told[j]
    BY <1>30, SweepSets
  <2>b. SweepRows(w.rows, w.untold)
    BY <1>30 DEF LateSweep
  <2>c. /\ FailedIsAnnounced' /\ HandedOut' = HandedOut
        /\ \A j \in Jobs : told[j] \subseteq told'[j]
        /\ \A j \in w.rows : told'[j] # {}
        /\ \A j \in Jobs : status[j] = "pending" => status'[j] = "pending"
        /\ \A j \in Jobs : j \notin w.rows => status'[j] = status[j]
        /\ waiting' \subseteq waiting
    BY <2>a, <2>b, SweepsAnnounce
  <2>1. LateByFault'
    BY <1>30, <2>c DEF LateSweep
  <2>2. Announced'
    BY <1>30, <2>c DEF LateSweep
  <2>3. WaitHasCause'
    BY <1>30, <2>c DEF LateSweep
  <2>4. CrashLosesNoJob'
    BY <1>30, <2>c DEF LateSweep
  <2> QED
    BY <2>1, <2>2, <2>3, <2>4
<1>31. CASE UNCHANGED vars
  BY <1>31 DEF vars
<1> QED
  BY <1>1, <1>2, <1>3, <1>4, <1>5, <1>6, <1>7, <1>8, <1>9, <1>10, <1>11,
  <1>12, <1>13, <1>14, <1>15, <1>16, <1>17, <1>18, <1>19, <1>20, <1>21,
  <1>22, <1>23, <1>24, <1>25, <1>26, <1>27, <1>28, <1>29, <1>30, <1>31
     DEF Next, Player, WorkerStep, Misfortune

\* The fourth layer holds in every reachable state.
LEMMA AccountedInvariance == Spec => []Accounted
<1>1. Init => Accounted
  BY InitAccounted
<1>2. Base /\ Complete /\ Accounted /\ [Next]_vars => Accounted'
  BY NextAccounted
<1> QED
  BY <1>1, <1>2, Invariance, PTL DEF Spec

\* The Player never waits for nothing while the system is healthy.
THEOREM WaitsHaveCauses == Spec => []WaitHasCause
<1>1. Accounted => WaitHasCause
  BY DEF Accounted
<1> QED
  BY <1>1, AccountedInvariance, PTL

\* No crash leaves an analysis that nobody will announce.
THEOREM CrashesLoseNothing == Spec => []CrashLosesNoJob
<1>1. Accounted => CrashLosesNoJob
  BY DEF Accounted
<1> QED
  BY <1>1, AccountedInvariance, PTL

\* Every row closed as failed has been announced so, under every fault.
THEOREM FailuresAreAnnounced == Spec => []FailedIsAnnounced
<1>1. Accounted => FailedIsAnnounced
  BY DEF Accounted, Announced
<1> QED
  BY <1>1, AccountedInvariance, PTL
===============================================================================
