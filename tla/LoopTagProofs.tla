---------------------------- MODULE LoopTagProofs ----------------------------
(***************************************************************************)
(* For any number of requests and threads and every sequence of faults:    *)
(* the rendezvous of POST /v1/loops/tag wakes nobody without a result,     *)
(* leaves nothing behind for requests it has served, keeps the clips of    *)
(* queued jobs, and implements Rendezvous.                                 *)
(***************************************************************************)
EXTENDS LoopTag, TLAPS

(***************************************************************************)
(* What is inductive.  JobsOwned: job ids are not shared, so that keys of  *)
(* the dictionaries mean requests.  RunOnce: until the worker has posted   *)
(* for a job, no dictionary knows a result of it and no thread has         *)
(* returned one; and there is one post per job.  Signalled: an event that  *)
(* a thread can wait for is set only with the result in the dictionary,    *)
(* because it was not registered before the thread was going to wait.      *)
(***************************************************************************)
Served(r) == \/ answer[r] \in Outcomes
             \/ phase[r] = "collected" /\ reply[r] \in Outcomes
NoResult(j) == /\ results[j] = "none" /\ j \notin signals /\ j \notin isSet
               /\ \A r \in Requests : Owner(r, j) => ~Served(r)

JobsOwned ==
  /\ \A r \in Requests : job[r] # 0 => status[job[r]] # "absent"
  /\ \A r, s \in Requests : job[r] # 0 /\ job[r] = job[s] => r = s
  /\ \A r \in Requests : phase[r] \in {"queued", "saved"} => job[r] = 0
  /\ \A r \in Requests : phase[r] \in {"enqueued", "waiting", "woken", "expired",
                                       "collected"} => job[r] # 0
  /\ \A j \in events : status[j] # "absent"
Answered ==
  \A r \in Requests : /\ phase[r] # "answered" => answer[r] = "none"
                      /\ phase[r] = "collected" => reply[r] # "none"
RunOnce ==
  /\ pc = "run" => /\ cur # 0 /\ status[cur] \notin {"absent", "pending"}
                   /\ NoResult(cur) /\ \A p \in posts : p.job # cur
  /\ \A j \in Jobs : status[j] \in {"absent", "pending"} =>
                       NoResult(j) /\ \A p \in posts : p.job # j
  /\ \A p \in posts : NoResult(p.job)
  /\ \A p, q \in posts : p.job = q.job => p = q
Signalled ==
  \A r \in Requests :
    /\ phase[r] = "enqueued" => job[r] \notin events \cup signals \cup isSet
    /\ phase[r] \in {"waiting", "woken", "expired"}
         /\ job[r] \in signals \cup isSet => results[job[r]] # "none"
    /\ phase[r] = "woken" => job[r] \in isSet
Drained == \A r \in Requests : Served(r) => job[r] # 0 /\ results[job[r]] = "none"
ClipSaved == \A r \in Requests : phase[r] = "saved" => r \in clips

IInv == /\ TypeOK /\ JobsOwned /\ Answered /\ RunOnce /\ Signalled /\ Drained
        /\ ClipSaved /\ ClipKept

USE DEF IInv, Jobs, Status, Outcomes, queue

-------------------------------------------------------------------------------
\* Nothing is under way at the start.
LEMMA InitIInv == Init => IInv
BY LoopTagAssumption, MaxJobsAssumption
   DEF Init, QueueInit, TypeOK, QueueTypeOK, JobsOwned, Answered, RunOnce, NoResult, Signalled,
       Drained, ClipSaved, ClipKept, Served, Owner

\* One lemma per action, one step per part of the invariant.

\* A request gets a thread and saves its clip.
LEMMA SaveClipKeeps ==
  ASSUME IInv, NEW r \in Requests, SaveClip(r)
  PROVE  IInv'
<1> USE DEF SaveClip, Go, threads, shared
<1>1. TypeOK'
  BY DEF TypeOK, QueueTypeOK
<1>2. JobsOwned'
  BY DEF TypeOK, QueueTypeOK, JobsOwned
<1>3. Answered'
  BY DEF TypeOK, Answered
<1>4. RunOnce'
  BY DEF TypeOK, QueueTypeOK, JobsOwned, Answered, RunOnce, NoResult, Served, Owner, Drained
<1>5. Signalled'
  BY DEF TypeOK, JobsOwned, RunOnce, NoResult, Signalled
<1>6. Drained'
  BY DEF TypeOK, JobsOwned, Answered, RunOnce, NoResult, Drained, Served, Owner
<1>7. ClipSaved'
  BY DEF TypeOK, ClipSaved
<1>8. ClipKept'
  BY DEF TypeOK, QueueTypeOK, JobsOwned, ClipSaved, ClipKept
<1> QED
  BY <1>1, <1>2, <1>3, <1>4, <1>5, <1>6, <1>7, <1>8

\* A fresh job id, of which no dictionary knows anything.
LEMMA EnqueueJobKeeps ==
  ASSUME IInv, NEW r \in Requests, EnqueueJob(r)
  PROVE  IInv'
<1> USE DEF EnqueueJob, Enqueue, NextId, Go, threads, shared
<1>1. TypeOK'
  <2>1. PICK j \in Jobs : Enqueue(j, 0) /\ job' = [job EXCEPT ![r] = j]
    OBVIOUS
  <2>2. /\ status' \in [Jobs -> Status] /\ ahead' \in [Jobs -> 0..MaxJobs]
        /\ job' \in [Requests -> Jobs \cup {0}]
    BY <2>1, MaxJobsAssumption DEF TypeOK, QueueTypeOK, Status
  <2> QED
    BY <2>2 DEF TypeOK, QueueTypeOK
<1>2. JobsOwned'
  BY DEF TypeOK, QueueTypeOK, JobsOwned
<1>3. Answered'
  BY DEF TypeOK, Answered
<1>4. RunOnce'
  BY DEF TypeOK, QueueTypeOK, JobsOwned, Answered, RunOnce, NoResult, Served, Owner, Drained
<1>5. Signalled'
  BY DEF TypeOK, JobsOwned, RunOnce, NoResult, Signalled
<1>6. Drained'
  BY DEF TypeOK, JobsOwned, Answered, RunOnce, NoResult, Drained, Served, Owner
<1>7. ClipSaved'
  BY DEF TypeOK, ClipSaved
<1>8. ClipKept'
  BY DEF TypeOK, QueueTypeOK, JobsOwned, ClipSaved, ClipKept
<1> QED
  BY <1>1, <1>2, <1>3, <1>4, <1>5, <1>6, <1>7, <1>8

\* The request is over, without a job.
LEMMA EnqueueFailsKeeps ==
  ASSUME IInv, NEW r \in Requests, EnqueueFails(r)
  PROVE  IInv'
<1> USE DEF EnqueueFails, Fault, Go, threads, shared
<1>1. TypeOK'
  BY LoopTagAssumption DEF TypeOK, QueueTypeOK
<1>2. JobsOwned'
  BY DEF TypeOK, QueueTypeOK, JobsOwned
<1>3. Answered'
  BY DEF TypeOK, Answered
<1>4. RunOnce'
  BY DEF TypeOK, QueueTypeOK, JobsOwned, Answered, RunOnce, NoResult, Served, Owner, Drained
<1>5. Signalled'
  BY DEF TypeOK, JobsOwned, RunOnce, NoResult, Signalled
<1>6. Drained'
  BY DEF TypeOK, JobsOwned, Answered, RunOnce, NoResult, Drained, Served, Owner
<1>7. ClipSaved'
  BY DEF TypeOK, ClipSaved
<1>8. ClipKept'
  BY DEF TypeOK, QueueTypeOK, JobsOwned, ClipSaved, ClipKept
<1> QED
  BY <1>1, <1>2, <1>3, <1>4, <1>5, <1>6, <1>7, <1>8

\* The thread begins to listen.
LEMMA RegisterKeeps ==
  ASSUME IInv, NEW r \in Requests, Register(r)
  PROVE  IInv'
<1> USE DEF Register, Go, threads, shared
<1>1. TypeOK'
  BY DEF TypeOK, QueueTypeOK, JobsOwned
<1>2. JobsOwned'
  BY DEF TypeOK, QueueTypeOK, JobsOwned
<1>3. Answered'
  BY DEF TypeOK, Answered
<1>4. RunOnce'
  BY DEF TypeOK, QueueTypeOK, JobsOwned, Answered, RunOnce, NoResult, Served, Owner, Drained
<1>5. Signalled'
  BY DEF TypeOK, JobsOwned, RunOnce, NoResult, Signalled
<1>6. Drained'
  BY DEF TypeOK, JobsOwned, Answered, RunOnce, NoResult, Drained, Served, Owner
<1>7. ClipSaved'
  BY DEF TypeOK, ClipSaved
<1>8. ClipKept'
  BY DEF TypeOK, QueueTypeOK, JobsOwned, ClipSaved, ClipKept
<1> QED
  BY <1>1, <1>2, <1>3, <1>4, <1>5, <1>6, <1>7, <1>8

\* The event is set.
LEMMA WakeKeeps ==
  ASSUME IInv, NEW r \in Requests, Wake(r)
  PROVE  IInv'
<1> USE DEF Wake, Waited, Go, threads, shared
<1>1. TypeOK'
  BY DEF TypeOK, QueueTypeOK
<1>2. JobsOwned'
  BY DEF TypeOK, QueueTypeOK, JobsOwned
<1>3. Answered'
  BY DEF TypeOK, Answered
<1>4. RunOnce'
  BY DEF TypeOK, QueueTypeOK, JobsOwned, Answered, RunOnce, NoResult, Served, Owner, Drained
<1>5. Signalled'
  BY DEF TypeOK, JobsOwned, RunOnce, NoResult, Signalled
<1>6. Drained'
  BY DEF TypeOK, JobsOwned, Answered, RunOnce, NoResult, Drained, Served, Owner
<1>7. ClipSaved'
  BY DEF TypeOK, ClipSaved
<1>8. ClipKept'
  BY DEF TypeOK, QueueTypeOK, JobsOwned, ClipSaved, ClipKept
<1> QED
  BY <1>1, <1>2, <1>3, <1>4, <1>5, <1>6, <1>7, <1>8

\* The time is up.
LEMMA ExpireKeeps ==
  ASSUME IInv, NEW r \in Requests, Expire(r)
  PROVE  IInv'
<1> USE DEF Expire, Waited, Go, threads, shared
<1>1. TypeOK'
  BY DEF TypeOK, QueueTypeOK
<1>2. JobsOwned'
  BY DEF TypeOK, QueueTypeOK, JobsOwned
<1>3. Answered'
  BY DEF TypeOK, Answered
<1>4. RunOnce'
  BY DEF TypeOK, QueueTypeOK, JobsOwned, Answered, RunOnce, NoResult, Served, Owner, Drained
<1>5. Signalled'
  BY DEF TypeOK, JobsOwned, RunOnce, NoResult, Signalled
<1>6. Drained'
  BY DEF TypeOK, JobsOwned, Answered, RunOnce, NoResult, Drained, Served, Owner
<1>7. ClipSaved'
  BY DEF TypeOK, ClipSaved
<1>8. ClipKept'
  BY DEF TypeOK, QueueTypeOK, JobsOwned, ClipSaved, ClipKept
<1> QED
  BY <1>1, <1>2, <1>3, <1>4, <1>5, <1>6, <1>7, <1>8

\* Both dictionaries are popped.
LEMMA CollectKeeps ==
  ASSUME IInv, NEW r \in Requests, Collect(r)
  PROVE  IInv'
<1> USE DEF Collect, Found, Go, threads, shared
<1>1. TypeOK'
  BY ZenonT(40) DEF TypeOK, QueueTypeOK, JobsOwned
<1>2. JobsOwned'
  BY DEF TypeOK, QueueTypeOK, JobsOwned
<1>3. Answered'
  BY DEF TypeOK, Answered
<1>4. RunOnce'
  BY DEF TypeOK, QueueTypeOK, JobsOwned, Answered, RunOnce, NoResult, Served, Owner, Drained
<1>5. Signalled'
  BY DEF TypeOK, JobsOwned, RunOnce, NoResult, Signalled
<1>6. Drained'
  BY DEF TypeOK, JobsOwned, Answered, RunOnce, NoResult, Drained, Served, Owner
<1>7. ClipSaved'
  BY DEF TypeOK, ClipSaved
<1>8. ClipKept'
  BY DEF TypeOK, QueueTypeOK, JobsOwned, ClipSaved, ClipKept
<1> QED
  BY <1>1, <1>2, <1>3, <1>4, <1>5, <1>6, <1>7, <1>8

\* The answer, and the end of the clip.
LEMMA RespondKeeps ==
  ASSUME IInv, NEW r \in Requests, Respond(r)
  PROVE  IInv'
<1> USE DEF Respond, Go, threads, shared
<1>1. TypeOK'
  BY DEF TypeOK, QueueTypeOK
<1>2. JobsOwned'
  BY DEF TypeOK, QueueTypeOK, JobsOwned
<1>3. Answered'
  BY DEF TypeOK, Answered
<1>4. RunOnce'
  BY DEF TypeOK, QueueTypeOK, JobsOwned, Answered, RunOnce, NoResult, Served, Owner, Drained
<1>5. Signalled'
  BY DEF TypeOK, JobsOwned, RunOnce, NoResult, Signalled
<1>6. Drained'
  BY DEF TypeOK, JobsOwned, Answered, RunOnce, NoResult, Drained, Served, Owner
<1>7. ClipSaved'
  BY DEF TypeOK, ClipSaved
<1>8. ClipKept'
  BY DEF TypeOK, QueueTypeOK, JobsOwned, ClipSaved, ClipKept
<1> QED
  BY <1>1, <1>2, <1>3, <1>4, <1>5, <1>6, <1>7, <1>8

\* A worker boots.
LEMMA SweepKeeps ==
  ASSUME IInv, Sweep
  PROVE  IInv'
<1> USE DEF Sweep, Close, InProgress, threads, shared
<1>1. TypeOK'
  BY DEF TypeOK, QueueTypeOK
<1>2. JobsOwned'
  BY DEF TypeOK, QueueTypeOK, JobsOwned
<1>3. Answered'
  BY DEF TypeOK, Answered
<1>4. RunOnce'
  BY DEF TypeOK, QueueTypeOK, JobsOwned, Answered, RunOnce, NoResult, Served, Owner, Drained
<1>5. Signalled'
  BY DEF TypeOK, JobsOwned, RunOnce, NoResult, Signalled
<1>6. Drained'
  BY DEF TypeOK, JobsOwned, Answered, RunOnce, NoResult, Drained, Served, Owner
<1>7. ClipSaved'
  BY DEF TypeOK, ClipSaved, JobsOwned
<1>8. ClipKept'
  BY DEF TypeOK, QueueTypeOK, JobsOwned, ClipSaved, ClipKept
<1> QED
  BY <1>1, <1>2, <1>3, <1>4, <1>5, <1>6, <1>7, <1>8

\* A job is claimed.
LEMMA TakeKeeps ==
  ASSUME IInv, Take
  PROVE  IInv'
<1> USE DEF Take, Claim, OldestPending, threads, shared
<1>1. TypeOK'
  BY DEF TypeOK, QueueTypeOK
<1>2. JobsOwned'
  BY DEF TypeOK, QueueTypeOK, JobsOwned
<1>3. Answered'
  BY DEF TypeOK, Answered
<1>4. RunOnce'
  BY DEF TypeOK, QueueTypeOK, JobsOwned, Answered, RunOnce, NoResult, Served, Owner, Drained
<1>5. Signalled'
  BY DEF TypeOK, JobsOwned, RunOnce, NoResult, Signalled
<1>6. Drained'
  BY DEF TypeOK, JobsOwned, Answered, RunOnce, NoResult, Drained, Served, Owner
<1>7. ClipSaved'
  BY DEF TypeOK, ClipSaved
<1>8. ClipKept'
  BY DEF TypeOK, QueueTypeOK, JobsOwned, ClipSaved, ClipKept
<1> QED
  BY <1>1, <1>2, <1>3, <1>4, <1>5, <1>6, <1>7, <1>8

\* A job is claimed for nobody.
LEMMA ClaimLostKeeps ==
  ASSUME IInv, ClaimLost
  PROVE  IInv'
<1> USE DEF ClaimLost, Fault, Claim, OldestPending, threads, shared
<1>1. TypeOK'
  BY LoopTagAssumption DEF TypeOK, QueueTypeOK
<1>2. JobsOwned'
  BY DEF TypeOK, QueueTypeOK, JobsOwned
<1>3. Answered'
  BY DEF TypeOK, Answered
<1>4. RunOnce'
  BY DEF TypeOK, QueueTypeOK, JobsOwned, Answered, RunOnce, NoResult, Served, Owner, Drained
<1>5. Signalled'
  BY DEF TypeOK, JobsOwned, RunOnce, NoResult, Signalled
<1>6. Drained'
  BY DEF TypeOK, JobsOwned, Answered, RunOnce, NoResult, Drained, Served, Owner
<1>7. ClipSaved'
  BY DEF TypeOK, ClipSaved
<1>8. ClipKept'
  BY DEF TypeOK, QueueTypeOK, JobsOwned, ClipSaved, ClipKept
<1> QED
  BY <1>1, <1>2, <1>3, <1>4, <1>5, <1>6, <1>7, <1>8

\* The one result of a job is posted.
LEMMA RunKeeps ==
  ASSUME IInv, Run
  PROVE  IInv'
<1> USE DEF Run, threads, shared
<1>1. TypeOK'
  BY DEF TypeOK, QueueTypeOK, RunOnce
<1>2. JobsOwned'
  BY DEF TypeOK, QueueTypeOK, JobsOwned
<1>3. Answered'
  BY DEF TypeOK, Answered
<1>4. RunOnce'
  BY DEF TypeOK, QueueTypeOK, JobsOwned, Answered, RunOnce, NoResult, Served, Owner, Drained
<1>5. Signalled'
  BY DEF TypeOK, JobsOwned, RunOnce, NoResult, Signalled
<1>6. Drained'
  BY DEF TypeOK, JobsOwned, Answered, RunOnce, NoResult, Drained, Served, Owner
<1>7. ClipSaved'
  BY DEF TypeOK, ClipSaved
<1>8. ClipKept'
  BY DEF TypeOK, QueueTypeOK, JobsOwned, ClipSaved, ClipKept
<1> QED
  BY <1>1, <1>2, <1>3, <1>4, <1>5, <1>6, <1>7, <1>8

\* The worker goes on.
LEMMA ReplyKeeps ==
  ASSUME IInv, Reply
  PROVE  IInv'
<1> USE DEF Reply, threads, shared
<1>1. TypeOK'
  BY DEF TypeOK, QueueTypeOK
<1>2. JobsOwned'
  BY DEF TypeOK, QueueTypeOK, JobsOwned
<1>3. Answered'
  BY DEF TypeOK, Answered
<1>4. RunOnce'
  BY DEF TypeOK, QueueTypeOK, JobsOwned, Answered, RunOnce, NoResult, Served, Owner, Drained
<1>5. Signalled'
  BY DEF TypeOK, JobsOwned, RunOnce, NoResult, Signalled
<1>6. Drained'
  BY DEF TypeOK, JobsOwned, Answered, RunOnce, NoResult, Drained, Served, Owner
<1>7. ClipSaved'
  BY DEF TypeOK, ClipSaved
<1>8. ClipKept'
  BY DEF TypeOK, QueueTypeOK, JobsOwned, ClipSaved, ClipKept
<1> QED
  BY <1>1, <1>2, <1>3, <1>4, <1>5, <1>6, <1>7, <1>8

\* The result enters the dictionary.
LEMMA StoreResultKeeps ==
  ASSUME IInv, NEW p \in posts, StoreResult(p)
  PROVE  IInv'
<1> USE DEF StoreResult, threads, shared
<1>1. TypeOK'
  BY DEF TypeOK, QueueTypeOK
<1>2. JobsOwned'
  BY DEF TypeOK, QueueTypeOK, JobsOwned
<1>3. Answered'
  BY DEF TypeOK, Answered
<1>4. RunOnce'
  BY DEF TypeOK, QueueTypeOK, JobsOwned, Answered, RunOnce, NoResult, Served, Owner, Drained
<1>5. Signalled'
  BY DEF TypeOK, JobsOwned, RunOnce, NoResult, Signalled
<1>6. Drained'
  BY DEF TypeOK, JobsOwned, Answered, RunOnce, NoResult, Drained, Served, Owner
<1>7. ClipSaved'
  BY DEF TypeOK, ClipSaved
<1>8. ClipKept'
  BY DEF TypeOK, QueueTypeOK, JobsOwned, ClipSaved, ClipKept
<1> QED
  BY <1>1, <1>2, <1>3, <1>4, <1>5, <1>6, <1>7, <1>8

\* The handler of the result sets the event.
LEMMA SetEventKeeps ==
  ASSUME IInv, NEW j \in signals, SetEvent(j)
  PROVE  IInv'
<1> USE DEF SetEvent, threads, shared
<1>1. TypeOK'
  BY DEF TypeOK, QueueTypeOK
<1>2. JobsOwned'
  BY DEF TypeOK, QueueTypeOK, JobsOwned
<1>3. Answered'
  BY DEF TypeOK, Answered
<1>4. RunOnce'
  BY DEF TypeOK, QueueTypeOK, JobsOwned, Answered, RunOnce, NoResult, Served, Owner, Drained
<1>5. Signalled'
  BY DEF TypeOK, JobsOwned, RunOnce, NoResult, Signalled
<1>6. Drained'
  BY DEF TypeOK, JobsOwned, Answered, RunOnce, NoResult, Drained, Served, Owner
<1>7. ClipSaved'
  BY DEF TypeOK, ClipSaved
<1>8. ClipKept'
  BY DEF TypeOK, QueueTypeOK, JobsOwned, ClipSaved, ClipKept
<1> QED
  BY <1>1, <1>2, <1>3, <1>4, <1>5, <1>6, <1>7, <1>8

\* The worker goes on without an answer.
LEMMA PostLostKeeps ==
  ASSUME IInv, PostLost
  PROVE  IInv'
<1> USE DEF PostLost, Fault, threads, shared
<1>1. TypeOK'
  BY LoopTagAssumption DEF TypeOK, QueueTypeOK
<1>2. JobsOwned'
  BY DEF TypeOK, QueueTypeOK, JobsOwned
<1>3. Answered'
  BY DEF TypeOK, Answered
<1>4. RunOnce'
  BY DEF TypeOK, QueueTypeOK, JobsOwned, Answered, RunOnce, NoResult, Served, Owner, Drained
<1>5. Signalled'
  BY DEF TypeOK, JobsOwned, RunOnce, NoResult, Signalled
<1>6. Drained'
  BY DEF TypeOK, JobsOwned, Answered, RunOnce, NoResult, Drained, Served, Owner
<1>7. ClipSaved'
  BY DEF TypeOK, ClipSaved
<1>8. ClipKept'
  BY DEF TypeOK, QueueTypeOK, JobsOwned, ClipSaved, ClipKept
<1> QED
  BY <1>1, <1>2, <1>3, <1>4, <1>5, <1>6, <1>7, <1>8

\* The worker dies.
LEMMA CrashKeeps ==
  ASSUME IInv, Crash
  PROVE  IInv'
<1> USE DEF Crash, Fault, threads, shared
<1>1. TypeOK'
  BY LoopTagAssumption DEF TypeOK, QueueTypeOK
<1>2. JobsOwned'
  BY DEF TypeOK, QueueTypeOK, JobsOwned
<1>3. Answered'
  BY DEF TypeOK, Answered
<1>4. RunOnce'
  BY DEF TypeOK, QueueTypeOK, JobsOwned, Answered, RunOnce, NoResult, Served, Owner, Drained
<1>5. Signalled'
  BY DEF TypeOK, JobsOwned, RunOnce, NoResult, Signalled
<1>6. Drained'
  BY DEF TypeOK, JobsOwned, Answered, RunOnce, NoResult, Drained, Served, Owner
<1>7. ClipSaved'
  BY DEF TypeOK, ClipSaved
<1>8. ClipKept'
  BY DEF TypeOK, QueueTypeOK, JobsOwned, ClipSaved, ClipKept
<1> QED
  BY <1>1, <1>2, <1>3, <1>4, <1>5, <1>6, <1>7, <1>8

\* The service dies: all waits end, all results are forgotten.
LEMMA RestartKeeps ==
  ASSUME IInv, Restart
  PROVE  IInv'
<1> USE DEF Restart, Fault, Connected, threads, shared
<1>1. TypeOK'
  BY LoopTagAssumption DEF TypeOK, QueueTypeOK
<1>2. JobsOwned'
  BY DEF TypeOK, QueueTypeOK, JobsOwned
<1>3. Answered'
  BY DEF TypeOK, Answered
<1>4. RunOnce'
  BY DEF TypeOK, QueueTypeOK, JobsOwned, Answered, RunOnce, NoResult, Served, Owner, Drained
<1>5. Signalled'
  BY DEF TypeOK, JobsOwned, RunOnce, NoResult, Signalled
<1>6. Drained'
  BY DEF TypeOK, JobsOwned, Answered, RunOnce, NoResult, Drained, Served, Owner
<1>7. ClipSaved'
  BY DEF TypeOK, ClipSaved
<1>8. ClipKept'
  BY DEF TypeOK, QueueTypeOK, JobsOwned, ClipSaved, ClipKept
<1> QED
  BY <1>1, <1>2, <1>3, <1>4, <1>5, <1>6, <1>7, <1>8

\* Nothing changes.
LEMMA StutterKeeps == IInv /\ UNCHANGED vars => IInv'
BY DEF vars, threads, shared, TypeOK, QueueTypeOK, JobsOwned, Answered, RunOnce, NoResult,
       Signalled, Drained, ClipSaved, ClipKept, Served, Owner

\* Each step of a handler, of the worker and of the faults keeps the invariant.
LEMMA NextKeeps == IInv /\ [Next]_vars => IInv'
<1> SUFFICES ASSUME IInv, [Next]_vars PROVE IInv'
  OBVIOUS
<1>1. ASSUME NEW r \in Requests, Handler(r) PROVE IInv'
  BY <1>1, SaveClipKeeps, EnqueueJobKeeps, RegisterKeeps, WakeKeeps, ExpireKeeps,
     CollectKeeps, RespondKeeps DEF Handler
<1>2. ASSUME NEW r \in Requests, EnqueueFails(r) PROVE IInv'
  BY <1>2, EnqueueFailsKeeps
<1>3. CASE Worker
  BY <1>3, SweepKeeps, TakeKeeps, RunKeeps, ReplyKeeps DEF Worker
<1>4. CASE Poster
  BY <1>4, StoreResultKeeps, SetEventKeeps DEF Poster
<1>5. CASE ClaimLost \/ PostLost \/ Crash \/ Restart
  BY <1>5, ClaimLostKeeps, PostLostKeeps, CrashKeeps, RestartKeeps
<1>6. CASE UNCHANGED vars
  BY <1>6, StutterKeeps
<1> QED
  BY <1>1, <1>2, <1>3, <1>4, <1>5, <1>6 DEF Next

LEMMA Invariance == Spec => []IInv
BY InitIInv, NextKeeps, PTL DEF Spec

-------------------------------------------------------------------------------
\* The variables of the rendezvous have their types.
THEOREM TypeCorrect == Spec => []TypeOK
<1>1. IInv => TypeOK
  BY DEF IInv
<1> QED
  BY <1>1, Invariance, PTL

\* loop_tag_result stores before it signals, and no thread listens for an event
\* somebody else may set: whoever wakes up finds a result.
THEOREM WakesWithResult == Spec => []NoEmptyWake
<1>1. IInv => NoEmptyWake
  BY DEF IInv, Signalled, NoEmptyWake
<1> QED
  BY <1>1, Invariance, PTL

\* A request that was served leaves nothing in the dictionary of results.
THEOREM ServedIsDrained == Spec => []ResultsDrained
<1>1. IInv => ResultsDrained
  BY DEF IInv, Drained, Served, ResultsDrained
<1> QED
  BY <1>1, Invariance, PTL

\* Neither the end of another request nor a sweep takes the clip of a queued job.
THEOREM ClipIsKept == Spec => []ClipKept
<1>1. IInv => ClipKept
  BY DEF IInv
<1> QED
  BY <1>1, Invariance, PTL

-------------------------------------------------------------------------------
(***************************************************************************)
(* The refinement: each step is one of the promise's, or hidden.  Of the   *)
(* abstract variables a step changes those of one request at most, with    *)
(* the exception of Restart.                                               *)
(***************************************************************************)
PromiseStep == [Promise!Next]_(Promise!promise)

\* The mapping of an initial state.
LEMMA InitMaps == Init => Promise!Init
BY DEF Init, Promise!Init, WorkOf, OfferOf, TypeOK

\* A step that changes nobody's work, offer or answer is hidden.
LEMMA Hidden ==
  ASSUME \A s \in Requests : WorkOf(s)' = WorkOf(s) /\ OfferOf(s)' = OfferOf(s),
         answer' = answer
  PROVE  PromiseStep
BY DEF PromiseStep, Promise!promise

\* A step that changes the work of one request.
LEMMA WorkMoves ==
  ASSUME NEW r \in Requests, NEW to,
         \A s \in Requests : /\ WorkOf(s)' = IF s = r THEN to ELSE WorkOf(s)
                             /\ OfferOf(s)' = OfferOf(s),
         answer' = answer,
         \/ WorkOf(r) = "none" /\ to = "asked" /\ answer[r] = "none"
         \/ WorkOf(r) = "asked" /\ to = "running"
         \/ WorkOf(r) \in {"asked", "running"} /\ to = "over"
  PROVE  PromiseStep
<1>1. Promise!Ask(r) \/ Promise!Start(r) \/ Promise!GiveUp(r)
  BY DEF Promise!Ask, Promise!Start, Promise!GiveUp, Promise!Move
<1> QED
  BY <1>1 DEF PromiseStep, Promise!Next

\* A step that makes the offer of one request disappear.
LEMMA OfferGoes ==
  ASSUME NEW r \in Requests,
         \A s \in Requests : /\ WorkOf(s)' = WorkOf(s)
                             /\ OfferOf(s)' = IF s = r THEN {} ELSE OfferOf(s),
         answer' = answer
  PROVE  PromiseStep
<1>1. Promise!Lose(r)
  BY DEF Promise!Lose
<1> QED
  BY <1>1 DEF PromiseStep, Promise!Next

LEMMA EnqueueJobMaps ==
  ASSUME IInv, NEW r \in Requests, EnqueueJob(r)
  PROVE  PromiseStep
<1> USE DEF EnqueueJob, Enqueue, NextId, Go, shared, TypeOK, QueueTypeOK, JobsOwned
<1>1. PICK j \in Jobs : Enqueue(j, 0) /\ job' = [job EXCEPT ![r] = j]
  OBVIOUS
<1>2. ASSUME NEW s \in Requests PROVE WorkOf(s)' = IF s = r THEN "asked" ELSE WorkOf(s)
  BY <1>1 DEF WorkOf, RunOnce
<1>3. ASSUME NEW s \in Requests PROVE OfferOf(s)' = OfferOf(s)
  BY <1>1 DEF OfferOf, RunOnce, NoResult
<1>4. WorkOf(r) = "none" /\ answer[r] = "none"
  BY DEF WorkOf, Answered
<1> QED
  BY <1>2, <1>3, <1>4, WorkMoves

LEMMA EnqueueFailsMaps ==
  ASSUME IInv, NEW r \in Requests, EnqueueFails(r)
  PROVE  PromiseStep
<1> USE DEF EnqueueFails, Go, shared, TypeOK
<1>1. ASSUME NEW s \in Requests PROVE WorkOf(s)' = WorkOf(s) /\ OfferOf(s)' = OfferOf(s)
  BY DEF WorkOf, OfferOf
<1>2. Promise!Refuse(r)
  BY <1>1 DEF Promise!Refuse, Promise!Reply, Answered
<1> QED
  BY <1>2 DEF PromiseStep, Promise!Next

LEMMA HandlerHidden ==
  ASSUME IInv, NEW r \in Requests,
         SaveClip(r) \/ Register(r) \/ Wake(r) \/ Expire(r)
  PROVE  PromiseStep
<1>1. PICK from \in {"queued", "enqueued", "waiting"}, to \in {"saved", "waiting", "woken", "expired"} :
         phase[r] = from /\ phase' = [phase EXCEPT ![r] = to]
  BY DEF SaveClip, Register, Wake, Expire, Waited, Go
<1>2. UNCHANGED <<status, job, reply, answer, results, pc, cur, posts>>
  BY DEF SaveClip, Register, Wake, Expire, Waited, shared
<1>3. ASSUME NEW s \in Requests PROVE WorkOf(s)' = WorkOf(s)
  BY <1>2 DEF WorkOf
<1>4. ASSUME NEW s \in Requests PROVE OfferOf(s)' = OfferOf(s)
  BY <1>1, <1>2 DEF OfferOf, TypeOK
<1> QED
  BY <1>2, <1>3, <1>4, Hidden

\* What the thread pops for itself stays on offer; what it does not use is lost.
LEMMA CollectMaps ==
  ASSUME IInv, NEW r \in Requests, Collect(r)
  PROVE  PromiseStep
<1> USE DEF Collect, Go, TypeOK, QueueTypeOK, JobsOwned
<1>1. ASSUME NEW s \in Requests PROVE WorkOf(s)' = WorkOf(s)
  BY DEF WorkOf
<1>2. ASSUME NEW s \in Requests, s # r PROVE OfferOf(s)' = OfferOf(s)
  BY <1>2 DEF OfferOf
<1>3. CASE phase[r] = "woken" /\ results[job[r]] # "none"
  <2>1. OfferOf(r)' = OfferOf(r)
    BY <1>3 DEF OfferOf, Found, RunOnce, NoResult
  <2> QED
    BY <1>1, <1>2, <2>1, Hidden
<1>4. CASE ~(phase[r] = "woken" /\ results[job[r]] # "none")
  <2>1. CASE results[job[r]] = "none"
    <3>1. OfferOf(r)' = OfferOf(r)
      BY <1>4, <2>1 DEF OfferOf, Found
    <3> QED
      BY <1>1, <1>2, <3>1, Hidden
  <2>2. CASE results[job[r]] # "none"
    <3>1. OfferOf(r)' = {}
      BY <1>4, <2>2 DEF OfferOf, Found, RunOnce, NoResult
    <3> QED
      BY <1>1, <1>2, <3>1, OfferGoes
  <2> QED
    BY <2>1, <2>2
<1> QED
  BY <1>3, <1>4

LEMMA RespondMaps ==
  ASSUME IInv, NEW r \in Requests, Respond(r)
  PROVE  PromiseStep
<1> USE DEF Respond, Go, shared, TypeOK, QueueTypeOK, JobsOwned, Answered
<1>1. ASSUME NEW s \in Requests PROVE WorkOf(s)' = WorkOf(s)
  BY DEF WorkOf
<1>2. ASSUME NEW s \in Requests, s # r PROVE OfferOf(s)' = OfferOf(s)
  BY <1>2 DEF OfferOf
<1>3. CASE reply[r] = "timeout"
  <2>1. OfferOf(r)' = OfferOf(r)
    BY <1>3 DEF OfferOf
  <2>2. WorkOf(r) # "none"
    BY DEF WorkOf
  <2>3. Promise!TimeOut(r)
    BY <1>1, <1>2, <1>3, <2>1, <2>2 DEF Promise!TimeOut, Promise!Reply
  <2> QED
    BY <2>3 DEF PromiseStep, Promise!Next
<1>4. CASE reply[r] \in Outcomes
  <2>1. reply[r] \in OfferOf(r)
    BY <1>4 DEF OfferOf
  <2>2. OfferOf(r)' = {}
    BY <1>4 DEF OfferOf, RunOnce, NoResult, Owner, Drained, Served
  <2>3. Promise!Deliver(r)
    BY <1>1, <1>2, <1>4, <2>1, <2>2 DEF Promise!Deliver, Promise!Reply
  <2> QED
    BY <2>3 DEF PromiseStep, Promise!Next
<1> QED
  BY <1>3, <1>4

\* The job belongs to one request, or to none that is known.
LEMMA TakeMaps ==
  ASSUME IInv, Take \/ ClaimLost
  PROVE  PromiseStep
<1> USE DEF TypeOK, QueueTypeOK, JobsOwned, threads, shared, Claim, OldestPending
<1>1. PICK j \in Jobs : /\ status[j] = "pending"
                        /\ status' = [status EXCEPT ![j] = "in_progress"]
                        /\ \/ pc' = "run" /\ cur' = j
                           \/ UNCHANGED <<pc, cur>>
  BY DEF Take, ClaimLost
<1>2. UNCHANGED <<threads, shared, posts>> /\ pc = "poll"
  BY DEF Take, ClaimLost
<1>3. ASSUME NEW s \in Requests PROVE OfferOf(s)' = OfferOf(s)
  BY <1>2 DEF OfferOf
<1>4. ASSUME NEW s \in Requests, job[s] # j PROVE WorkOf(s)' = WorkOf(s)
  BY <1>1, <1>2, <1>4 DEF WorkOf
<1>5. CASE \A s \in Requests : job[s] # j
  BY <1>2, <1>3, <1>4, <1>5, Hidden
<1>6. ASSUME NEW r \in Requests, job[r] = j PROVE PromiseStep
  <2>1. WorkOf(r) = "asked" /\ WorkOf(r)' \in {"running", "over"}
    BY <1>1, <1>2, <1>6 DEF WorkOf
  <2>2. \A s \in Requests : s # r => job[s] # j
    BY <1>6
  <2>3. \A s \in Requests : WorkOf(s)' = IF s = r THEN WorkOf(r)' ELSE WorkOf(s)
    BY <1>4, <2>2
  <2> HIDE DEF TypeOK
  <2> QED
    BY <1>2, <1>3, <2>1, <2>3, WorkMoves
<1> QED
  BY <1>5, <1>6

LEMMA RunMaps ==
  ASSUME IInv, Run
  PROVE  PromiseStep
<1> USE DEF Run, threads, shared, TypeOK, QueueTypeOK, JobsOwned
<1>1. PICK x \in Outcomes : posts' = posts \cup {[job |-> cur, result |-> x]}
  OBVIOUS
<1>2. ASSUME NEW s \in Requests, job[s] # cur
      PROVE  WorkOf(s)' = WorkOf(s) /\ OfferOf(s)' = OfferOf(s)
  BY <1>1, <1>2 DEF WorkOf, OfferOf
<1>3. CASE \A s \in Requests : job[s] # cur
  BY <1>2, <1>3, Hidden
<1>4. ASSUME NEW r \in Requests, job[r] = cur PROVE PromiseStep
  <2>1. WorkOf(r) = "running" /\ WorkOf(r)' = "over"
    BY <1>4 DEF WorkOf, RunOnce
  <2>2. OfferOf(r) = {} /\ OfferOf(r)' = {x}
    BY <1>1, <1>4 DEF OfferOf, RunOnce, NoResult, Owner, Served
  <2>3. \A s \in Requests : s # r => job[s] # cur
    BY <1>4 DEF RunOnce
  <2>4. Promise!Finish(r)
    BY ZenonT(40), <1>2, <2>1, <2>2, <2>3 DEF Promise!Finish, Promise!Move
  <2> QED
    BY <2>4 DEF PromiseStep, Promise!Next
<1> QED
  BY <1>3, <1>4

LEMMA StoreResultMaps ==
  ASSUME IInv, NEW p \in posts, StoreResult(p)
  PROVE  PromiseStep
<1> USE DEF StoreResult, threads, TypeOK, QueueTypeOK
<1>1. ASSUME NEW s \in Requests PROVE WorkOf(s)' = WorkOf(s)
  BY DEF WorkOf
<1>2. ASSUME NEW s \in Requests PROVE OfferOf(s)' = OfferOf(s)
  BY DEF OfferOf, RunOnce, NoResult
<1> QED
  BY <1>1, <1>2, Hidden

\* With the post go the last traces of its result, if it had not been executed.
LEMMA PostLostMaps ==
  ASSUME IInv, PostLost
  PROVE  PromiseStep
<1> USE DEF PostLost, threads, shared, TypeOK, QueueTypeOK, JobsOwned
<1>1. ASSUME NEW s \in Requests PROVE WorkOf(s)' = WorkOf(s)
  BY DEF WorkOf
<1>2. CASE posts' = posts
  <2>1. ASSUME NEW s \in Requests PROVE OfferOf(s)' = OfferOf(s)
    BY <1>2 DEF OfferOf
  <2> QED
    BY <1>1, <2>1, Hidden
<1>3. CASE posts' = {p \in posts : p.job # cur} /\ posts' # posts
  <2>1. PICK p \in posts : p.job = cur
    BY <1>3
  <2>2. ASSUME NEW s \in Requests, job[s] # cur PROVE OfferOf(s)' = OfferOf(s)
    BY <1>3, <2>2 DEF OfferOf
  <2>3. ASSUME NEW r \in Requests, job[r] = cur PROVE OfferOf(r)' = {}
    BY <1>3, <2>1, <2>3 DEF OfferOf, RunOnce, NoResult, Owner, Served
  <2>4. CASE \A s \in Requests : job[s] # cur
    BY <1>1, <2>2, <2>4, Hidden
  <2>5. ASSUME NEW r \in Requests, job[r] = cur PROVE PromiseStep
    <3>1. \A s \in Requests : s # r => job[s] # cur
      BY <2>1, <2>5
    <3> QED
      BY <1>1, <2>2, <2>3, <2>5, <3>1, OfferGoes
  <2> QED
    BY <2>4, <2>5
<1> QED
  BY <1>2, <1>3

LEMMA CrashMaps ==
  ASSUME IInv, Crash
  PROVE  PromiseStep
<1> USE DEF Crash, threads, shared, TypeOK, QueueTypeOK, JobsOwned
<1>1. ASSUME NEW s \in Requests PROVE OfferOf(s)' = OfferOf(s)
  BY DEF OfferOf
<1>2. ASSUME NEW s \in Requests, ~(pc = "run" /\ job[s] = cur) PROVE WorkOf(s)' = WorkOf(s)
  BY <1>2 DEF WorkOf
<1>3. CASE \A s \in Requests : ~(pc = "run" /\ job[s] = cur)
  BY <1>1, <1>2, <1>3, Hidden
<1>4. ASSUME NEW r \in Requests, pc = "run", job[r] = cur PROVE PromiseStep
  <2>1. WorkOf(r) = "running" /\ WorkOf(r)' = "over"
    BY <1>4 DEF WorkOf, RunOnce
  <2>2. \A s \in Requests : s # r => job[s] # cur
    BY <1>4 DEF RunOnce
  <2>3. \A s \in Requests : WorkOf(s)' = IF s = r THEN "over" ELSE WorkOf(s)
    BY <1>2, <2>1, <2>2
  <2>4. answer' = answer
    OBVIOUS
  <2> HIDE DEF Crash, TypeOK, QueueTypeOK, JobsOwned
  <2> QED
    BY <1>1, <2>1, <2>3, <2>4, WorkMoves
<1> QED
  BY <1>3, <1>4

LEMMA WorkerHidden ==
  ASSUME IInv, Sweep \/ Reply \/ \E j \in signals : SetEvent(j)
  PROVE  PromiseStep
<1>1. UNCHANGED <<phase, job, reply, answer, results, posts>>
  BY DEF Sweep, Reply, SetEvent, threads, shared
<1>2. ASSUME NEW s \in Requests PROVE OfferOf(s)' = OfferOf(s)
  BY <1>1 DEF OfferOf
<1>3. CASE Sweep
  <2>1. ASSUME NEW s \in Requests PROVE WorkOf(s)' = WorkOf(s)
    BY <1>3 DEF Sweep, Close, InProgress, WorkOf, TypeOK, QueueTypeOK
  <2> QED
    BY <1>1, <1>2, <2>1, Hidden
<1>4. CASE Reply \/ \E j \in signals : SetEvent(j)
  <2>1. ASSUME NEW s \in Requests PROVE WorkOf(s)' = WorkOf(s)
    BY <1>4 DEF Reply, SetEvent, threads, WorkOf
  <2> QED
    BY <1>1, <1>2, <2>1, Hidden
<1> QED
  BY <1>3, <1>4

LEMMA RestartMaps ==
  ASSUME IInv, Restart
  PROVE  PromiseStep
<1> USE DEF Restart, Connected, TypeOK, QueueTypeOK
<1>1. ASSUME NEW s \in Requests PROVE WorkOf(s)' = WorkOf(s) /\ OfferOf(s)' = {}
  BY DEF WorkOf, OfferOf, JobsOwned
<1>2. Promise!Restart(Connected)
  BY <1>1 DEF Promise!Restart, Answered
<1> QED
  BY <1>2 DEF PromiseStep, Promise!Next

LEMMA NextMaps == IInv /\ [Next]_vars => PromiseStep
<1> SUFFICES ASSUME IInv, [Next]_vars PROVE PromiseStep
  OBVIOUS
<1>1. ASSUME NEW r \in Requests, Handler(r) \/ EnqueueFails(r) PROVE PromiseStep
  BY <1>1, HandlerHidden, EnqueueJobMaps, EnqueueFailsMaps, CollectMaps, RespondMaps
     DEF Handler
<1>2. CASE Worker \/ Poster
  BY <1>2, WorkerHidden, TakeMaps, RunMaps, StoreResultMaps DEF Worker, Poster
<1>3. CASE ClaimLost \/ PostLost \/ Crash \/ Restart
  BY <1>3, TakeMaps, PostLostMaps, CrashMaps, RestartMaps
<1>4. CASE UNCHANGED vars
  BY <1>4, Hidden DEF vars, threads, shared, WorkOf, OfferOf
<1> QED
  BY <1>1, <1>2, <1>3, <1>4 DEF Next

\* Threads, dictionaries and events implement the rendezvous: the work is done once
\* at most, its result reaches its own request or nobody, one answer each.
THEOREM Refinement == Spec => RendezvousSpec
BY InitMaps, NextMaps, Invariance, PTL
   DEF Spec, RendezvousSpec, Promise!Spec, PromiseStep
===============================================================================
