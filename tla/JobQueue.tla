------------------------------- MODULE JobQueue -------------------------------
(***************************************************************************)
(* What the table analyze_job promises its users: each job is handed out   *)
(* once, closed only afterwards, and not before a job that was already in  *)
(* the table when its own request came.  This is the abstract              *)
(* specification that SqlJobQueue (one action per SQL statement)           *)
(* implements, and its operators are the queue operations of the modules   *)
(* in which a request is one action.                                       *)
(*                                                                         *)
(* claim_next orders by created_at, which the request reads from the clock *)
(* before its INSERT gets the write lock; the id (INTEGER PRIMARY KEY      *)
(* AUTOINCREMENT) comes with the INSERT.  So the order of two requests     *)
(* that overlap is open.  What is kept is the order of requests that do    *)
(* not: since ids are given out by one writer at a time, the rows that are *)
(* there when j's request reads the clock are those up to an id ahead[j].  *)
(***************************************************************************)
EXTENDS Naturals

CONSTANT MaxJobs        \* bound: how many rows are ever inserted

ASSUME MaxJobsAssumption == MaxJobs \in Nat \ {0}

VARIABLES
  status,               \* analyze_job.status, "absent" before the INSERT
  ahead                 \* rows 1..ahead[j] (at least) were there when j's request
                        \* read the clock

queue == <<status, ahead>>

Jobs == 1..MaxJobs
Status == {"absent", "pending", "in_progress", "done", "failed"}

QueueTypeOK == /\ status \in [Jobs -> Status]
               /\ ahead \in [Jobs -> 0..MaxJobs]

HandedOut == {j \in Jobs : status[j] \notin {"absent", "pending"}}
InProgress == {j \in Jobs : status[j] = "in_progress"}

-------------------------------------------------------------------------------
\* AUTOINCREMENT: the next row gets the smallest id never used.
NextId(j) == /\ status[j] = "absent"
             /\ \A i \in Jobs : i < j => status[i] # "absent"

\* SELECT ... WHERE status='pending' ORDER BY created_at ASC LIMIT 1
OldestPending(j) == /\ status[j] = "pending"
                    /\ 1..ahead[j] \subseteq HandedOut

\* Rows 1..n were there when the request for j read the clock.
Enqueue(j, n) == /\ NextId(j) /\ n < j
                 /\ status' = [status EXCEPT ![j] = "pending"]
                 /\ ahead' = [ahead EXCEPT ![j] = n]

ClaimRunning(j) == /\ OldestPending(j)
                   /\ status' = [status EXCEPT ![j] = "running"]
                   /\ UNCHANGED ahead
Claim(j) == /\ OldestPending(j)
            /\ status' = [status EXCEPT ![j] = "in_progress"]
            /\ UNCHANGED ahead

\* The UPDATEs that close jobs look at nothing but the job id.
Close(S, verdict) ==
  /\ status' = [j \in Jobs |-> IF j \in S THEN verdict ELSE status[j]]
  /\ UNCHANGED ahead

MarkComplete(j) == Close({j}, "complete")
MarkDone(j) == Close({j}, "done")

-------------------------------------------------------------------------------
QueueInit == status = [j \in Jobs |-> "absent"] /\ ahead = [j \in Jobs |-> 0]

QueueNext == \/ \E j \in Jobs : Claim(j) \/ \E n \in 0..MaxJobs : Enqueue(j, n)
             \/ \E j \in HandedOut : MarkDone(j)
             \/ \E S \in SUBSET HandedOut : Close(S, "failed")

QueueSpec == QueueInit /\ [][QueueNext]_queue

\* No overtaking: a job is handed out only after all that were in the table
\* before its request read the clock, whatever became of those (claim_next,
\* enqueue, jobs.py).
OrderKept == \A j \in HandedOut : 1..ahead[j] \subseteq HandedOut
===============================================================================
