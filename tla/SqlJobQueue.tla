------------------------------ MODULE SqlJobQueue ------------------------------
(***************************************************************************)
(* The job table at the grain at which handler threads of the service      *)
(* interleave: one action per SQL statement that can see or change another *)
(* thread's rows, and one for the reading of the clock before an INSERT.   *)
(* Python's sqlite3 opens a transaction only at the first INSERT or        *)
(* UPDATE, so the SELECT of claim_next and the SELECT of the orphan sweep  *)
(* run outside the transaction of the UPDATE that follows.  Pollers are    *)
(* threads serving GET /v1/worker/next: more than one at once when a       *)
(* worker gave up on a slow answer or was restarted.                       *)
(*                                                                         *)
(* created_at has a resolution of one second.  The clock of the service is *)
(* taken to be monotone, and rows of the same second come out of the index *)
(* on (status, created_at) in rowid order.                                 *)
(***************************************************************************)
EXTENDS JobQueue, FiniteSets

CONSTANTS
  Pollers,    \* handler threads of GET /v1/worker/next
  Writers,    \* handler threads that create jobs
  MaxTime     \* bound: seconds the clock goes through

ASSUME ClockAssumption == MaxTime \in Nat \ {0}

VARIABLES
  now,        \* what now_iso() says, in seconds
  created,    \* created[j]: analyze_job.created_at
  stamp,      \* stamp[w]: the time w has read for its INSERT, 0 before it
  seen,       \* seen[w]: how many rows were there when it did
  pick,       \* pick[p]: the job p's SELECT returned, 0 before it
  handed,     \* handed[j]: how many 200 responses have carried job j
  sweeping,   \* a sweep_orphans handler is between its SELECT and its UPDATEs
  orphans     \* the rows that SELECT returned

writers == <<created, stamp, seen>>
sweep == <<sweeping, orphans>>
vars == <<queue, now, writers, pick, handed, sweep>>

Times == 0..MaxTime     \* seconds, 0 for none

TypeOK == /\ QueueTypeOK
          /\ now \in Times \ {0}
          /\ created \in [Jobs -> Times]
          /\ stamp \in [Writers -> Times]
          /\ seen \in [Writers -> 0..MaxJobs]
          /\ pick \in [Pollers -> Jobs \cup {0}]
          /\ handed \in [Jobs -> Nat]
          /\ sweeping \in BOOLEAN
          /\ orphans \subseteq Jobs

Init == /\ QueueInit
        /\ now = 1
        /\ created = [j \in Jobs |-> 0]
        /\ stamp = [w \in Writers |-> 0] /\ seen = [w \in Writers |-> 0]
        /\ pick = [p \in Pollers |-> 0]
        /\ handed = [j \in Jobs |-> 0]
        /\ sweeping = FALSE
        /\ orphans = {}

-------------------------------------------------------------------------------
Tick == /\ now < MaxTime
        /\ now' = now + 1
        /\ UNCHANGED <<queue, writers, pick, handed, sweep>>

\* POST /v1/analyze and the two tag endpoints: now_iso() is evaluated for the
\* INSERT, which then waits for the write lock.
Stamp(w) == /\ stamp[w] = 0
            /\ stamp' = [stamp EXCEPT ![w] = now]
            /\ seen' = [seen EXCEPT ![w] = Cardinality({j \in Jobs : status[j] # "absent"})]
            /\ UNCHANGED <<queue, now, created, pick, handed, sweep>>

WriteOver(w) == /\ stamp' = [stamp EXCEPT ![w] = 0]
                /\ seen' = [seen EXCEPT ![w] = 0]

Insert(w) == /\ stamp[w] # 0
             /\ \E j \in Jobs : /\ Enqueue(j, seen[w])
                                /\ created' = [created EXCEPT ![j] = stamp[w]]
             /\ WriteOver(w)
             /\ UNCHANGED <<now, pick, handed, sweep>>

\* The lock was not to be had within the busy timeout: status 500.
InsertFails(w) == /\ stamp[w] # 0
                  /\ WriteOver(w)
                  /\ UNCHANGED <<queue, now, created, pick, handed, sweep>>

\* The order of the index: created_at, then rowid.
Older(i, j) == \/ created[i] < created[j]
               \/ created[i] = created[j] /\ i < j

\* ORDER BY created_at DESC, a plausible slip in claim_next.
NewestSelect(p) == /\ pick[p] = 0
                   /\ \E j \in Jobs :
                        /\ status[j] = "pending"
                        /\ \A i \in Jobs \ {j} : status[i] = "pending" => Older(i, j)
                        /\ pick' = [pick EXCEPT ![p] = j]
                   /\ UNCHANGED <<queue, now, writers, handed, sweep>>

Select(p) == /\ pick[p] = 0
             /\ \E j \in Jobs :
                  /\ status[j] = "pending"
                  /\ \A i \in Jobs \ {j} : status[i] = "pending" => Older(j, i)
                  /\ pick' = [pick EXCEPT ![p] = j]
             /\ UNCHANGED <<queue, now, writers, handed, sweep>>

HandOver(p) == /\ status' = [status EXCEPT ![pick[p]] = "in_progress"]
               /\ handed' = [handed EXCEPT ![pick[p]] = @ + 1]
               /\ pick' = [pick EXCEPT ![p] = 0]
               /\ UNCHANGED <<ahead, now, writers, sweep>>

\* claim_next without AND status='pending' in its UPDATE.
UnguardedUpdate(p) == pick[p] # 0 /\ HandOver(p)

\* UPDATE ... WHERE job_id=? AND status='pending': takes effect when the row is
\* still pending, and only then is the job in the response.
Update(p) == pick[p] # 0 /\ status[pick[p]] = "pending" /\ HandOver(p)

\* rowcount 0, another poller was faster: 204.  Or the write lock was not to be
\* had within the busy timeout: the exception ends the request with a 500.
GiveUp(p) == /\ pick[p] # 0
             /\ pick' = [pick EXCEPT ![p] = 0]
             /\ UNCHANGED <<queue, now, writers, handed, sweep>>

\* POST /v1/worker/result with final=true.  Workers know only the ids they were
\* handed; mark_done does not look at the row's status.
Result(j) == /\ handed[j] > 0
             /\ MarkDone(j)
             /\ UNCHANGED <<now, writers, pick, handed, sweep>>

SweepSelect == /\ ~sweeping
               /\ sweeping' = TRUE
               /\ orphans' = InProgress
               /\ UNCHANGED <<queue, now, writers, pick, handed>>

SweepOver == sweeping /\ sweeping' = FALSE /\ orphans' = {}

\* The UPDATEs of all orphans, committed together; none of them looks at the
\* status the row has by now.
SweepCommit == /\ SweepOver
               /\ Close(orphans, "failed")
               /\ UNCHANGED <<now, writers, pick, handed>>

\* Rolled back: the write lock was busy for too long.
SweepAbort == SweepOver /\ UNCHANGED <<queue, now, writers, pick, handed>>

Next == \/ Tick
        \/ \E w \in Writers : Stamp(w) \/ Insert(w) \/ InsertFails(w)
        \/ \E p \in Pollers : Select(p) \/ Update(p) \/ GiveUp(p)
        \/ \E j \in Jobs : Result(j)
        \/ SweepSelect \/ SweepCommit \/ SweepAbort

Spec == Init /\ [][Next]_vars

-------------------------------------------------------------------------------
\* No job is handed to two workers and none is marked in_progress without being
\* handed to one, although claim_next is a SELECT and an UPDATE apart ("Atomically
\* claim the oldest pending job", jobs.py).
ClaimExact == \A j \in Jobs : handed[j] = IF j \in HandedOut THEN 1 ELSE 0

\* QueueSpec, inherited from JobQueue, is the refinement: statement by statement
\* the table is still the abstract queue, each job handed out once, closed only
\* afterwards, and never before one that was there when its request came.
===============================================================================
