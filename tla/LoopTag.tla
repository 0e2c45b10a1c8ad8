-------------------------------- MODULE LoopTag --------------------------------
(***************************************************************************)
(* POST /v1/loops/tag: the handler thread saves the loop's clip, enqueues  *)
(* a loop_tag_v2 job, blocks on a threading.Event and returns what the     *)
(* worker posts to /v1/worker/loop_tag_result meanwhile.  Modelled at the  *)
(* grain at which those threads interleave: the commit of the job, the     *)
(* registration of the event, the store of the result and the set of the   *)
(* event are separate steps; what happens under _loop_tag_lock is one.     *)
(*                                                                         *)
(* All of them are plain functions, run by threads of one bounded pool:    *)
(* the handlers that wait and the worker's claims, sweeps and results,     *)
(* which end the waiting, compete for it.                                  *)
(*                                                                         *)
(* Only loop_tag_v2 jobs are in the table here; JobLifecycle has them      *)
(* among the others, with this rendezvous reduced to a clip that may       *)
(* disappear at any time.                                                  *)
(***************************************************************************)
EXTENDS JobQueue, FiniteSets

CONSTANTS
  Requests,     \* calls of POST /v1/loops/tag
  PoolSize,     \* threads of the service
  Faults,       \* subset of {"crash", "lost", "locked", "restart"}
  MaxFaults     \* bound on the faults of one behaviour

ASSUME LoopTagAssumption ==
  /\ IsFiniteSet(Requests) /\ Cardinality(Requests) <= MaxJobs
  /\ PoolSize \in Nat \ {0}
  /\ Faults \subseteq {"crash", "lost", "locked", "restart"}
  /\ MaxFaults \in Nat

VARIABLES
  phase,        \* phase[r]: where the thread of request r is
  job,          \* job[r]: its job_id, 0 before the INSERT
  clips,        \* requests whose loop_*.wav is on the scratch volume
  reply,        \* reply[r]: what the handler has popped from the dictionary
  answer,       \* answer[r]: what the Player got
  events,       \* keys of _loop_tag_events
  results,      \* _loop_tag_results
  isSet,        \* jobs whose threading.Event is set
  pc, cur,      \* the worker
  posts,        \* results on their way to the service
  signals,      \* loop_tag_result handlers between the lock and event.set()
  faults

threads == <<phase, job, clips, reply, answer>>
shared == <<events, results, isSet>>
vars == <<queue, threads, shared, pc, cur, posts, signals, faults>>

Outcomes == {"ok", "error"}
Owner(r, j) == j # 0 /\ job[r] = j

TypeOK ==
  /\ QueueTypeOK
  /\ phase \in [Requests -> {"queued", "saved", "enqueued", "waiting", "woken",
                             "expired", "collected", "answered"}]
  /\ job \in [Requests -> Jobs \cup {0}]
  /\ clips \subseteq Requests /\ events \subseteq Jobs /\ isSet \subseteq Jobs
  /\ results \in [Jobs -> Outcomes \cup {"none"}]
  /\ reply \in [Requests -> Outcomes \cup {"none", "timeout"}]
  /\ answer \in [Requests -> Outcomes \cup {"none", "timeout", "unavailable"}]
  /\ pc \in {"boot", "poll", "run", "reply"} /\ cur \in Jobs \cup {0}
  /\ posts \subseteq [job : Jobs, result : Outcomes] /\ signals \subseteq Jobs
  /\ faults \in 0..MaxFaults

Init ==
  /\ QueueInit
  /\ phase = [r \in Requests |-> "queued"] /\ job = [r \in Requests |-> 0]
  /\ clips = {} /\ events = {} /\ isSet = {}
  /\ results = [j \in Jobs |-> "none"]
  /\ reply = [r \in Requests |-> "none"] /\ answer = [r \in Requests |-> "none"]
  /\ pc = "boot" /\ cur = 0
  /\ posts = {} /\ signals = {} /\ faults = 0

Fault(f) == f \in Faults /\ faults < MaxFaults /\ faults' = faults + 1
Go(r, from, to) == phase[r] = from /\ phase' = [phase EXCEPT ![r] = to]

\* A handler keeps its thread from its first line to its answer, the wait included.
Connected == {r \in Requests : phase[r] \notin {"queued", "answered"}}
FreeThread == Cardinality(Connected) + Cardinality(signals) < PoolSize

-------------------------------------------------------------------------------
\* The handler thread of request r.  A queued request is at the Player, or waits
\* for a thread.

SaveClip(r) == /\ FreeThread /\ Go(r, "queued", "saved")
               /\ clips' = clips \cup {r}
               /\ UNCHANGED <<queue, job, reply, answer, shared,
                              pc, cur, posts, signals, faults>>

\* The job is committed, and visible to the worker, from here on.  In which order the
\* jobs are claimed does not matter here and is left open.
EnqueueJob(r) == /\ Go(r, "saved", "enqueued")
                 /\ \E j \in Jobs : Enqueue(j, 0) /\ job' = [job EXCEPT ![r] = j]
                 /\ UNCHANGED <<clips, reply, answer, shared,
                                pc, cur, posts, signals, faults>>

\* The INSERT finds the database locked: 500, and the clip stays behind.
EnqueueFails(r) == /\ Go(r, "saved", "answered")
                   /\ Fault("locked")
                   /\ answer' = [answer EXCEPT ![r] = "unavailable"]
                   /\ UNCHANGED <<queue, job, clips, reply, shared,
                                  pc, cur, posts, signals>>

Register(r) == /\ Go(r, "enqueued", "waiting")
               /\ events' = events \cup {job[r]}
               /\ UNCHANGED <<queue, job, clips, reply, answer, results, isSet,
                              pc, cur, posts, signals, faults>>

\* event.wait(timeout=timeout_s): with the event set, or when the time is up.
Waited(r, how) == /\ Go(r, "waiting", how)
                  /\ UNCHANGED <<queue, job, clips, reply, answer, shared,
                                 pc, cur, posts, signals, faults>>
Wake(r) == job[r] \in isSet /\ Waited(r, "woken")
NoTimeout(r) == FALSE /\ Waited(r, "expired")   \* event.wait() without timeout
Expire(r) == job[r] \notin isSet /\ Waited(r, "expired")

\* Both dictionaries are popped under the lock.
FoundAny(r) ==                              \* popitem() where the code has pop(job_id)
  IF phase[r] = "woken" /\ \E j \in Jobs : results[j] # "none"
  THEN results[CHOOSE j \in Jobs : results[j] # "none"] ELSE "timeout"
Found(r) == IF phase[r] = "woken" /\ results[job[r]] # "none"
            THEN results[job[r]] ELSE "timeout"
CollectKeeping(r) ==                        \* get() where the code has pop()
  /\ Go(r, "woken", "collected") \/ Go(r, "expired", "collected")
  /\ reply' = [reply EXCEPT ![r] = Found(r)]
  /\ events' = events \ {job[r]}
  /\ UNCHANGED <<queue, job, clips, answer, results, isSet,
                 pc, cur, posts, signals, faults>>
Collect(r) ==
  /\ Go(r, "woken", "collected") \/ Go(r, "expired", "collected")
  /\ reply' = [reply EXCEPT ![r] = Found(r)]
  /\ results' = [results EXCEPT ![job[r]] = "none"]
  /\ events' = events \ {job[r]}
  /\ UNCHANGED <<queue, job, clips, answer, isSet, pc, cur, posts, signals, faults>>

Respond(r) == /\ Go(r, "collected", "answered")
              /\ answer' = [answer EXCEPT ![r] = reply[r]]
              /\ clips' = clips \ {r}
              /\ UNCHANGED <<queue, job, reply, shared, pc, cur, posts, signals, faults>>

Handler(r) == \/ SaveClip(r) \/ EnqueueJob(r) \/ Register(r)
              \/ Wake(r) \/ Expire(r) \/ Collect(r) \/ Respond(r)

-------------------------------------------------------------------------------
\* The worker (_process_loop_tag_v2) and the threads that serve its requests.

\* A clip that is gone means track_failed, which nobody here listens to.
Take == /\ pc = "poll" /\ FreeThread
        /\ \E j \in Jobs :
             /\ Claim(j)
             /\ IF \E r \in clips : Owner(r, j) THEN pc' = "run" /\ cur' = j
                ELSE UNCHANGED <<pc, cur>>
        /\ UNCHANGED <<threads, shared, posts, signals, faults>>

\* The worker's client gives up on GET /v1/worker/next after 30 s, for want of a
\* thread or because the answer is lost; the claim is executed for nobody.
ClaimLost == /\ pc = "poll" /\ FreeThread
             /\ Fault("lost")
             /\ \E j \in Jobs : Claim(j)
             /\ UNCHANGED <<threads, shared, pc, cur, posts, signals>>

\* Embedding succeeds or raises; the outcome is posted either way.
Run == /\ pc = "run"
       /\ \E x \in Outcomes : posts' = posts \cup {[job |-> cur, result |-> x]}
       /\ pc' = "reply"
       /\ UNCHANGED <<queue, threads, shared, cur, signals, faults>>

Reply == /\ pc = "reply"
         /\ cur \notin signals /\ \A p \in posts : p.job # cur
         /\ pc' = "poll" /\ cur' = 0
         /\ UNCHANGED <<queue, threads, shared, posts, signals, faults>>

SignalFirst(p) ==                               \* event.set() before the store
  /\ FreeThread
  /\ posts' = posts \ {p}
  /\ isSet' = IF p.job \in events THEN isSet \cup {p.job} ELSE isSet
  /\ signals' = signals \cup {p.job}
  /\ UNCHANGED <<queue, threads, events, results, pc, cur, faults>>
StoreResult(p) ==
  /\ FreeThread
  /\ posts' = posts \ {p}
  /\ results' = [results EXCEPT ![p.job] = p.result]
  /\ signals' = IF p.job \in events THEN signals \cup {p.job} ELSE signals
  /\ UNCHANGED <<queue, threads, events, isSet, pc, cur, faults>>

SetEvent(j) == /\ isSet' = isSet \cup {j}
               /\ signals' = signals \ {j}
               /\ UNCHANGED <<queue, threads, events, results, pc, cur, posts, faults>>

\* The worker's client times out, or the POST never arrives; post_result logs the
\* exception and the worker goes on.
PostLost == /\ pc = "reply"
            /\ Fault("lost")
            /\ posts' = posts \/ posts' = {p \in posts : p.job # cur}
            /\ pc' = "poll" /\ cur' = 0
            /\ UNCHANGED <<queue, threads, shared, signals>>

Crash == /\ Fault("crash")
         /\ pc' = "boot" /\ cur' = 0
         /\ UNCHANGED <<queue, threads, shared, posts, signals>>

\* loop_tag_v2 rows are never closed, so the sweep finds every one ever taken.
SweepAllClips ==                                \* deletes the clips of all jobs
  /\ pc = "boot" /\ FreeThread
  /\ Close(InProgress, "failed")
  /\ clips' = {}
  /\ pc' = "poll"
  /\ UNCHANGED <<phase, job, reply, answer, shared, cur, posts, signals, faults>>
Sweep == /\ pc = "boot" /\ FreeThread
         /\ Close(InProgress, "failed")
         /\ clips' = {r \in clips : job[r] \notin InProgress}
         /\ pc' = "poll"
         /\ UNCHANGED <<phase, job, reply, answer, shared, cur, posts, signals, faults>>

\* The service dies and comes back: the table and the scratch volume survive, the
\* dictionaries and the connections do not.
Restart == /\ Fault("restart")
           /\ phase' = [r \in Requests |-> IF r \in Connected THEN "answered" ELSE phase[r]]
           /\ answer' = [r \in Requests |-> IF r \in Connected THEN "unavailable"
                                            ELSE answer[r]]
           /\ events' = {} /\ results' = [j \in Jobs |-> "none"] /\ isSet' = {}
           /\ posts' = {} /\ signals' = {}
           /\ UNCHANGED <<queue, job, clips, reply, pc, cur>>

Worker == Sweep \/ Take \/ Run \/ Reply
Poster == \/ \E p \in posts : StoreResult(p)
          \/ \E j \in signals : SetEvent(j)

Next == \/ \E r \in Requests : Handler(r) \/ EnqueueFails(r)
        \/ Worker \/ Poster \/ ClaimLost \/ PostLost \/ Crash \/ Restart

Spec == Init /\ [][Next]_vars

\* The threads of the service are scheduled, and event.wait has a timeout: nothing
\* is asked of the worker.
FairSpec == Spec /\ WF_vars(Poster) /\ \A r \in Requests : WF_vars(Handler(r))

-------------------------------------------------------------------------------
\* A thread that wakes up because its event is set finds its result in the
\* dictionary: loop_tag_result stores before it signals.
NoEmptyWake == \A r \in Requests : phase[r] = "woken" => results[job[r]] # "none"

\* The dictionary grows only by answers that came after their request's timeout:
\* once a request is answered, its entry is gone, or it was answered 504.
ResultsDrained == \A r \in Requests : answer[r] \in Outcomes => results[job[r]] = "none"

\* Until its request is over, a queued job finds its clip, whoever else is done,
\* swept or restarted.
ClipKept == \A r \in Requests : phase[r] \in {"enqueued", "waiting"}
                                  /\ status[job[r]] = "pending" => r \in clips

\* Every request is answered, whatever becomes of the worker, and those that wait
\* for a thread get one: that is what the timeout is for.
EveryRequestAnswered ==
  \A r \in Requests : phase[r] = "queued" ~> phase[r] = "answered"

\* Handlers that wait can occupy every thread, those included that would deliver
\* what they wait for; still each result posted reaches the dictionary in the end.
ResultsGetThrough ==
  \A j \in Jobs : (\E p \in posts : p.job = j) ~> (\A p \in posts : p.job # j)

-------------------------------------------------------------------------------
\* How far the worker is with the job of a request.
WorkOf(r) == IF job[r] = 0 THEN "none"
             ELSE IF pc = "run" /\ cur = job[r] THEN "running"
             ELSE IF status[job[r]] = "pending" THEN "asked" ELSE "over"

\* The result of a request on its way: posted, in the dictionary, or popped.
OfferOf(r) ==
  {x \in Outcomes : \/ phase[r] = "collected" /\ reply[r] = x
                    \/ [job |-> job[r], result |-> x] \in posts
                    \/ job[r] # 0 /\ results[job[r]] = x}

Promise == INSTANCE Rendezvous WITH
  work <- [r \in Requests |-> WorkOf(r)],
  offer <- [r \in Requests |-> OfferOf(r)]

\* Threads, dictionaries, events and scratch files implement the rendezvous: one
\* run per request, its own result or a timeout, one answer.
RendezvousSpec == Promise!Spec
===============================================================================
