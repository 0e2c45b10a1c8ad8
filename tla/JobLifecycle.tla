------------------------------ MODULE JobLifecycle ------------------------------
(***************************************************************************)
(* A job from the request that creates it to the event that ends it: the   *)
(* service (server.py), the one worker (worker/main.py), the job table and *)
(* the scratch volume /srv/audio they share, and the Player, which waits   *)
(* for a terminal event for every track it uploaded.                       *)
(*                                                                         *)
(* One action is one HTTP request with its handler, or one local step of   *)
(* the worker; only the sweep, whose UPDATEs trust a SELECT outside their  *)
(* transaction, is two.  The table is that of JobQueue: SqlJobQueue shows  *)
(* that the handlers' statements implement its operations.  What a handler *)
(* does to the content rows is in ContentIdentity, the per-loop rendezvous *)
(* of POST /v1/loops/tag in LoopTag.                                       *)
(*                                                                         *)
(* Faults, each of them optional and MaxFaults of them in one behaviour:   *)
(*   "crash"      the worker dies and is restarted (compose.yml);          *)
(*   "transport"  a request or its answer is lost: httpx raises HTTPError; *)
(*   "reject"     the handler fails (database is locked): status 500.      *)
(* A result or an event whose sender gave up or died may still be executed *)
(* later, and a sweep go on.  With a fourth kind, "late_call", a claim or  *)
(* a sweep may even begin later: their handlers queue for a thread of the  *)
(* pool that blocked POST /v1/loops/tag handlers occupy.                   *)
(***************************************************************************)
EXTENDS JobQueue, FiniteSets

CONSTANTS
  Tracks,         \* host paths the Player uploads
  NoTrack,        \* what a loop clip's job has for one: its host_path is a hash
  NStages,        \* registered worker stages (structure, key, loop_propose)
  MaxSweepTries,  \* attempts of the boot sweep
  Faults,         \* the kinds of fault this instance has
  MaxFaults       \* bound on the faults of one behaviour

ASSUME LifecycleAssumption ==
  /\ NoTrack \notin Tracks
  /\ NStages \in Nat \ {0}
  /\ MaxSweepTries \in Nat \ {0}
  /\ Faults \subseteq {"crash", "transport", "reject", "late_call"}
  /\ MaxFaults \in Nat

Stages == 0..(NStages - 1)
Kinds == {"analyze", "tag", "loop"}     \* "loop" is loop_tag_v2
Verdicts == {"done", "failed"}          \* analyzer.track_done, .track_failed
None == 0                               \* no job; the audio_path "" of a tag job

VARIABLES
  kind, track,    \* per job: its kind and the track whose host_path it carries
  source,         \* source[j]: the job whose upload audio_path names, or None
  files,          \* jobs whose own upload is still on the scratch volume
  analyzed,       \* tracks whose content row has analyzer cues
  stored,         \* stored[j]: stages whose results were written
  told,           \* told[j]: terminal events published for j so far
  waiting,        \* tracks the Player waits for
  pc, cur, stage, \* the worker: where it is, its job, the index of its stage
  tries,          \* boot sweeps attempted
  orphans,        \* the rows the sweep it waits for has selected, and those of
  untold,         \* them whose event that has not published yet
  lateResults,    \* POSTs of the worker nobody waits for any more, and which
  lateVerdicts,   \* the service may still execute;
  lateSweeps,     \* sweeps that are between their SELECT and their UPDATEs;
  lateCalls,      \* claims and sweeps still to begin; "done" when one of them has
  faults          \* how many faults so far

jobVars == <<kind, track, source>>
effects == <<files, analyzed, stored, told, waiting>>
sweep == <<orphans, untold>>
worker == <<pc, cur, stage, tries, sweep>>
late == <<lateResults, lateVerdicts, lateSweeps, lateCalls>>
vars == <<queue, jobVars, effects, worker, late, faults>>

PC == {"boot", "sweep", "poll", "announce", "compute", "report", "fail", "notify",
       "cleanup", "tag", "tag_report", "loop"}

TypeOK ==
  /\ QueueTypeOK
  /\ kind \in [Jobs -> Kinds] /\ track \in [Jobs -> Tracks \cup {NoTrack}]
  /\ source \in [Jobs -> Jobs \cup {None}]
  /\ files \subseteq Jobs /\ analyzed \subseteq Tracks
  /\ stored \in [Jobs -> SUBSET Stages]
  /\ told \in [Jobs -> SUBSET Verdicts]
  /\ waiting \subseteq Tracks
  /\ pc \in PC /\ cur \in Jobs \cup {None} /\ stage \in Stages
  /\ tries \in 0..MaxSweepTries
  /\ orphans \subseteq Jobs /\ untold \subseteq Jobs
  /\ lateResults \subseteq [job : Jobs, stage : Stages]
  /\ lateVerdicts \subseteq [job : Jobs, verdict : Verdicts]
  /\ lateSweeps \subseteq [rows : SUBSET Jobs, untold : SUBSET Jobs]
  /\ lateCalls \subseteq {"claim", "sweep", "done"}
  /\ faults \in 0..MaxFaults

Init ==
  /\ QueueInit
  /\ kind = [j \in Jobs |-> "analyze"] /\ track = [j \in Jobs |-> NoTrack]
  /\ source = [j \in Jobs |-> None]
  /\ files = {} /\ analyzed = {} /\ waiting = {}
  /\ stored = [j \in Jobs |-> {}] /\ told = [j \in Jobs |-> {}]
  /\ pc = "boot" /\ cur = None /\ stage = 0 /\ tries = 0
  /\ orphans = {} /\ untold = {}
  /\ lateResults = {} /\ lateVerdicts = {} /\ lateSweeps = {} /\ lateCalls = {}
  /\ faults = 0

-------------------------------------------------------------------------------
\* What the handlers of the service do.

\* Of the order of the queue only what matters here is kept: a tag job comes behind
\* the upload its handler has found.  Others come in any order.
NewJob(j, k, t, s) == /\ Enqueue(j, IF k = "tag" THEN s ELSE 0)
                      /\ kind' = [kind EXCEPT ![j] = k]
                      /\ track' = [track EXCEPT ![j] = t]
                      /\ source' = [source EXCEPT ![j] = s]

\* Terminal events for the jobs S.  They carry the host_path, and that is what
\* the Player matches against the tracks it waits for.
Tell(S, verdict) ==
  /\ told' = [j \in Jobs |-> IF j \in S THEN told[j] \cup {verdict} ELSE told[j]]
  /\ waiting' = waiting \ {track[j] : j \in S}

\* POST /v1/worker/result.  The cues come with the last stage, loop_propose, and
\* it may have found none; a tag job has a single result, its final one.
Store(j, k) ==
  /\ stored' = [stored EXCEPT ![j] = @ \cup {k}]
  /\ IF kind[j] = "tag" \/ k = NStages - 1 THEN MarkDone(j) ELSE UNCHANGED queue
  /\ \/ UNCHANGED analyzed
     \/ /\ kind[j] = "analyze" /\ k = NStages - 1
        /\ analyzed' = analyzed \cup {track[j]}

TellNobody(S) == UNCHANGED <<told, waiting>>
TellOrphans(S) == Tell(S, "failed")

\* POST /v1/worker/sweep_orphans after its SELECT of the rows S and the first of its
\* events: from the first UPDATE on it holds the write lock, so that its UPDATEs,
\* by job_id, and the other events come at once.
SweepRows(S, U) == /\ Close(S, "failed")
                   /\ TellOrphans(U)
                   /\ files' = files \ {source[j] : j \in S}
                   /\ UNCHANGED <<analyzed, stored>>

-------------------------------------------------------------------------------
\* The Player's requests.

Uploads(t) == {j \in Jobs : kind[j] = "analyze" /\ track[j] = t}

CachedSilently(t) ==                        \* without the track_done event
  /\ t \in analyzed
  /\ waiting' = waiting \cup {t}
  /\ UNCHANGED <<queue, jobVars, files, analyzed, stored, told, worker, late, faults>>
\* POST /v1/analyze for a track whose content row has analyzer cues: the upload
\* is dropped again and track_done published at once.
UploadCached(t) == /\ t \in analyzed
                   /\ waiting' = waiting \ {t}
                   /\ UNCHANGED <<queue, jobVars, files, analyzed, stored, told,
                                  worker, late, faults>>

\* POST /v1/analyze, no cues yet or force.
UploadEnqueued(t) == /\ \E j \in Jobs : /\ NewJob(j, "analyze", t, j)
                                       /\ files' = files \cup {j}
                     /\ waiting' = waiting \cup {t}
                     /\ UNCHANGED <<analyzed, stored, told, worker, late, faults>>

\* POST /v1/tracks/{id}/loops/tag: reads the audio_path of the latest upload of
\* the track, "" when there is none yet (its row was made by the CLI).  Which one is
\* the latest is left open: some are of one second, and others may come between the
\* SELECT and the INSERT.
TagRequest(t) ==
  /\ \E j \in Jobs, s \in Uploads(t) \cup {None} : NewJob(j, "tag", t, s)
  /\ UNCHANGED <<effects, worker, late, faults>>

\* POST /v1/loops/tag saves the clip and enqueues; when its wait is over, with
\* or without a result, it removes the clip, whatever the worker is doing.
ClipRequest == /\ \E j \in Jobs : /\ NewJob(j, "loop", NoTrack, j)
                                  /\ files' = files \cup {j}
               /\ UNCHANGED <<analyzed, stored, told, waiting, worker, late, faults>>

ClipDropped(j) == /\ kind[j] = "loop" /\ j \in files
                  /\ files' = files \ {j}
                  /\ UNCHANGED <<queue, jobVars, analyzed, stored, told, waiting,
                                 worker, late, faults>>

-------------------------------------------------------------------------------
\* The worker.

Goto(p) == pc' = p /\ UNCHANGED <<cur, stage, tries, sweep>>
Dropped == cur' = None /\ stage' = 0 /\ orphans' = {} /\ untold' = {}
Idle == pc' = "poll" /\ tries' = 0 /\ Dropped

FirstStep(j) == IF source[j] # None /\ source[j] \notin files THEN "fail"
                ELSE [analyze |-> "announce", tag |-> "tag", loop |-> "loop"][kind[j]]

\* The boot sweep: its SELECT, and the event for the first row of it, if any.
SweepSelect ==
  /\ pc = "boot"
  /\ \/ InProgress = {} /\ Idle /\ UNCHANGED <<told, waiting>>
     \/ \E j \in InProgress : /\ TellOrphans({j})
                              /\ orphans' = InProgress /\ untold' = InProgress \ {j}
                              /\ pc' = "sweep" /\ UNCHANGED <<cur, stage, tries>>
  /\ UNCHANGED <<queue, jobVars, files, analyzed, stored, late, faults>>

SweepCommit == /\ pc = "sweep"
               /\ SweepRows(orphans, untold)
               /\ Idle
               /\ UNCHANGED <<jobVars, late, faults>>

Take == /\ pc = "poll"
        /\ \E j \in Jobs : Claim(j) /\ cur' = j /\ pc' = FirstStep(j)
        /\ UNCHANGED <<jobVars, effects, stage, tries, sweep, late, faults>>

Announce == /\ pc = "announce"
            /\ Goto("compute")
            /\ UNCHANGED <<queue, jobVars, effects, late, faults>>

\* The stage returns, or raises: bad audio, no memory, or its progress callback
\* could not reach the service.
Compute == /\ pc = "compute"
           /\ Goto("report") \/ Goto("fail")
           /\ UNCHANGED <<queue, jobVars, effects, late, faults>>

Report == /\ pc = "report"
          /\ Store(cur, stage)
          /\ IF stage = NStages - 1 THEN Goto("notify")
             ELSE pc' = "announce" /\ stage' = stage + 1
                                     /\ UNCHANGED <<cur, tries, sweep>>
          /\ UNCHANGED <<jobVars, files, told, waiting, late, faults>>

Notify == /\ pc = "notify"
          /\ Tell({cur}, "done")
          /\ IF kind[cur] = "analyze" THEN Goto("cleanup") ELSE Idle
          /\ UNCHANGED <<queue, jobVars, files, analyzed, stored, late, faults>>

CleanupTrack ==                             \* every upload of the track
  /\ pc = "cleanup"
  /\ files' = files \ Uploads(track[cur])
  /\ Idle
  /\ UNCHANGED <<queue, jobVars, analyzed, stored, told, waiting, late, faults>>
Cleanup == /\ pc = "cleanup"
           /\ files' = files \ {source[cur]}
           /\ Idle
           /\ UNCHANGED <<queue, jobVars, analyzed, stored, told, waiting, late, faults>>

FailAndGoOn ==                              \* without the return
  /\ pc = "fail"
  /\ Tell({cur}, "failed")
  /\ Goto("notify")
  /\ UNCHANGED <<queue, jobVars, files, analyzed, stored, late, faults>>
\* track_failed, and on to the next job: the row stays in_progress and the
\* upload on the volume.
Fail == /\ pc = "fail"
        /\ Tell({cur}, "failed")
        /\ Idle
        /\ UNCHANGED <<queue, jobVars, files, analyzed, stored, late, faults>>

\* A tag job without cue ids is closed at once and announced to nobody.
TagBlank == /\ pc = "tag"
            /\ Store(cur, stage)
            /\ Idle
            /\ UNCHANGED <<jobVars, files, told, waiting, late, faults>>

\* Fetching the cues and embedding them: either may fail.
TagCompute == /\ pc = "tag"
              /\ Goto("tag_report") \/ Goto("fail")
              /\ UNCHANGED <<queue, jobVars, effects, late, faults>>

TagReport == /\ pc = "tag_report"
             /\ Store(cur, stage)
             /\ Goto("notify")
             /\ UNCHANGED <<jobVars, files, told, waiting, late, faults>>

\* A loop clip is answered through loop_tag_result (LoopTag); its row is never
\* closed.
LoopRun == /\ pc = "loop"
           /\ Idle
           /\ UNCHANGED <<queue, jobVars, effects, late, faults>>

WorkerStep == \/ SweepSelect \/ SweepCommit \/ Take
              \/ Announce \/ Compute \/ Report \/ Notify \/ Cleanup \/ Fail
              \/ TagBlank \/ TagCompute \/ TagReport \/ LoopRun

-------------------------------------------------------------------------------
\* Faults.

Fault(f) == f \in Faults /\ faults < MaxFaults /\ faults' = faults + 1

LeaveResult == /\ lateResults' = lateResults \cup {[job |-> cur, stage |-> stage]}
               /\ UNCHANGED <<lateVerdicts, lateSweeps, lateCalls>>
LeaveVerdict(v) == /\ lateVerdicts' = lateVerdicts \cup {[job |-> cur, verdict |-> v]}
                   /\ UNCHANGED <<lateResults, lateSweeps, lateCalls>>
LeaveSweep == /\ lateSweeps' = lateSweeps \cup {[rows |-> orphans, untold |-> untold]}
              /\ UNCHANGED <<lateResults, lateVerdicts, lateCalls>>
LeaveCall(c) == /\ "late_call" \in Faults
                /\ lateCalls' = lateCalls \cup {c}
                /\ UNCHANGED <<lateResults, lateVerdicts, lateSweeps>>

\* What the worker had on the wire when its patience or its life ended.
LeaveRequest == \/ pc \in {"report", "tag", "tag_report"} /\ LeaveResult
                \/ pc = "fail" /\ LeaveVerdict("failed")
                \/ pc = "notify" /\ LeaveVerdict("done")
                \/ pc = "poll" /\ LeaveCall("claim")
                \/ pc = "boot" /\ LeaveCall("sweep")
                \/ pc = "sweep" /\ LeaveSweep

\* HTTPError out of process_job is caught by the poll loop: the job is
\* abandoned as it stands.
Abandon == /\ pc \in {"announce", "report", "fail", "notify", "tag", "tag_report"}
           /\ Fault("transport")
           /\ LeaveRequest \/ UNCHANGED late
           /\ Idle
           /\ UNCHANGED <<queue, jobVars, effects>>

\* The answer to a claim is lost: the row says in_progress and no worker has it.
TakeLost == /\ pc = "poll"
            /\ Fault("transport")
            /\ \/ (\E j \in Jobs : Claim(j)) /\ UNCHANGED late
               \/ LeaveRequest /\ UNCHANGED queue
            /\ UNCHANGED <<jobVars, effects, worker>>

RejectIgnored ==                            \* without raise_for_status
  /\ pc = "report"
  /\ Fault("reject")
  /\ IF stage = NStages - 1 THEN Goto("notify")
     ELSE pc' = "announce" /\ stage' = stage + 1
                                     /\ UNCHANGED <<cur, tries, sweep>>
  /\ UNCHANGED <<queue, jobVars, effects, late>>
\* raise_for_status after the result of a stage.
ReportRejected == /\ pc = "report"
                  /\ Fault("reject")
                  /\ Idle
                  /\ UNCHANGED <<queue, jobVars, effects, late>>

\* The result of a tag job is posted without looking at the answer.
TagRejected == /\ Fault("reject")
               /\ \/ pc = "tag_report" /\ Goto("notify")
                  \/ pc = "tag" /\ Idle
               /\ UNCHANGED <<queue, jobVars, effects, late>>

\* No answer to the boot sweep: it never arrived, is still to begin or to end, or
\* has been carried out.
SweepUnanswered ==
  /\ Fault("transport")
  /\ \/ pc = "boot" /\ UNCHANGED <<queue, effects, late>>
     \/ pc \in {"boot", "sweep"} /\ LeaveRequest /\ UNCHANGED <<queue, effects>>
     \/ pc = "sweep" /\ SweepRows(orphans, untold) /\ UNCHANGED late
  /\ IF tries + 1 < MaxSweepTries THEN pc' = "boot" /\ tries' = tries + 1 /\ Dropped
     ELSE Idle
  /\ UNCHANGED jobVars

\* The first UPDATE of the sweep finds the database locked: its event is out
\* already, the rows stay as they are, and the worker does not try again.
SweepRejected == /\ pc = "sweep"
                 /\ Fault("reject")
                 /\ Idle
                 /\ UNCHANGED <<queue, jobVars, effects, late>>

\* What had reached the service goes on there; a sweep that has begun always.
Crash == /\ Fault("crash")
         /\ LeaveRequest \/ (pc # "sweep" /\ UNCHANGED late)
         /\ pc' = "boot" /\ tries' = 0 /\ Dropped
         /\ UNCHANGED <<queue, jobVars, effects>>

LateResult(r) == /\ Store(r.job, r.stage)
                 /\ lateResults' = lateResults \ {r}
                 /\ UNCHANGED <<jobVars, files, told, waiting, worker,
                                  lateVerdicts, lateSweeps, lateCalls, faults>>

LateVerdict(v) == /\ Tell({v.job}, v.verdict)
                  /\ lateVerdicts' = lateVerdicts \ {v}
                  /\ UNCHANGED <<queue, jobVars, files, analyzed, stored, worker,
                                 lateResults, lateSweeps, lateCalls, faults>>

Begun(c) == c \in lateCalls /\ lateCalls' = (lateCalls \ {c}) \cup {"done"}

LateClaim == /\ Begun("claim")
             /\ \E j \in Jobs : Claim(j)
             /\ UNCHANGED <<jobVars, effects, worker, lateResults, lateVerdicts,
                            lateSweeps, faults>>

LateSelect ==
  /\ Begun("sweep")
  /\ \E j \in InProgress :
       /\ TellOrphans({j})
       /\ lateSweeps' = lateSweeps
                         \cup {[rows |-> InProgress, untold |-> InProgress \ {j}]}
  /\ UNCHANGED <<queue, jobVars, files, analyzed, stored, worker,
                 lateResults, lateVerdicts, faults>>

LateSweep(w) == /\ SweepRows(w.rows, w.untold)
                /\ lateSweeps' = lateSweeps \ {w}
                /\ UNCHANGED <<jobVars, worker, lateResults, lateVerdicts,
                               lateCalls, faults>>

-------------------------------------------------------------------------------
Player == \/ \E t \in Tracks : UploadCached(t) \/ UploadEnqueued(t) \/ TagRequest(t)
          \/ ClipRequest
          \/ \E j \in Jobs : ClipDropped(j)

Misfortune == \/ Abandon \/ TakeLost \/ ReportRejected \/ TagRejected
              \/ SweepUnanswered \/ SweepRejected \/ Crash
              \/ \E r \in lateResults : LateResult(r)
              \/ \E v \in lateVerdicts : LateVerdict(v)
              \/ LateClaim \/ LateSelect
              \/ \E w \in lateSweeps : LateSweep(w)

Next == Player \/ WorkerStep \/ Misfortune

Spec == Init /\ [][Next]_vars

\* The worker's loop keeps going: every request has a timeout, every exception
\* is caught, and compose restarts a worker that dies.  Nobody promises that the
\* Player asks for anything, nor that a late request is ever executed.
FairSpec == Spec /\ WF_vars(WorkerStep)

-------------------------------------------------------------------------------
\* Safety.

Analyzing(j) == cur = j /\ pc \in {"announce", "compute", "report"}

\* No claim and no sweep has begun after its sender went on.
Prompt == "done" \notin lateCalls

\* Nobody removes an upload before the analysis it is for has run: not the sweep,
\* which deletes the audio_path of every orphan, and a tag job shares its
\* audio_path with an upload; not the cleanup of another job; not a crash.
AudioKept ==
  Prompt => \A j \in Jobs :
    kind[j] = "analyze" /\ (status[j] = "pending" \/ Analyzing(j)) => j \in files

\* An analysis is never announced both done and failed, whatever is lost, late,
\* refused or swept (process_job, worker_event, sweep_orphans).
VerdictConsistent ==
  Prompt => \A j \in Jobs : kind[j] = "analyze" => told[j] # Verdicts

\* A row of kind analyze is 'done' only when the results of all stages have been
\* written: the final POST closes the row, whatever became of the others.
DoneMeansComplete ==
  \A j \in Jobs : kind[j] = "analyze" /\ status[j] = "done" => stored[j] = Stages

\* Player and table agree: when track_done has been published for an analysis, its
\* row says 'done', and no sweep that selected the row before turns it back.
DoneEventMeansDone ==
  Prompt => \A j \in Jobs : kind[j] = "analyze" /\ "done" \in told[j] => status[j] = "done"

\* The short-circuit of POST /v1/analyze takes analyzer cues as evidence that
\* "the heavy pipeline already ran": where there are cues, some analysis of the
\* track has written the results of every stage.
CachedMeansAnalyzed ==
  \A t \in analyzed : \E j \in Uploads(t) : stored[j] = Stages

\* The worker has the job, and its terminal event is still to come.
Working(j) == cur = j /\ pc \in {"announce", "compute", "report", "fail", "notify"}

\* As long as nothing is lost, refused or crashes, the Player waits for a track only
\* while an analysis of it is queued or in the worker's hands: a cached answer, a
\* failing stage and a forced upload of the same track all see to it (analyze,
\* process_job).
WaitHasCause ==
  faults = 0 => \A t \in waiting : \E j \in Uploads(t) : status[j] = "pending" \/ Working(j)

\* With a worker that may crash at any step, an analysis that was handed out is
\* announced, or done, or still in its hands, or a row that the boot sweep it is at
\* finds or has found (sweep_orphans).
CrashLosesNoJob ==
  Faults \subseteq {"crash"} =>
    \A j \in HandedOut : kind[j] = "analyze" =>
      \/ told[j] # {} \/ status[j] = "done"
      \/ Working(j)
      \/ pc = "boot" /\ status[j] = "in_progress"
      \/ pc = "sweep" /\ j \in orphans

\* Liveness.

\* The Player's wait for a track ends ("Without this the Player sits forever on
\* its WebSocket subscription", server.py).
PlayerUnblocked == \A t \in Tracks : t \in waiting ~> t \notin waiting

\* It does as long as nothing is lost, refused or crashes, whether the track is
\* analyzed, answered from the cache, forced, or fails in a stage.
UnblockedWhenHealthy == [](faults = 0) => PlayerUnblocked

\* Whenever the worker crashes, every analysis that was queued is announced or
\* written to the end: the boot sweep and the final result leave no gap between
\* them in which a job is neither.
JobConcludes ==
  \A j \in Jobs : kind[j] = "analyze" /\ status[j] = "pending"
                   ~> told[j] # {} \/ status[j] = "done"

===============================================================================
