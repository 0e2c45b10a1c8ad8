# A verification project for trackform

TLA+ modules, TLC configurations and TLAPS proofs for the DJ loop service
(`src/dj_loop_service`) and its worker (`worker`). Paths below are relative to
the repository, and `server.py`, `main.py` etc. are the files of these two
directories.

Run `tlc -config X.cfg M` for a run of `PROJECT.json` (module M), `tlapm M.tla`
for a proof module. Each run and each proof takes from seconds to a few minutes.

## 1. The system

One **service** process (FastAPI, `server.py`) with an SQLite database, one
**worker** process (`main.py`) that polls it, and a **Player** (not in the
repository) that uploads audio, asks for tags and listens on a WebSocket. Service
and worker share the scratch volume `/srv/audio`.

| Component | State | Operations | Talks to |
|---|---|---|---|
| Job table (`jobs.py`, `schema.py`) | rows of `analyze_job`: status pending → in_progress → done / failed; claimed in the order of `created_at`, which is read before the INSERT gives the row its id | `enqueue`, `claim_next`, `mark_done`, the sweep's UPDATE (`mark_failed` has no caller) | called by handlers, each on a connection of its own |
| Job life cycle (`server.py`, `main.py`) | scratch files, results stored, events published, where the worker is | `POST /v1/analyze`, `GET /v1/worker/next`, `POST /v1/worker/result`, `/event`, `/sweep_orphans`; the worker's boot sweep, stages, failure path, cleanup | Player ↔ service by HTTP and WebSocket, worker → service by HTTP with a 30 s timeout |
| Per-loop tagging (`server.py` 396–520, `main.py` 314–397) | `_loop_tag_results`, `_loop_tag_events`, the clip | `POST /v1/loops/tag` (blocks a thread up to `timeout_s`), `POST /v1/worker/loop_tag_result` | job table, worker |
| Content identity (`db.py`, `core_load.py`, `pipeline.py`) | rows of `content`: path, hash, fingerprint; analyzer columns and cues | `upsert_content` from uploads, from the CLI's thread pool and from worker results; the cache short-circuit; `GET /v1/tracks/by-hash`; the row and the audio a tag request gets | job table, worker results |
| Event bus (`events.py`) | one `asyncio.Queue(256)` per connection | `publish` (from the loop and from pool threads), `subscribe`, `stream`, `unsubscribe` | everybody who announces something |
| Structure stage (`structure_madmom.py`, `run_madmom_subprocess.py`, `embed_muq_mulan.py`) | the resident MuQ model, a child process, its pipe, the time since its start | `unload_mulan`, `Popen`, the polling loop with its heartbeats and its limit, `communicate`; the child decodes, prints JSON, exits | runs as the first stage; competes with tag jobs for memory |
| Loop picker (`loop_propose.py`) | the lists `buildup_idx`, `variety_idx` | ranking, gap check, segments, maximum | runs as the last stage |
| Cue tagging (`server.py` 226–380, `main.py` 189–311, `loop_tag.py`, `db.py` 255–351) | rows of `cue`: window, `embedded_at_position` | `POST /v1/tracks/{id}/loops/tag`, tag jobs, `update_analyzer_cues`, `replace_analyzer_cues` | job table, `GET /v1/tracks/{id}` |

What is hard here:

* **Threads over SQLite.** Python's `sqlite3` begins a transaction at the first
  INSERT or UPDATE. Every "SELECT, then decide, then write" of the service
  (`claim_next`, the sweep, `upsert_content`, the cues of a tag request) therefore has a
  gap in it, and so has the INSERT of a job, whose time stamp is taken before it has the
  write lock.
* **A worker that dies or gives up** between any two of: final result,
  terminal event, cleanup of the file. Recovery is one request at boot that sees
  the rows only.
* **Late requests.** The worker's client gives up after 30 s; the handler may
  still run.
* **A pool of handler threads** that serves everybody. Handlers of `POST
  /v1/loops/tag` occupy theirs for up to 240 s, and what ends their wait, a claim
  and a result of the worker, needs one too.
* **Blocking rendezvous** between a handler and the thread of another request,
  with a timeout.
* **A restart of the service** while the worker is at a job: rows and scratch files survive,
  dictionaries and connections do not.
* **A child process** that outlives the stage that started it, and a pipe that nobody
  reads before it has exited.
* **One `asyncio.Queue` used from several threads.**
* **Two identities** of a track (hash/fingerprint and path), used by different
  writers of one row.

What makes each component correct is stated by the properties of section 3; where each hazard
bites, line by line, is in `PROJECT.json` under `hazards`.

## 2. The modules

```
JobQueue                      what the table promises (abstract)
  ├─ SqlJobQueue              its SQL statements, threads interleaving   + SqlJobQueueProofs
  ├─ JobLifecycle             Player, worker, sweep, faults              + JobLifecycleProofs
  └─ LoopTag                  POST /v1/loops/tag on a pool of threads    + LoopTagProofs
Rendezvous                    what POST /v1/loops/tag promises (abstract; LoopTag)
Broadcast                     what the bus promises (abstract; EventBus)
EventBus                      the bus and its queues                     + EventBusProofs
ContentIdentity               content rows, cache, attribution           + ContentIdentityProofs
StructureStage                the structure stage and its child          + StructureStageProofs
LoopPropose                   the picker                                 + LoopProposeProofs
CueTags                       cues, requests that move them, tag jobs    + CueTagsProofs
MC*                           constants and symmetry for TLC (SqlJobQueue, ContentIdentity,
                              EventBus, CueTags)
```

**JobQueue** is an abstract specification. A job appears with the next id, is handed out,
and is closed (`done`, `failed`) only after that. Which pending job is handed out is left open
as far as the code leaves it open. `claim_next` orders by `created_at`, which a request reads
from the clock before its INSERT has the write lock, and so before it has an id: two requests
that overlap may come out of the queue in either order, and against their ids. What the
table does promise is kept in `ahead`: rows 1..`ahead[j]` were there when j's request read the
clock, and are handed out before j. `SqlJobQueue` implements it (`QueueSpec`, with the identity
for a mapping). `JobLifecycle` and `LoopTag` use its operators for their requests; they
claim no order they do not need (`LoopTag`: none; `JobLifecycle`: a tag job comes behind the
upload its handler has found), so that theirs is any order the table can come up with.

**SqlJobQueue** has one action per SQL statement that other threads can come
between: `Select`/`Update`/`GiveUp` (`claim_next`, per handler thread),
`SweepSelect`/`SweepCommit`/`SweepAbort`, `Result`; and a request that creates a job reads the
clock (`Stamp`) before it inserts (`Insert`, `InsertFails`). `Tick` moves the clock by a second, the resolution of
`created_at`; `Older` is the order of the index. `handed` counts the 200
responses that carried a job. It shows that the operations of `JobQueue`
may be taken as atomic by the other modules, with the exception of the sweep, which
`JobLifecycle` has in two steps as well.

**JobLifecycle** has one action per request with its handler, or per local step of
the worker. The sweep is two: its SELECT with the first event (`SweepSelect`), and from the first
UPDATE, which takes the write lock, to the commit (`SweepCommit`). In between, requests come, results
whose senders have given up are executed, the worker may die or lose patience, and the sweep goes on without it
(`lateSweeps`). `pc`, `cur`, `stage` are the place in `process_job`: `announce` →
`compute` → `report` for each stage, then `notify` (track_done) and `cleanup`; `fail` is
the `except` branch; `tag`, `tag_report` and `loop` the two other kinds of job.
`files` is the scratch volume (a job's upload carries the job's name, `source`
says whose upload a job's `audio_path` is), `told` the terminal events published
for a job, `waiting` the tracks the Player has uploaded without a terminal event
since. The Player matches events by host_path, which is all they carry. Faults:
`Crash`, `Abandon`/`TakeLost`/`SweepUnanswered` (transport), `ReportRejected`/`TagRejected`/
`SweepRejected` (status 500); the `Late…` actions execute what a dead or impatient
sender left on the wire. A claim or a sweep that *begins* only after its sender went on, because its
handler had no thread, is a fault of its own, `late_call`. Stages are numbered; the cues come with the last.

**LoopTag** cuts the handler at its lock sections: save, enqueue, register, wait
over (`Wake` or `Expire`), collect, respond; and the worker's post at
`StoreResult` (under the lock) and `SetEvent` (after it). All these handlers are plain
functions and run on one pool: whoever is not `queued` or `answered` holds one of
`PoolSize` threads, and claims, sweeps and results need a free one (`FreeThread`), a result
until it has set the event. A
post may be executed after its sender gave up, a claim for nobody (`ClaimLost`).
`Restart` is the service's: it cuts off whoever is connected and forgets the
dictionaries. `loop_tag_v2` rows are never closed, and the boot sweep of a restarted
worker finds every one ever taken.

**Rendezvous** says what all this is for: per request the work is begun at most once, its
result is offered to that request alone, and there is one answer, its own result,
a timeout or an error. `LoopTag` implements it (`RendezvousSpec`) under the mapping `work` ←
what the worker has to do with the request's row, `offer` ← its result wherever it is at the
moment: posted, in the dictionary, or popped.

**ContentIdentity** separates the look-ups of `upsert_content` from its write. An
audio is its hash; `PrintOf` gives re-encodings one fingerprint, and chromaprint may fail.
A row remembers which job its columns and its cues came from, which is what the
properties compare with its hash. `Probe` (the Player's question whether a hash is
known) and `TagTarget`/`TagSources` (the row a tag request is about, and the uploads its loops
may be cut from: the newest by `created_at`, which says as little about ids here as above) read only: they are operators, and the properties ask what they
would answer in every state.

**EventBus** cuts `put_nowait` at full(), append and wake-up, and `Queue.get` at
empty() and what follows, the removal (`Take`) or the parking of a future: pool threads call `publish`, and nothing
serialises them with the loop. (With the GIL a thread may still be switched
between any two bytecodes.) A reader that finds the queue empty after all gets `QueueEmpty`, which
ends its connection (`Emptied`). The methods of `asyncio.Queue` are modelled from their
use; `Wake` is the library's `_wakeup_next`. The other defect of waking a future from
a foreign thread, that the loop's selector does not notice, is not modelled: here a
woken reader runs. `EventBus` implements **Broadcast**: a client may miss events, but
receives none twice and none of a publisher after a later one.

**StructureStage** is the worker's thread between two jobs and in the stage, its
children and the clock. Tag jobs load MuQ (`Tag`), the stage unloads it (`Begin`), starts a
child (`Spawn`), and polls it: exit (`PollExited`), a heartbeat that cannot be posted
(`HeartbeatLost`), or the limit (`Kill`, then `Killed` or `WaitExpires`). A child decodes, writes into
its pipe, block by block as far as there is room, and exits; it runs on when its stage is
gone (`escaped`). Dropping the `Popen` object (`End`) does not close the pipe of such a child:
`Popen.__del__` keeps a process that has not exited in `subprocess._active`, and the worker's ends of the
pipes with it, so that a child with more output than the pipe holds blocks and stays. Two models in memory let the kernel kill either (`OomKill`, `Crash`).
`Parse` does what the code does: it is given the stream, not the text. The model of
the rest of the worker here is "a tag job or nothing in between": stages after this one
neither load MuQ nor start processes.

**LoopPropose** takes the energies of the windows as input (any values) and is
exact on everything after: stable ranking by slope, the gap check, segment
borders rounded half to even, first maximum. Floats: energies are compared only,
and `k * (size / count)` is taken for the exact quotient.

**CueTags** is about one content row. `Resolves` says what the greedy matching of
`loops_tag` leaves behind: `own` gives every window of the request with a length a cue that
is its match (`Matched`: exact, else closest) among those the windows before it have not
claimed. That this has exactly one solution, as a loop has one result, is proved
(`ResolutionUnique`). A request reads the cues and decides (`Tag`) before its first UPDATE opens
the transaction; `WriteTag` is that transaction, up to the commit of the job, and passes over
cues that are gone by then; `Refused` is a lock that was busy for too long.
`Fetch`, `Embed`, `Abandon` the worker's tag job; `Unanswered` and `LateResult` a result its sender
has given up on; `Propose` the replacement of the cues. An embedding is represented by
the window it was computed from.

## 3. The runs

Passing runs, with what they would catch:

| Run | Instance | Shows |
|---|---|---|
| `sql_queue` | 3 rows, 3 claiming and 2 creating threads, 2 seconds, a sweep | `ClaimExact`: no job is handed out twice or lost by the two-statement claim; `QueueSpec`: statement by statement it is the abstract queue: no job overtakes one that was there when its request read the clock |
| `lifecycle_safety` | 3 jobs of a track or clips, 2 stages, 2 faults of any kind | `AudioKept`: nobody deletes an upload before its analysis has run; `VerdictConsistent`: never both done and failed; `DoneMeansComplete`, `CachedMeansAnalyzed`: rows and cached answers stand for complete analyses; `DoneEventMeansDone`: a track_done stands for a row that is done and stays so, whatever sweep is between its SELECT and its UPDATEs |
| `lifecycle_live` | 2 jobs, 2 tracks, 2 stages, up to 2 crashes | `UnblockedWhenHealthy`: without a crash every wait of the Player ends; `JobConcludes`: with crashes, every queued analysis is still announced or written to the end; `WaitHasCause`, `CrashLosesNoJob`: at any time it is somewhere where this will happen |
| `loop_tag` | 2 requests, 2 threads, 3 faults among crash, lost, locked, restart | `NoEmptyWake`, `ResultsDrained`: the two dictionaries fit together; `ClipKept`: a clip is there while its request waits and its job is queued; `EveryRequestAnswered`, `ResultsGetThrough`: the pool does not jam for good; `RendezvousSpec`: it is the abstract rendezvous |
| `identity` | 3 uploads, 3 audios (2 alike), 2 paths, HTTP only | `HashUnique`; as long as no path has changed its music: `AnalysisMatchesHash`, `CacheServesOwn`, `ProbeServesOwn`, `TagsOwnAudio`: columns, cached answers, probes and tag requests never get the analysis of other music |
| `event_bus` | 2 threads × 3 events, queue of 2, 1 client | `TypeOK`: a connection has one queue from its beginning to its end; `BacklogBounded`; `BroadcastSpec`: it is the abstract broadcast, whatever is missing each publisher's events come in order and once |
| `structure_stage` | 2 analyses, limit of 2 ticks, pipe of 1, output up to 2, 3 faults among event, stuck, crash | `OneModelAtATime`: two models are in memory together only over a child that was left behind; `StageEnds`: the stage ends, also with a full pipe or a child that never exits; `ChildrenEnd`: no child stays, unless it was left behind and blocks on its pipe |
| `loop_propose` | up to 9 windows × 3 levels, 2-bar loops, 4 loops, 2 build-ups | `LoopsDisjoint`, `SegmentsTile`, `BuildupsSteepest`, `AtMostNumLoops` |
| `cue_tags` | 3 jobs, results that may arrive late, 2 requests at a time of up to 2 windows, 3 cue ids, one of the Player's ids equal to one of them | `TagsCatchUp`: an edit made while a cue is being embedded is caught by the dirty check of a later job; `ResolvedDistinct` |

Runs that show where the code does not do what it, or a comment, says. Each has
an entry under `findings` with the line quoted.

| Run | What happens |
|---|---|
| `crash_blocks_player` | crash after the final result, before track_done: no sweep finds the row, the Player waits for ever |
| `bus_lost_wakeup` | a reader sleeps over an event |
| `structure_grid` | a child prints its grid and exits with 0; the stage parses the closed stream in place of the text it has read, and raises: no analysis gets past core.structure |

### Other disagreements

Met while modelling, reproducible in the models, and left without a run of their
own. The models do what the code does.

1. `server.py:693`: the sweep's UPDATEs go by job_id, after a SELECT outside the
   transaction. A row a result has closed in between goes from done to failed
   (`SqlJobQueue`: `SweepSelect`, `Result`, `SweepCommit`), though the docstring (662)
   speaks of rows still in_progress. With a sweep that begins late the row may be one whose track_done
   has been published (`LateSelect`, `Report`, `Notify`, `LateSweep`), so that `DoneEventMeansDone` is
   not claimed then.
2. `main.py:159`: a 500 for a result drops the job without a terminal event, and as
   the worker has not died there is no sweep (`ReportRejected`): the Player's wait
   has no end.
3. `main.py:180` unlinks the upload that queued tag jobs refer to
   (`Cleanup`, `Fail` of the tag job); the comment at `server.py:782` says it is kept for them.
4. `main.py:142` leaves the rows of failed jobs in_progress (`mark_failed` has no
   caller), and the next boot announces their failure again.
5. `server.py:681`: a boot sweep that begins after the worker's timeout fails the job the
   living worker is at (`LateSelect`, `LateSweep`); the docstring says such rows belong to a worker that
   died.
6. `server.py:456`: when the INSERT of a loop job fails the clip stays
   (`EnqueueFails`); the comment (389) says it is deleted success or fail.
7. `server.py:581`: a new file at a known path inherits the row of the old one and
   its cues, and is answered from the cache (`Load` of other music, `Cached`). If its
   fingerprint is missing the row also keeps the old one.
8. `server.py:758`: worker columns are matched by path alone, so for an audio known
   under another path they go to a second row (`ResultColumns`), the cues to the first.
9. `server.py:764`: a re-run that finds no loops leaves the cues of the previous one;
   `db.py:307` says they are wiped.
10. `events.py:63`: when another thread takes the place just made, it is the new event
    that is dropped (`Retry`), not the oldest as the docstring (46) says.
11. `loop_propose.py:122`: no fallback to the whole track without build-ups, which the
    comment (120) promises; and (142) segments without an admissible window leave fewer than
    the six loops of the docstring.
12. `server.py:346`: when none of the windows sent resolves, the Player's own ids are
    taken for cue ids (`WriteTag`), which the comment (343) reserves for legacy callers.
13. `server.py:472`: a result posted between the commit of the job and the registration of
    its event is stored and nobody signalled (`StoreResult` before `Register`); the handler waits out its
    timeout and answers 504. The comment (468) says the event is registered
    "so the worker can't post-and-set before we're listening".
14. `db.py:178`: two threads of the CLI both look an audio up, both find nothing and both insert
    (`Load`, `Load`, `Write`, `Write`): two rows of one hash, which the comment at
    `server.py:571` excludes. With one analyzer, as in the service, it cannot happen
    (proved).
15. `structure_madmom.py:94`: a heartbeat that cannot be posted leaves the child running
    (`HeartbeatLost`), and a tag job or the next stage loads a second model beside it, which
    the comment at 49 is there to avoid. If its output does not fit the pipe it stays for as
    long as the worker does: nobody reads the pipe, nobody closes it, and there is no limit any more.
16. `structure_madmom.py:82`: pipes are read after the exit only, so a JSON document
    larger than a pipe (64 KiB: more than about five thousand beats, a recorded set and no single track) blocks the child until the limit kills it
    (`Write`, `Kill`). The usage note in `run_madmom_subprocess.py:16` has `capture_output`, which
    does not.
17. `db.py` 189–214: a re-encoding found by fingerprint overwrites the row's hash. A tag request
    for the older encoding, if the row has yet another path, then finds neither hash nor path and
    falls to the number in the URL (`TagTarget`), which the comment (`server.py:249`) calls unreliable.
18. `db.py:290`: a late result of an abandoned tag job writes its window over a newer
    one (`LateResult`); the dirty check of the next request repairs it, if there is one.
19. `jobs.py:39`: "the oldest pending job" is the one with the smallest `created_at`. Of two
    requests on either side of a full second the later INSERT may carry the earlier time (`Stamp`, `Stamp`, `Insert`, `Insert`
    in the other order), and the row with the larger id is claimed first. The order is kept for
    requests that do not overlap (`OrderKept`).
20. `events.py:59`–70: a publisher that has found the queue full takes out the last event between a
    reader's test for emptiness and its removal (`DropOldest`, `Emptied`): the reader's `get` raises `QueueEmpty` and its
    connection ends. The docstring (44) says publishing is safe from worker threads.
21. `server.py:294`–341: the cues a tag request has read may be replaced before it writes. Its UPDATEs then
    match no row, and its job asks for cues that are gone (`Tag`, `Propose`, `WriteTag`); the Player is answered with their ids.

### Bounds

In `sql_queue` two seconds and two creating threads put a time stamp and its id on either side
of each other; three claiming threads with a sweep and results are every race for one row, and the third
row is one that must not be overtaken. In `lifecycle_safety` `MaxJobs` = 3 lets two uploads of a track and a tag job or
a clip overlap, the smallest case in which the audio of one can be deleted on behalf of another; clips carry no track, so that
one track is enough to tell events for it from others. Two stages tell a first result from a final
one. `MaxFaults` = 2 is a fault and a
second during recovery. In `lifecycle_live` two jobs may be of two tracks, and the second crash may meet the sweep after the first.
`MaxSweepTries` = 2 instead of 6 reaches both "try again" and
"give up". A queue of 2 instead of 256, with two publishers, is full, overshot
and emptied in few steps. The picker's constants 8/8/6/3 are scaled to 2/2/4/2 so
that there are profiles with 0, 1 and 2 build-ups, empty segments, halves exactly
between two integers and tracks too short; the proofs have no such bounds.
`MaxUploads` = 3 and three audios give every order of an original, a re-encoding
and another track. In `cue_tags` three jobs are a proposal, an edit, and an edit while the first is being
embedded or its result is missing; with two requests in the middle of being served one's decisions are out of date when it
writes them; one of four windows has no length and one too little audio, and a request of two
windows has one more than there are cues when one loop was proposed. In `loop_tag` two requests
on two threads exhaust the pool; three faults are, for instance, a crash, a
restart of the service and a result that arrives after both. In `structure_stage` a pipe of
one block and output of one or two tell output that fits from output that does not; two ticks
let a child exit before, at and after the limit; two analyses are the smallest case in
which a child left behind meets the next one.

Deadlock is off in the runs whose system may stop for good because a bound is
reached or, as with the picker, because it is finished.

### Fairness

`JobLifecycle.FairSpec` is weak fairness of the worker's steps together: its loop is
`while True`, every request has a 30 s timeout, `HTTPError` is caught, stages end, and a
worker that dies is restarted (`restart: unless-stopped`, `docker-compose.yml:83`).
Nothing is assumed of the Player, of faults, or of late requests.
`LoopTag.FairSpec` is weak fairness of each handler thread and of the handlers of posted
results together; it is enough because `event.wait` has a timeout. Nothing is assumed of the
worker, which may stop for ever. That a queued request gets a thread is assumed in no
more than this form: the thread pool starts somebody whenever it has room for good.
`StructureStage.FairSpec` is weak fairness of the stage's steps, of the clock and of the
death of a killed process. How long madmom decodes is left open, so nothing is assumed
of a child; `ChildrenEnd` alone has "its steps are fair" as its premise.

### Assumptions of the models

* The clock of the service is monotone. Rows of one second come out of the index on
  (status, created_at) in rowid order.
* In `CueTags` jobs are taken in the order of their commits. For requests that move cues this is so
  because they read the clock with the write lock in their hands; others may change places with a
  request they overlap, which is one of the orders modelled anyway.
* A claim or sweep that begins after its sender went on is the fault
  `late_call`; from then on (`~Prompt`) `AudioKept`, `VerdictConsistent` and `DoneEventMeansDone` are not
  claimed, because they do not hold (disagreements 1 and 5). A sweep that had begun may end at any later time, and they hold.
* `AnalysisMatchesHash`, `CacheServesOwn`, `ProbeServesOwn` and `TagsOwnAudio` are claimed in
  behaviours in which no path has changed its music yet (`Settled`; disagreement 7).
  `identity` has only HTTP uploads write; the proofs of these four hold with any number of CLI
  threads as well.
* `JobLifecycle` lets core.structure return or raise, like any other stage: it is about the
  protocol around the stages. At this commit it always raises (`structure_grid`).
* `GridDelivered` and its run leave out faults: without any, the grid is lost.
* The child's log lines on stderr, a second pipe with the same hazard, are few and left out.

## 4. What is proved

With TLAPS, for every value of the constants that satisfies the `ASSUME`s (which
say that sets are finite, bounds natural numbers, and, for the picker, that
loops are not longer than the gap and build-ups fewer than loops). Every proof of
`Spec => []P` goes through an inductive invariant, one lemma per action where the action is not
trivial.

**SqlJobQueueProofs**: `TypeCorrect`, `ClaimExactly` (`[]ClaimExact`),
`NoOvertaking` (`[]OrderKept`), `Refinement` (`Spec => QueueSpec`). `OrderKept` is not
inductive: time stamp, id, SELECT and hand-out are steps of their own. A request that has read the clock has seen rows that are
there and carry no later time (`Stamped`), so that its own row comes behind them in the index, by its time or by its id
(`StampOrder`); a row some thread has picked has all of them handed out before it (`PicksStandInLine`), whoever
gets it, and since rows never become pending again this is still so at the UPDATE.

**JobLifecycleProofs**, in four layers, each inductive given those it stands on:

1. `Base`: types, at most one job at the worker and that one handed out, rows keep what their
   INSERT said, sweeps and late requests concern handed-out jobs. Gives `TypeCorrect`.
2. `Complete`: the worker's place fits the kind of its job, the results of the
   stages before `stage` are stored, a request on the wire for the final result
   implies the others are. Gives `DoneIsComplete` and `CacheIsEarned`, for all faults.
3. `Punctual`, for as long as no claim or sweep has begun late (`Prompt`): a
   job the worker is at has no verdict yet and none on the wire (`VerdictPending`); a sweep that is between its SELECT and its
   UPDATEs, whether or not somebody waits for it, holds no row the worker has or has announced done, and none
   whose audio a pending analysis needs (`SweepsApart`); what is announced done is written (`DoneIsWritten`). Gives `AudioIsKept`,
   `VerdictsAgree` and `DoneEventIsTrue`.
4. `Accounted`: whatever is to end has somebody who will end it, which is the safety half
   of the two liveness properties. `WaitsHaveCauses`: before the first fault the Player waits
   for a track only while an analysis of it is pending or in the worker's hands, short
   of its terminal event. `CrashesLoseNothing`: where the worker can only crash, as often as it
   likes, an analysis that was handed out is announced, done, in its hands, or a row that the
   boot sweep under way has found or will find. `FailuresAreAnnounced`: a row is never closed as failed
   without its track_failed. What the fairness adds is that the worker takes another
   step, and each brings its job nearer to the end.

**LoopTagProofs**: `TypeCorrect`, `WakesWithResult`, `ServedIsDrained`, `ClipIsKept`
and `Refinement` (`Spec => RendezvousSpec`). `IInv` adds
that no two requests have one job (`JobsOwned`); that until the worker has posted for a job no
dictionary knows a result of it and nobody has returned one, and that there is one post per
job (`RunOnce`); that a waiting thread's event is set, or about to be, only with the result
in the dictionary (`Signalled`); and that a thread that has popped its result has left none (`Drained`). The refinement
proof then maps every action: `EnqueueJob` to `Ask`, `Take` to `Start` or `GiveUp`, `Run` to `Finish`,
`Respond` to `Deliver` or `TimeOut`, `Collect`, `PostLost` and late posts to `Lose` or a stutter, `Restart` to `Restart`.

**EventBusProofs**: `TypeCorrect`, `StreamsInOrder` (`[]InOrder`: order of what a client has received and has queued), `BacklogIsBounded`
(`[]BacklogBounded`) and `Refinement` (`Spec => BroadcastSpec`). `InOrder` needs that what a thread still has
to put is newer than what it has put anywhere (`Timely`), against snapshots of the list of
subscribers that are out of date (`Snapshots`) and a list that is that of the connections (`Subscribed`); the bound needs that the overshoot of a queue is
counted by the threads that have seen room in it and not yet appended (`Backlog`).

**ContentIdentityProofs**: `TypeCorrect`, `ColumnsMatchHash`, `ProbesServeOwn`, `TagsHitOwn`,
`CachedIsOwn`, for any number of analyzer threads, and `OneRowPerHash` (`[]HashUnique`) for one
(`OneThread`). The strengthening says where a row's values came from: its path and hash
from uploads of one music (`Own`), also for rows that an analyzer has looked up and not
yet written (`Seen`), and that row numbers held anywhere point to rows (`Pointing`).
With two threads a look-up may be out of date when its INSERT comes, which costs `HashUnique`
and none of the others.

**StructureStageProofs**: `TypeCorrect` and `OneModel` (`[]OneModelAtATime`), from: MuQ is unloaded while the stage
is at its child, the stage holds the process it started until it is over, and what it
has let go has exited or is in `escaped`. `StagesAdvance` is an action property with a
variant: `Remaining`, in which the ticks left before the limit are counted, gets smaller with every step of
the stage and of the clock and with every fault, and larger with none, so that `StageEnds` asks
no more of the fairness than that these steps go on. `NeverEmbraced`: the one wait without a limit
is for a process that has been killed (what makes `WaitExpires` a fault of the kernel), and a child blocked
by its pipe is one whose stage polls it still and will kill it at the limit, or one that was left behind, for
which the worker no longer waits.

**CueTagsProofs**: `TypeCorrect`, `TaggingCatchesUp` (`[]TagsCatchUp`) and `CuesResolvedApart`
(`[]ResolvedDistinct`), for any windows, proposals, jobs and lengths of requests. `TagsCatchUp` is
not inductive: it says nothing of what a fetched or a late copy of a cue may write. The
strengthening is that ids ascend, so that a cue of a proposal is not one that an earlier job
asked for (`IdsInOrder`); that the worker embeds the cues the job asks for and that exist
(`Embedding`); and that what it has read of a cue is out of date in two ways only: its window was
moved, by a request whose job is still to come (`ReadWindow`), or its embedding was changed by a late
result, which marks the cue unless it is the embedding of the present window (`ReadSig`). `ResolvedDistinct` is true of a request from the moment it has
read the cues (`Promised`), which may be others when it writes, and follows from the shape of `Resolves`: no
two windows share a cue as long as one is free, and as soon as none is, all have been claimed.
`ResolutionUnique` is about the operator alone: for every request and every table of cues there is one
function `own` with `Resolves`, shown by the least window at which two of them, or a partial one
and its extension, would differ.

**LoopProposeProofs**: `TypeCorrect`, `NoOverlap` (`[]LoopsDisjoint`) and `NeverTooMany`
(`[]AtMostNumLoops`): every pick is admissible when it is taken, and each
segment adds at most one while there are `NumLoops` minus build-ups segments. `SteepestFirst`
(`[]BuildupsSteepest`): at each step the windows not picked that precede a picked one in
the ranking are too near to a pick (`Ranking`). `SegmentsCover` (`[]SegmentsTile`):
`Rounded` is monotone, so the borders ascend from the first to the last, and segment
`x * s ÷ n` or a neighbour of it has window x.

Only model-checked: liveness (`UnblockedWhenHealthy`, `JobConcludes`,
`EveryRequestAnswered`, `ResultsGetThrough`, `StageEnds`, `ChildrenEnd`), because fairness and
ENABLED are beyond the prover. Their safety halves, where they have one worth stating, are the
theorems of layer 4 of `JobLifecycle` and the last two of `StructureStage`. Every other invariant, the
refinements and the types of all modules are proved.

## 5. What is not modelled

Authentication, command line, configuration and schema migrations; list and search
endpoints; the neural networks and signal processing (`key_essentia`, embeddings and scores of
`embed_muq_mulan`, the arithmetic on the grid in `structure_madmom`), which are stages that
return or raise; modules not loaded any more (`structure_beat_this`, `loop_mining`, the service's
stub stages); reference tables for artist, album, genre and key; deployment
files. An upload whose handler fails after the file was saved leaves a file that
belongs to no job; such files are not in the models. Reasons are in
`PROJECT.json` per component.

Hazards without a property are those where the code has no safeguard to state one about
(a job dropped by an `HTTPError`, cues of replaced files), where the outcome is decided in
the Player (events of tag jobs that end an analysis' wait), or that bite once (two
migrations at a time). Each has its note.

## 6. Plan

Order of construction: the queue and its refinement, the life cycle with faults, the
rendezvous, identity, bus, picker, cues, the structure stage; then the abstract specifications
of rendezvous and bus, and the proofs of section 4. All are in place. What could still be added:

1. *Model*: the race of two migrations (`db.py:47`); files of uploads whose INSERT fails.
2. *Proofs*: the safety halves of `EveryRequestAnswered` and `ResultsGetThrough`; the liveness
   properties themselves once the prover has ENABLED.
