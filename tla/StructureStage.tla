------------------------------ MODULE StructureStage ------------------------------
(***************************************************************************)
(* The active core.structure stage (structure_madmom.py) in the worker's   *)
(* process: it drops the MuQ-MuLan model a tag job has left resident,      *)
(* starts run_madmom_subprocess.py as a child, and polls it with heartbeat *)
(* events until it exits or HARD_TIMEOUT_SEC are over.  Memory is what the *)
(* child is for: MuQ (about 3 GB) and madmom (about 3.5 GB) do not fit     *)
(* into the container together, and the kernel kills one of the two.       *)
(*                                                                         *)
(* Parent, children and clock are separate: a child goes on when the stage *)
(* that started it is gone, and what it prints stays in a pipe of bounded  *)
(* size that nobody reads before it has exited.  The pipe of a child left  *)
(* behind stays open: Popen.__del__ keeps the object of a process that has *)
(* not exited (subprocess._active), and with it the worker's ends.  Its    *)
(* log lines on stderr are few and left out.  Tag jobs of either kind run  *)
(* between the stages.                                                     *)
(***************************************************************************)
EXTENDS Naturals, FiniteSets

CONSTANTS
  MaxJobs,      \* bound on the analyses of one behaviour
  HardTimeout,  \* HARD_TIMEOUT_SEC in ticks of the clock
  PipeSize,     \* what a pipe holds, in the unit of MaxOutput
  MaxOutput,    \* bound on the JSON document of one child
  Faults,       \* subset of {"event", "stuck", "crash"}
  MaxFaults     \* bound on the faults of one behaviour

ASSUME StructureAssumption ==
  /\ MaxJobs \in Nat /\ HardTimeout \in Nat /\ PipeSize \in Nat
  /\ MaxOutput \in Nat \ {0} /\ MaxFaults \in Nat
  /\ Faults \subseteq {"event", "stuck", "crash"}

VARIABLES
  pc,           \* the worker's main thread
  job,          \* analyses begun; the last one is the current one
  mulan,        \* embed_muq_mulan._mulan is not None
  proc,         \* the Popen object held by the stage, named by its job; 0: none
  elapsed,      \* ticks since proc was started
  child,        \* child[j]: the process started for job j
  left,         \* left[j]: output it has still to write
  pipe,         \* pipe[j]: output written and not yet read
  outcome,      \* outcome[j]: how the stage of job j ended
  escaped,      \* children a stage has left behind running
  faults

worker == <<pc, job, mulan, proc, elapsed, outcome, escaped>>
children == <<child, left, pipe>>
vars == <<worker, children, faults>>

Pids == 1..MaxJobs
Exited == {"done", "failed"}                    \* with code 0, with any other
Alive == {j \in Pids : child[j] \in {"decoding", "writing", "dying"}}

TypeOK ==
  /\ pc \in {"idle", "spawn", "poll", "wait", "exited", "parse", "over"}
  /\ job \in 0..MaxJobs /\ proc \in 0..MaxJobs /\ mulan \in BOOLEAN
  /\ elapsed \in 0..HardTimeout + 1
  /\ child \in [Pids -> {"none", "decoding", "writing", "dying"} \cup Exited]
  /\ left \in [Pids -> 0..MaxOutput] /\ pipe \in [Pids -> 0..PipeSize]
  /\ outcome \in [Pids -> {"none", "columns", "raised", "exit", "timeout", "event"}]
  /\ escaped \subseteq Pids /\ faults \in 0..MaxFaults
  /\ pc # "idle" => job # 0
  /\ pc \in {"poll", "wait", "exited", "parse"} => proc = job

Init ==
  /\ pc = "idle" /\ job = 0 /\ mulan = FALSE /\ proc = 0 /\ elapsed = 0
  /\ child = [j \in Pids |-> "none"]
  /\ left = [j \in Pids |-> 0] /\ pipe = [j \in Pids |-> 0]
  /\ outcome = [j \in Pids |-> "none"] /\ escaped = {} /\ faults = 0

Fault(f) == f \in Faults /\ faults < MaxFaults /\ faults' = faults + 1

-------------------------------------------------------------------------------
\* The worker's main thread.

\* A tag or loop_tag_v2 job: get_mulan loads the model on the first embedding, if
\* there is anything to embed and the load does not raise.
Tag == /\ pc = "idle"
       /\ mulan' \in {mulan, TRUE}
       /\ UNCHANGED <<pc, job, proc, elapsed, outcome, escaped, children, faults>>

BeginLoaded == /\ pc = "idle" /\ job < MaxJobs  \* without unload_mulan
               /\ job' = job + 1 /\ pc' = "spawn"
               /\ UNCHANGED <<mulan, proc, elapsed, outcome, escaped, children, faults>>
Begin == /\ pc = "idle" /\ job < MaxJobs
         /\ job' = job + 1 /\ pc' = "spawn"
         /\ mulan' = FALSE
         /\ UNCHANGED <<proc, elapsed, outcome, escaped, children, faults>>

\* The stage is over; for other reasons than columns, process_job has its exception.
Over(how) == pc' = "over" /\ outcome' = [outcome EXCEPT ![job] = how]

SpawnDetached == /\ pc = "spawn"                \* the Popen object is not kept
                 /\ child' = [child EXCEPT ![job] = "decoding"]
                 /\ elapsed' = 0 /\ pc' = "poll"
                 /\ UNCHANGED <<job, mulan, proc, outcome, escaped, left, pipe, faults>>
Spawn == /\ pc = "spawn"
         /\ child' = [child EXCEPT ![job] = "decoding"]
         /\ proc' = job /\ elapsed' = 0 /\ pc' = "poll"
         /\ UNCHANGED <<job, mulan, outcome, escaped, left, pipe, faults>>

\* ctx.progress raises where the stage has no child, or one that has exited.
EventLost == /\ pc \in {"spawn", "exited"}
             /\ pc = "exited" => child[proc] = "done"
             /\ Fault("event") /\ Over("event")
             /\ UNCHANGED <<job, mulan, proc, elapsed, escaped, children>>

\* ctx.progress raises within the polling loop: the exception leaves the loop, and
\* the child runs on.
HeartbeatLost == /\ pc = "poll"
                 /\ Fault("event") /\ Over("event")
                 /\ escaped' = escaped \cup ({proc} \cap Alive)
                 /\ UNCHANGED <<job, mulan, proc, elapsed, children>>

PollExited == /\ pc = "poll" /\ child[proc] \in Exited
              /\ pc' = "exited"
              /\ UNCHANGED <<job, mulan, proc, elapsed, outcome, escaped,
                             children, faults>>

Tick == /\ pc = "poll" /\ elapsed <= HardTimeout
        /\ elapsed' = elapsed + 1
        /\ UNCHANGED <<pc, job, mulan, proc, outcome, escaped, children, faults>>

NoKill == FALSE /\ UNCHANGED vars               \* a loop without the limit
LeaveRunning ==                                 \* the exception without proc.kill()
  /\ pc = "poll" /\ elapsed > HardTimeout /\ Over("timeout")
  /\ UNCHANGED <<job, mulan, proc, elapsed, escaped, children, faults>>
\* The child may have exited since the last proc.poll().
Kill == /\ pc = "poll" /\ elapsed > HardTimeout
        /\ child' = [child EXCEPT ![proc] = IF @ \in Exited THEN @ ELSE "dying"]
        /\ pc' = "wait"
        /\ UNCHANGED <<job, mulan, proc, elapsed, outcome, escaped, left, pipe, faults>>

Killed == /\ pc = "wait" /\ child[proc] \in Exited
          /\ Over("timeout")
          /\ UNCHANGED <<job, mulan, proc, elapsed, escaped, children, faults>>

\* proc.wait(timeout=5) raises TimeoutExpired: the kernel is slow to let it go.
WaitExpires == /\ pc = "wait" /\ child[proc] = "dying"
               /\ Fault("stuck") /\ Over("timeout")
               /\ escaped' = escaped \cup {proc}
               /\ UNCHANGED <<job, mulan, proc, elapsed, children>>

CheckExit == /\ pc = "exited"
             /\ IF child[proc] = "done" THEN pc' = "parse" /\ UNCHANGED outcome
                ELSE Over("exit")
             /\ UNCHANGED <<job, mulan, proc, elapsed, escaped, children, faults>>

\* json.loads takes text.  It is given proc.stdout, the pipe's stream object that
\* communicate() has read and closed, and raises TypeError; the text is in stdout.
Loads(arg) == IF arg = "text" THEN "columns" ELSE "raised"
Parse == /\ pc = "parse"
         /\ Over(Loads("stream"))
         /\ UNCHANGED <<job, mulan, proc, elapsed, escaped, children, faults>>

\* The stage drops its Popen object.
End == /\ pc = "over" /\ pc' = "idle"
       /\ proc' = 0
       /\ UNCHANGED <<job, mulan, elapsed, outcome, escaped, children, faults>>

-------------------------------------------------------------------------------
\* The child of job j.

Go(j, from, to) == child[j] = from /\ child' = [child EXCEPT ![j] = to]

Decoded(j) == /\ Go(j, "decoding", "writing")
              /\ \E n \in 1..MaxOutput : left' = [left EXCEPT ![j] = n]
              /\ UNCHANGED <<worker, pipe, faults>>

\* No audio, or madmom raises: exit code 1.
DecodeFails(j) == /\ Go(j, "decoding", "failed")
                  /\ UNCHANGED <<worker, left, pipe, faults>>

\* Writing into a full pipe blocks, whether or not anybody is ever going to read it.
Write(j) == /\ child[j] = "writing" /\ left[j] > 0 /\ pipe[j] < PipeSize
            /\ left' = [left EXCEPT ![j] = @ - 1]
            /\ pipe' = [pipe EXCEPT ![j] = @ + 1]
            /\ UNCHANGED <<worker, child, faults>>

Exit(j) == /\ left[j] = 0 /\ Go(j, "writing", "done")
           /\ UNCHANGED <<worker, left, pipe, faults>>

Die(j) == /\ Go(j, "dying", "failed")
          /\ UNCHANGED <<worker, left, pipe, faults>>

Child(j) == Decoded(j) \/ DecodeFails(j) \/ Write(j) \/ Exit(j)

-------------------------------------------------------------------------------
\* The container.

Models == Cardinality(Alive) + (IF mulan THEN 1 ELSE 0)

\* Out of memory, the kernel kills a child...
OomKill(j) == /\ Models > 1 /\ j \in Alive
              /\ child' = [child EXCEPT ![j] = "failed"]
              /\ UNCHANGED <<worker, left, pipe, faults>>

\* ...or the worker, which may also die of something else; its container ends with
\* it, and is restarted.
Crash == /\ \/ Models > 1 /\ UNCHANGED faults
            \/ Fault("crash")
         /\ pc' = "idle" /\ mulan' = FALSE /\ proc' = 0 /\ elapsed' = 0
         /\ child' = [j \in Pids |-> IF j \in Alive THEN "failed" ELSE child[j]]
         /\ UNCHANGED <<job, outcome, escaped, left, pipe>>

Stage == \/ Spawn \/ PollExited \/ Kill \/ Killed \/ CheckExit \/ Parse \/ End

Next == \/ Tag \/ Begin \/ Stage \/ Tick
        \/ EventLost \/ HeartbeatLost \/ WaitExpires \/ Crash
        \/ \E j \in Pids : Child(j) \/ Die(j) \/ OomKill(j)

Spec == Init /\ [][Next]_vars

\* The worker's thread runs, time passes, and a killed process dies; how long madmom
\* takes is left open.
FairSpec == Spec /\ WF_vars(Stage) /\ WF_vars(Tick) /\ \A j \in Pids : WF_vars(Die(j))

-------------------------------------------------------------------------------
\* MuQ and madmom, or two madmoms, are in memory together only with a child that a
\* stage has left behind, because a heartbeat could not be posted or a killed
\* process was slow to go: what unload_mulan and the child process are there for.
OneModelAtATime ==
  /\ Alive \ {proc} \subseteq escaped
  /\ ~ (mulan /\ Alive \ escaped # {})

\* A stage ends, whatever its child does: also if it decodes for ever, or waits for
\* a reader of its full pipe while the worker waits for its exit.
StageEnds == pc # "idle" ~> pc = "idle"

Blocked(j) == child[j] = "writing" /\ left[j] > 0 /\ pipe[j] = PipeSize

\* A child whose decoding ends goes away, by itself or killed at the limit, if its
\* stage has not left it behind.  One that was left behind, by a heartbeat that could
\* not be posted, may block on its full pipe instead, and then stays for as long as the
\* worker does.
ChildrenEnd ==
  (\A j \in Pids : WF_vars(Child(j)))
    => \A j \in Pids : (j \in Alive ~> (j \notin Alive \/ (j \in escaped /\ Blocked(j))))

\* "Output" (structure_madmom): a child that exits with code 0 has written its grid,
\* and the stage turns it into columns, unless it was cut off before.
GridDelivered == \A j \in Pids :
  child[j] = "done" => outcome[j] \in {"none", "columns", "event", "timeout"}
===============================================================================
