--------------------------- MODULE StructureStageProofs ---------------------------
(***************************************************************************)
(* Type correctness of StructureStage, and that its worker never has two   *)
(* models in memory but for a child left behind: for any number of         *)
(* analyses and faults and any limits of time and pipe.                    *)
(***************************************************************************)
EXTENDS StructureStage, TLAPS

\* MuQ is resident between the analyses only, and the stage holds a child from its
\* start to its end.
Unloaded == pc # "idle" => ~ mulan
Holding == pc \in {"idle", "spawn"} => proc = 0

\* What the stage lets go of has exited, or counts as escaped; what it waits for
\* after a kill is on its way out.
LetGo ==
  /\ pc = "exited" \/ pc = "parse" => child[proc] \in Exited
  /\ pc = "wait" => child[proc] \in {"dying"} \cup Exited
  /\ pc = "over" => Alive \subseteq escaped

IInv == TypeOK /\ Unloaded /\ Holding /\ LetGo /\ Alive \ {proc} \subseteq escaped

-------------------------------------------------------------------------------
USE StructureAssumption

\* No step of a child or of the kernel brings a process to life.
LEMMA AliveShrinks ==
  ASSUME TypeOK, NEW j \in Pids, Child(j) \/ Die(j) \/ OomKill(j)
  PROVE  /\ Alive' \subseteq Alive
         /\ \A i \in Pids : child[i] \in Exited => child'[i] = child[i]
         /\ \A i \in Pids : child[i] = "dying" => child'[i] \in {"dying"} \cup Exited
<1>1. child \in [Pids -> {"none", "decoding", "writing", "dying"} \cup Exited]
  BY DEF TypeOK
<1> QED
  BY <1>1 DEF Child, Decoded, DecodeFails, Write, Exit, Die, OomKill, Go,
              Alive, Exited, children

LEMMA TypeStep == IInv /\ [Next]_vars => TypeOK'
<1> SUFFICES ASSUME IInv, [Next]_vars PROVE TypeOK'
  OBVIOUS
<1> USE DEF IInv, TypeOK, Pids, Exited, worker, children
<1>1. CASE Tag
  BY <1>1 DEF Tag
<1>2. CASE Begin
  <2>1. job' \in 0..MaxJobs /\ job' # 0
    BY <1>2 DEF Begin
  <2>2. mulan' \in BOOLEAN
    BY <1>2, Zenon DEF Begin
  <2> QED
    BY <1>2, <2>1, <2>2 DEF Begin
<1>3. CASE Spawn
  BY SMTT(30), <1>3 DEF Spawn
<1>4. CASE Tick
  BY <1>4 DEF Tick
<1>5. CASE PollExited
  BY <1>5 DEF PollExited
<1>6. CASE End
  BY <1>6 DEF End
<1>7. CASE CheckExit
  BY <1>7 DEF CheckExit, Over
<1>8. CASE Kill
  <2>1. child' \in [Pids -> {"none", "decoding", "writing", "dying"} \cup Exited]
    BY <1>8 DEF Kill
  <2> QED
    BY <1>8, <2>1 DEF Kill
<1>16. CASE Killed
  BY <1>16 DEF Killed, Over
<1>9. CASE Parse
  BY <1>9 DEF Parse, Over, Loads
<1>10. CASE EventLost
  BY <1>10 DEF EventLost, Over, Fault
<1>11. CASE HeartbeatLost
  <2>1. escaped' \subseteq Pids
    BY <1>11 DEF HeartbeatLost, Alive
  <2>2. faults' \in 0..MaxFaults
    BY <1>11 DEF HeartbeatLost, Fault
  <2>3. outcome' \in [Pids -> {"none", "columns", "raised", "exit", "timeout", "event"}]
    BY <1>11 DEF HeartbeatLost, Over
  <2> QED
    BY <1>11, <2>1, <2>2, <2>3 DEF HeartbeatLost, Over
<1>12. CASE WaitExpires
  BY <1>12 DEF WaitExpires, Over, Fault
<1>13. CASE Crash
  <2>1. child' \in [Pids -> {"none", "decoding", "writing", "dying"} \cup Exited]
    BY <1>13 DEF Crash
  <2>2. faults' \in 0..MaxFaults
    BY <1>13 DEF Crash, Fault
  <2>3. mulan' \in BOOLEAN
    BY <1>13, Zenon DEF Crash
  <2> QED
    BY <1>13, <2>1, <2>2, <2>3 DEF Crash
<1>14. ASSUME NEW j \in Pids, Child(j) \/ Die(j) \/ OomKill(j) PROVE TypeOK'
  <2>1. CASE Decoded(j)
    BY SMTT(30), <2>1 DEF Decoded, Go
  <2>2. CASE DecodeFails(j)
    BY <2>2 DEF DecodeFails, Go
  <2>3. CASE Write(j)
    <3>1. left' \in [Pids -> 0..MaxOutput]
      BY SMTT(30), <2>3 DEF Write
    <3>2. pipe' \in [Pids -> 0..PipeSize]
      BY SMTT(30), <2>3 DEF Write
    <3> QED
      BY <2>3, <3>1, <3>2 DEF Write
  <2>4. CASE Exit(j)
    BY <2>4 DEF Exit, Go
  <2>5. CASE Die(j) \/ OomKill(j)
    BY <2>5 DEF Die, OomKill, Go
  <2> QED
    BY <1>14, <2>1, <2>2, <2>3, <2>4, <2>5 DEF Child
<1>15. CASE UNCHANGED vars
  BY <1>15 DEF vars
<1> QED
  BY <1>1, <1>2, <1>3, <1>4, <1>5, <1>6, <1>7, <1>8,
     <1>9, <1>10, <1>11, <1>12, <1>13, <1>14, <1>15, <1>16
  DEF Next, Stage

LEMMA Inductive == IInv /\ [Next]_vars => IInv'
<1> SUFFICES ASSUME IInv, [Next]_vars PROVE IInv'
  OBVIOUS
<1>type. TypeOK'
  BY TypeStep
<1>t. TypeOK
  BY DEF IInv
<1>1. CASE Tag
  BY <1>1, <1>type DEF Tag, IInv, Unloaded, Holding, LetGo, Alive, children
<1>2. CASE Begin
  BY <1>2, <1>type DEF Begin, IInv, Unloaded, Holding, LetGo, Alive, children
<1>3. CASE Spawn
  BY SMTT(30), <1>3, <1>type, <1>t DEF Spawn, IInv, TypeOK, Unloaded, Holding, LetGo, Alive, Pids
<1>4. CASE Tick
  BY <1>4, <1>type DEF Tick, IInv, Unloaded, Holding, LetGo, Alive, children
<1>5. CASE PollExited
  BY <1>5, <1>type DEF PollExited, IInv, Unloaded, Holding, LetGo, Alive, children
<1>6. CASE Kill
  BY <1>6, <1>type, <1>t DEF Kill, IInv, TypeOK, Unloaded, Holding, LetGo, Alive, Exited
<1>7. CASE Killed \/ CheckExit \/ Parse
  BY <1>7, <1>type DEF Killed, CheckExit, Parse, Over, IInv, Unloaded, Holding, LetGo,
                     Alive, Exited, children
<1>8. CASE End
  BY <1>8, <1>type DEF End, IInv, Unloaded, Holding, LetGo, Alive, children
<1>9. CASE EventLost
  <2>1. pc = "exited" => child[proc] \in Exited
    BY DEF IInv, LetGo
  <2>2. Alive' = Alive
    BY <1>9 DEF EventLost, Alive, children
  <2>3. proc \notin Alive
    BY <1>9, <2>1 DEF EventLost, IInv, Holding, Alive, Exited, Pids
  <2>4. Alive \subseteq escaped
    BY <2>3 DEF IInv
  <2> QED
    BY <1>9, <1>type, <2>2, <2>4 DEF EventLost, Over, IInv, Unloaded, Holding, LetGo
<1>10. CASE HeartbeatLost \/ WaitExpires
  BY <1>10, <1>type DEF HeartbeatLost, WaitExpires, Over, IInv, Unloaded,
                      Holding, LetGo, Alive, children
<1>11. CASE Crash
  BY <1>11, <1>type DEF Crash, IInv, Unloaded, Holding, LetGo, Alive
<1>12. ASSUME NEW j \in Pids, Child(j) \/ Die(j) \/ OomKill(j) PROVE IInv'
  <2>1. UNCHANGED worker
    BY <1>12 DEF Child, Decoded, DecodeFails, Write, Exit, Die, OomKill
  <2>2. /\ Alive' \subseteq Alive
        /\ \A i \in Pids : child[i] \in Exited => child'[i] = child[i]
        /\ \A i \in Pids : child[i] = "dying" => child'[i] \in {"dying"} \cup Exited
    BY <1>12, <1>t, AliveShrinks
  <2>3. pc \in {"exited", "parse", "wait"} => proc \in Pids
    BY <1>t DEF TypeOK, Pids
  <2> QED
    BY <1>type, <2>1, <2>2, <2>3 DEF worker, IInv, Unloaded, Holding, LetGo
<1>13. CASE UNCHANGED vars
  BY <1>13, <1>type DEF vars, worker, children, IInv, Unloaded, Holding,
                      LetGo, Alive
<1> QED
  BY <1>1, <1>2, <1>3, <1>4, <1>5, <1>6, <1>7, <1>8, <1>9, <1>10, <1>11, <1>12, <1>13
  DEF Next, Stage

LEMMA Invariance == Spec => []IInv
<1>1. Init => IInv
  <2> SUFFICES ASSUME Init PROVE IInv
    OBVIOUS
  <2>1. TypeOK
    <3>1. mulan \in BOOLEAN
      BY Zenon DEF Init
    <3> QED
      BY <3>1 DEF Init, TypeOK, Pids, Exited
  <2>2. Alive = {}
    BY DEF Init, Alive
  <2> QED
    BY <2>1, <2>2 DEF Init, IInv, Unloaded, Holding, LetGo
<1> QED
  BY <1>1, Inductive, PTL DEF Spec

-------------------------------------------------------------------------------
\* Worker, children, pipes and clock have their types, and a stage in its polling
\* loop holds the child of its own job.
THEOREM TypeCorrect == Spec => []TypeOK
<1>1. IInv => TypeOK
  BY DEF IInv
<1> QED
  BY <1>1, Invariance, PTL

\* Two models are in memory together only with a child a stage has left behind,
\* whatever is lost, slow or killed: unload_mulan and the child process do their part.
THEOREM OneModel == Spec => []OneModelAtATime
<1>1. IInv => OneModelAtATime
  BY DEF IInv, Unloaded, Holding, OneModelAtATime, Alive, Pids
<1> QED
  BY <1>1, Invariance, PTL

-------------------------------------------------------------------------------
\* Why a stage ends, without the fairness that makes it happen.

\* How many steps the stage has at most before it is over.  While it polls, the
\* clock is what runs out.
Remaining == CASE pc = "idle"   -> 0
               [] pc = "over"   -> 1
               [] pc = "parse"  -> 2
               [] pc = "exited" -> 3
               [] pc = "wait"   -> 4
               [] pc = "poll"   -> 6 + HardTimeout - elapsed
               [] pc = "spawn"  -> 7 + HardTimeout

\* Every step of the worker or of the clock, and every fault, brings the stage nearer
\* to its end, and nothing a child or the kernel does takes it back: the safety half
\* of StageEnds.
StageAdvances ==
  [][pc # "idle" =>
       /\ Remaining \in Nat /\ Remaining' \in Nat /\ Remaining' <= Remaining
       /\ Stage \/ Tick \/ EventLost \/ HeartbeatLost \/ WaitExpires \/ Crash
            => Remaining' < Remaining]_vars

\* The worker waits without a limit of its own (Killed) only for a process that has
\* been killed.  A child that its full pipe blocks is one whose stage still polls it,
\* and will kill it at the limit, or one that a stage has left behind, which the worker
\* no longer waits for: parent and child are never both waiting for the other.
NoEmbrace ==
  /\ pc = "wait" => child[proc] \in {"dying"} \cup Exited
  /\ \A j \in Pids : Blocked(j) => j \in escaped \/ (proc = j /\ pc = "poll")

\* What is left is a number.
Counted == Remaining \in Nat

\* For every place the worker can be at.
LEMMA RemainingCounts == TypeOK => Remaining \in Nat
<1> SUFFICES ASSUME TypeOK PROVE Remaining \in Nat
  OBVIOUS
<1>1. CASE pc \in {"poll", "spawn"}
  <2>1. elapsed <= HardTimeout + 1 /\ elapsed \in Nat
    BY DEF TypeOK
  <2> QED
    BY <1>1, <2>1 DEF Remaining
<1>2. CASE pc \notin {"poll", "spawn"}
  BY <1>2 DEF TypeOK, Remaining
<1> QED
  BY <1>1, <1>2

\* One step of the worker, the clock or a fault.
LEMMA StepAdvances ==
  ASSUME IInv, pc # "idle",
         Stage \/ Tick \/ EventLost \/ HeartbeatLost \/ WaitExpires \/ Crash
  PROVE  Remaining' < Remaining
<1>0. elapsed \in 0..HardTimeout + 1
  BY DEF IInv, TypeOK
<1> USE <1>0 DEF Remaining
<1>1. CASE Spawn
  BY <1>1 DEF Spawn
<1>2. CASE PollExited
  BY <1>2 DEF PollExited
<1>3. CASE Kill
  BY <1>3 DEF Kill
<1>4. CASE Killed \/ CheckExit \/ Parse
  BY <1>4 DEF Killed, CheckExit, Parse, Over
<1>5. CASE End
  BY <1>5 DEF End
<1>6. CASE Tick
  BY <1>6 DEF Tick
<1>7. CASE EventLost \/ HeartbeatLost \/ WaitExpires
  BY <1>7 DEF EventLost, HeartbeatLost, WaitExpires, Over
<1>8. CASE Crash
  BY <1>8 DEF Crash, IInv, TypeOK
<1> QED
  BY <1>1, <1>2, <1>3, <1>4, <1>5, <1>6, <1>7, <1>8 DEF Stage

\* No step of anyone takes a stage further from its end.
THEOREM StagesAdvance == Spec => StageAdvances
<1>1. ASSUME IInv, Counted, Counted', [Next]_vars, pc # "idle"
      PROVE  /\ Remaining \in Nat /\ Remaining' \in Nat /\ Remaining' <= Remaining
             /\ Stage \/ Tick \/ EventLost \/ HeartbeatLost \/ WaitExpires \/ Crash
                  => Remaining' < Remaining
  <2>1. Remaining \in Nat /\ Remaining' \in Nat
    BY <1>1 DEF Counted
  <2>2. Remaining' <= Remaining
    <3>1. CASE Stage \/ Tick \/ EventLost \/ HeartbeatLost \/ WaitExpires \/ Crash
      BY <1>1, <2>1, <3>1, StepAdvances
    <3>2. CASE UNCHANGED worker
      <4>1. pc' = pc /\ elapsed' = elapsed
        BY <3>2 DEF worker
      <4>2. Remaining' = Remaining
        BY <1>1, <4>1 DEF Remaining, IInv, TypeOK
      <4> QED
        BY <2>1, <4>2
    <3>3. ASSUME NEW j \in Pids, Child(j) \/ Die(j) \/ OomKill(j) PROVE UNCHANGED worker
      BY <3>3 DEF Child, Decoded, DecodeFails, Write, Exit, Die, OomKill
    <3>4. CASE Tag \/ Begin
      BY <1>1, <3>4 DEF Tag, Begin
    <3> QED
      BY <1>1, <3>1, <3>2, <3>3, <3>4 DEF Next, vars
  <2> QED
    BY <1>1, <2>1, <2>2, StepAdvances
<1>2. IInv => Counted
  BY RemainingCounts DEF IInv, Counted
<1> QED
  BY <1>1, <1>2, Invariance, PTL DEF Spec, StageAdvances

\* Parent and child never wait for each other for good.
THEOREM NeverEmbraced == Spec => []NoEmbrace
<1>1. IInv => NoEmbrace
  <2> SUFFICES ASSUME IInv PROVE NoEmbrace
    OBVIOUS
  <2>1. ASSUME NEW j \in Pids, Blocked(j), j \notin escaped PROVE proc = j /\ pc = "poll"
    <3>1. j \in Alive /\ proc = j
      BY <2>1 DEF IInv, Blocked, Alive
    <3>2. child[proc] = "writing"
      BY <2>1, <3>1 DEF Blocked
    <3> QED
      BY <2>1, <3>1, <3>2 DEF IInv, TypeOK, Holding, LetGo, Exited, Pids
  <2> QED
    BY <2>1 DEF IInv, LetGo, NoEmbrace
<1> QED
  BY <1>1, Invariance, PTL
===============================================================================
