-------------------------------- MODULE CueTags --------------------------------
(***************************************************************************)
(* The analyzer cues of one content row: loop_propose replaces them, the   *)
(* Player moves them, and tag jobs embed the audio under them.             *)
(* POST /v1/tracks/{id}/loops/tag carries the Player's windows; the two    *)
(* sides number their cues independently, so the service matches windows   *)
(* to its own cues by position, moves these and enqueues a tag job.  The   *)
(* worker takes the jobs one by one, reads the cues again, embeds those    *)
(* whose window is not the one they were last embedded at, and posts the   *)
(* results.                                                                *)
(*                                                                         *)
(* A request reads the cues before its first UPDATE takes the write lock   *)
(* (the driver begins a transaction there), so other requests and results  *)
(* come between its reading and its writing.  From that UPDATE to the      *)
(* commit of the job it is alone, and reads the clock: the jobs of         *)
(* requests that move cues are claimed in the order of their commits.      *)
(*                                                                         *)
(* A window is a pair <<point, length>>; the denominators are 1000 in all  *)
(* analyzer cues, so the worker reads back what was written.  An embedding *)
(* is the window it was computed from, which is also the signature stored  *)
(* with it (embedded_at_position).                                         *)
(***************************************************************************)
EXTENDS Naturals, Sequences, FiniteSets, Functions

CONSTANTS
  Windows,      \* windows the Player sends and loop_propose finds
  TooShort,     \* those with less than a second of audio, or outside the track
  PlayerIds,    \* the Player's own ids of its cues
  Proposals,    \* sets of windows loop_propose may find
  MaxRequest,   \* bound: windows in one request
  MaxOpened,    \* bound: requests in the middle of being served
  MaxJobs,      \* bound: jobs
  MaxCues       \* bound: cue ids

ASSUME CuesAssumption ==
  /\ \A w \in Windows : w[1] \in Nat /\ w[2] \in Nat
  /\ TooShort \subseteq Windows
  /\ PlayerIds \subseteq Nat \ {0}
  /\ \A found \in Proposals : /\ IsFiniteSet(found) /\ found \subseteq Windows
                               /\ \A w \in found : w[2] > 0
  /\ MaxRequest \in Nat \ {0} /\ MaxOpened \in Nat
  /\ MaxJobs \in Nat /\ MaxCues \in Nat

VARIABLES
  cues,         \* the rows: cue_id -> [window, sig]
  lastId,       \* AUTOINCREMENT of the table cue
  opened,       \* requests that have read the cues and not written yet
  jobs,         \* in the order in which the worker takes them
  turn,         \* the job the worker is at
  pc,           \* "poll", or "embed" with the cues fetched
  fetched,      \* what the worker read: cue_id -> [window, sig]
  late,         \* results the worker has given up on and the service has not
  unserved      \* cues of a job that was abandoned, or set back by a late result,
                \* and not embedded since

vars == <<cues, lastId, opened, jobs, turn, pc, fetched, late, unserved>>

None == <<>>                                \* embedded_at_position ""
CueIds == 1..MaxCues
Live == DOMAIN cues
Loops == {w \in Windows : w[2] > 0}
Cue == [window : Loops, sig : Loops \cup {None}]
Tables == UNION {[S -> Cue] : S \in SUBSET CueIds}
\* cue_updates of a result: cue_id -> the window that was embedded.
Results == UNION {[S -> Loops] : S \in SUBSET CueIds}
\* What a request has decided: claims[k] is the cue its k-th window is for.  asked and
\* supply, here and in its job, are kept for the properties: the number of windows it
\* had with a length, and of cues it found.
Claims == UNION {[S -> [cue : CueIds, window : Loops]] : S \in SUBSET (1..MaxRequest)}
Opened == [claims : Claims, asked : 0..MaxRequest, supply : 0..MaxCues]
\* ids and force are the payload, ids by the position of the window that claimed the
\* cue; live are the cues there were when the job was committed.
Payloads == UNION {[S -> CueIds \cup PlayerIds] : S \in SUBSET (1..MaxRequest)}
JobType == [kind : {"tag", "propose"}, ids : Payloads, force : BOOLEAN,
            asked : 0..MaxRequest, supply : 0..MaxCues, live : SUBSET CueIds]

TypeOK == /\ cues \in Tables /\ lastId \in 0..MaxCues
          /\ opened \subseteq Opened
          /\ jobs \in Seq(JobType) /\ turn \in 1..(Len(jobs) + 1)
          /\ pc \in {"poll", "embed"} /\ fetched \in Tables
          /\ late \subseteq Results
          /\ unserved \subseteq CueIds

Init == /\ cues = None /\ lastId = 0 /\ opened = {} /\ jobs = <<>> /\ turn = 1
        /\ pc = "poll" /\ fetched = None /\ late = {} /\ unserved = {}

Current == jobs[turn]
Distance(a, b) == IF a[1] < b[1] THEN b[1] - a[1] ELSE a[1] - b[1]

-------------------------------------------------------------------------------
\* The cue a window w of the request gets when those in claimed are taken: the
\* one at exactly w (the last of several), else the closest unclaimed one (the
\* first of several); NoCue when all are claimed.
NoCue == 0
Closest(w, S) ==
  {i \in S : \A k \in S :
      \/ Distance(cues[i].window, w) < Distance(cues[k].window, w)
      \/ Distance(cues[i].window, w) = Distance(cues[k].window, w) /\ i <= k}
ClosestRegardless(w, claimed) ==            \* smallest |delta|, claimed or not
  IF Live = {} THEN {NoCue} ELSE Closest(w, Live)
Matched(w, claimed) ==
  LET exact == {i \in Live : /\ cues[i].window = w
                             /\ \A k \in Live : cues[k].window = w => k <= i}
      free  == Live \ claimed
  IN IF exact \ claimed # {} THEN exact \ claimed
     ELSE IF free = {} THEN {NoCue} ELSE Closest(w, free)

\* The windows of a request with a length, and the cues they claim in their order:
\* own is what the loop over them leaves behind.
AsSent(windows) == DOMAIN windows           \* without the check of length_ms
WithLength(windows) == {k \in DOMAIN windows : windows[k][2] > 0}
Claimed(own, k) == {own[m] : m \in {m \in DOMAIN own : m < k}}
Resolves(own, windows) ==
  \A k \in DOMAIN own : own[k] \in Matched(windows[k], Claimed(own, k))

\* POST /v1/tracks/{id}/loops/tag reads the cues, and its windows claim them.
Tag(windows) ==
  /\ Cardinality(opened) < MaxOpened /\ Len(jobs) < MaxJobs
  /\ \E own \in [WithLength(windows) -> Live \cup {NoCue}] :
       LET resolved == {k \in DOMAIN own : own[k] # NoCue}
       IN /\ Resolves(own, windows)
          /\ opened' = opened \cup
               {[claims |-> [k \in resolved |-> [cue |-> own[k], window |-> windows[k]]],
                 asked |-> Cardinality(DOMAIN own), supply |-> Cardinality(Live)]}
  /\ UNCHANGED <<cues, lastId, jobs, turn, pc, fetched, late, unserved>>

Ids(q) == [k \in DOMAIN q.claims |-> q.claims[k].cue]

\* Its UPDATEs, which pass over cues that are gone, and the INSERT of its job.  A
\* request none of whose windows is resolved asks for the cue_ids it names, if it
\* does.  One just like it may still be in the middle.
WriteTag(q) ==
  LET ids == Ids(q)
      moved(i) == q.claims[CHOOSE k \in DOMAIN ids : ids[k] = i].window
  IN /\ Len(jobs) < MaxJobs
     /\ opened' \in {opened, opened \ {q}}
     /\ cues' = [i \in Live |->
          IF i \in Range(ids) THEN [cues[i] EXCEPT !.window = moved(i)] ELSE cues[i]]
     /\ \E payload \in IF ids = <<>> THEN {<<>>} \cup {<<i>> : i \in PlayerIds} ELSE {ids} :
          \E force \in BOOLEAN :
            jobs' = Append(jobs, [kind |-> "tag", force |-> force, ids |-> payload,
                                  asked |-> q.asked, supply |-> q.supply, live |-> Live])
     /\ UNCHANGED <<lastId, turn, pc, fetched, late, unserved>>

\* The database stays locked for too long: 500.
Refused(q) == /\ opened' = opened \ {q}
              /\ UNCHANGED <<cues, lastId, jobs, turn, pc, fetched, late, unserved>>

\* POST /v1/analyze with force: loop_propose runs again.
Regenerate == /\ Len(jobs) < MaxJobs
              /\ jobs' = Append(jobs, [kind |-> "propose", force |-> FALSE,
                                       ids |-> <<>>, asked |-> 0, supply |-> 0,
                                       live |-> Live])
              /\ UNCHANGED <<cues, lastId, opened, turn, pc, fetched, late, unserved>>

-------------------------------------------------------------------------------
\* The loops loop_propose found, as it lists them.
InTimeOrder(found) ==
  {new \in [1..Cardinality(found) -> found] :
     /\ Range(new) = found
     /\ \A a, b \in DOMAIN new : a < b => new[a][1] <= new[b][1]}

\* The worker at a job of kind analyze.  With cues in its result the old ones are
\* deleted and get new ids; with none they stay.
Propose ==
  /\ turn <= Len(jobs) /\ Current.kind = "propose"
  /\ \E found \in Proposals : \E new \in InTimeOrder(found) :
       /\ lastId + Len(new) <= MaxCues
       /\ lastId' = lastId + Len(new)
       /\ cues' = IF found = {} THEN cues
                  ELSE [i \in (lastId + 1)..lastId' |->
                          [window |-> new[i - lastId], sig |-> None]]
  /\ turn' = turn + 1
  /\ UNCHANGED <<opened, jobs, pc, fetched, late, unserved>>

\* A tag job: GET /v1/tracks/{id}, and the cues it asks for that are there.
Fetch == /\ turn <= Len(jobs) /\ Current.kind = "tag" /\ pc = "poll"
         /\ Current.ids # <<>>
         /\ fetched' = Restrict(cues, Live \cap Range(Current.ids))
         /\ pc' = "embed"
         /\ UNCHANGED <<cues, lastId, opened, jobs, turn, late, unserved>>

\* Nothing was asked for: the job is closed.
Blank == /\ turn <= Len(jobs) /\ Current.kind = "tag" /\ Current.ids = <<>>
         /\ turn' = turn + 1
         /\ UNCHANGED <<cues, lastId, opened, jobs, pc, fetched, late, unserved>>

\* tag_cues: what was embedded here already is skipped (the dirty check), and so
\* is a window with too little audio.
UntaggedOnly(c, force) ==                   \* a check that forgets the position
  (c.sig = None \/ force) /\ c.window \notin TooShort
Dirty(c, force) == (c.sig # c.window \/ force) /\ c.window \notin TooShort

Embedded(read, force) ==
  [i \in {i \in DOMAIN read : Dirty(read[i], force)} |-> read[i].window]

\* The UPDATEs of a result, by cue_id and whatever became of the cue since it was
\* read; cues that are gone are passed over.
Updated(result) ==
  [i \in Live |-> IF i \in DOMAIN result THEN [cues[i] EXCEPT !.sig = result[i]]
                  ELSE cues[i]]

NextJob == pc' = "poll" /\ fetched' = None /\ turn' = turn + 1

\* tag_cues, then the result.
Embed == /\ pc = "embed"
         /\ cues' = Updated(Embedded(fetched, Current.force))
         /\ unserved' = unserved \ {i \in Live \cap DOMAIN fetched :
                                     cues'[i].sig = fetched[i].window}
         /\ NextJob
         /\ UNCHANGED <<lastId, opened, jobs, late>>

\* The model raises or the service does not answer: track_failed, or nothing.
Abandon == /\ pc = "embed"
           /\ unserved' = unserved \cup DOMAIN fetched
           /\ NextJob
           /\ UNCHANGED <<cues, lastId, opened, jobs, late>>

\* The worker's client gives up on the POST of the result, which is executed later...
Unanswered == /\ pc = "embed"
              /\ late' = late \cup {Embedded(fetched, Current.force)}
              /\ unserved' = unserved \cup DOMAIN fetched
              /\ NextJob
              /\ UNCHANGED <<cues, lastId, opened, jobs>>

\* ...and may set a cue back to what it was read as, after a newer embedding.
LateResult(r) == /\ cues' = Updated(r)
                 /\ late' = late \ {r}
                 /\ unserved' = unserved \cup {i \in Live : /\ cues'[i] # cues[i]
                                                            /\ cues'[i].sig # cues[i].window}
                 /\ UNCHANGED <<lastId, opened, jobs, turn, pc, fetched>>

Requests == UNION {[1..n -> Windows] : n \in 0..MaxRequest}
Next == \/ \E r \in Requests : Tag(r)
        \/ \E q \in opened : WriteTag(q) \/ Refused(q)
        \/ Regenerate
        \/ Propose \/ Fetch \/ Blank \/ Embed \/ Abandon \/ Unanswered
        \/ \E r \in late : LateResult(r)

Spec == Init /\ [][Next]_vars

-------------------------------------------------------------------------------
TagJobs == {n \in DOMAIN jobs : jobs[n].kind = "tag"}
\* Job n is to tag cue i, which there was when it was asked for.
Asks(n, i) == n \in TagJobs /\ i \in Range(jobs[n].ids) \cap jobs[n].live

OwnCues(j) ==
  j.asked > 0 /\ j.supply > 0 =>
    /\ IsInjective(j.ids)
    /\ Cardinality(DOMAIN j.ids) = IF j.asked < j.supply THEN j.asked ELSE j.supply

\* Every window of a request claims a cue of its own while there are any: no cue
\* is resolved twice ("Prevents the duplicate-id collision", loops_tag).
ResolvedDistinct == \A n \in TagJobs : OwnCues(jobs[n])

\* "MuQ embeds the user-edited windows, not stale ones" (loops_tag): a cue whose
\* tagging was asked for is embedded at the window it has now, or a job that will
\* see this window is still to come, or its job was abandoned, or there is too
\* little audio.
TagsCatchUp ==
  \A i \in Live :
    (\E n \in 1..(turn - 1) : Asks(n, i)) /\ cues[i].sig # cues[i].window =>
      \/ i \in unserved \/ cues[i].window \in TooShort
      \/ \E n \in (turn + 1)..Len(jobs) : Asks(n, i)
      \/ Asks(turn, i) /\ (pc = "poll" \/ fetched[i].window = cues[i].window)

===============================================================================
