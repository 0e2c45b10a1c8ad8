---------------------------- MODULE ContentIdentity ----------------------------
(***************************************************************************)
(* Which content row an analysis belongs to.  Audio is identified by the   *)
(* hash of its samples, then by its acoustic fingerprint, then by the      *)
(* host path (upsert_content); the cues of a row are the evidence that the *)
(* row's audio has been analyzed (the short-circuit of POST /v1/analyze).  *)
(* The results of the worker carry neither hash nor fingerprint: columns   *)
(* are matched by the job's host_path, cues go to the job's content_id.    *)
(*                                                                         *)
(* An analyzer is a thread running analyze_file.  The service has one, its *)
(* event loop, because POST /v1/analyze never awaits; the CLI has as many  *)
(* as config.workers.  The look-ups of upsert_content run before the       *)
(* transaction of its INSERT or UPDATE, so they are steps of their own.    *)
(* The Player's two questions about a track it knows, GET /v1/tracks/      *)
(* by-hash and the choice of the row in POST .../loops/tag, change nothing *)
(* here: they are operators, and what they answer is stated of any state.  *)
(***************************************************************************)
EXTENDS Naturals, Sequences, FiniteSets, FiniteSetsExt

CONSTANTS
  Audios,       \* audio sample streams, each its own hash
  Prints,       \* acoustic fingerprints
  PrintOf(_),   \* chromaprint of an audio: re-encodings share theirs
  Paths,        \* host paths
  Service,      \* analyzer threads of POST /v1/analyze
  Cli,          \* analyzer threads of the CLI, which enqueues nothing
  MaxUploads    \* bound on the analyses started

NoValue == "none"                           \* NULL

ASSUME IdentityAssumption == /\ \A a \in Audios : PrintOf(a) \in Prints
                             /\ NoValue \notin Audios \cup Prints
                             /\ MaxUploads \in Nat
                             /\ IsFiniteSet(Service \cup Cli)

VARIABLES
  content,      \* the rows, content_id being the index
  jobs,         \* the analyze jobs, in the order in which the worker takes them
  turn,         \* the job the worker is at
  doing,        \* doing[w]: what analyzer w is in the middle of
  uploads       \* every [audio, path] analyzed so far

vars == <<content, jobs, turn, doing, uploads>>

None == 0
Analyzers == Service \cup Cli
Rows == 1..Len(content)
JobIds == 1..Len(jobs)
Nothing == [step |-> "idle"]

RowType == [path : Paths, hash : Audios \cup {NoValue}, print : Prints \cup {NoValue},
            analysis : 0..MaxUploads,      \* the job whose columns the row has
            cues : 0..MaxUploads]          \* the job whose cues the row has
JobType == [audio : Audios, path : Paths, content : Nat \ {0},
            columns : BOOLEAN]             \* have its columns been written?
Found == [id : Nat, by : {"hash", "print", "path", "insert"}]
Doing == {Nothing}
  \cup [step : {"write"}, audio : Audios, path : Paths, print : Prints \cup {NoValue},
        force : BOOLEAN, found : Found]
  \cup [step : {"decide"}, audio : Audios, path : Paths, force : BOOLEAN, id : Nat \ {0}]
TypeOK == /\ content \in Seq(RowType) /\ jobs \in Seq(JobType)
          /\ \A j \in JobIds : jobs[j].content \in Rows
          /\ turn \in 1..(MaxUploads + 1)
          /\ uploads \subseteq Audios \X Paths
          /\ doing \in [Analyzers -> Doing]

Init == /\ content = <<>> /\ jobs = <<>> /\ turn = 1
        /\ doing = [w \in Analyzers |-> Nothing] /\ uploads = {}

Started == Len(jobs) + Cardinality({w \in Analyzers : doing[w] # Nothing})

-------------------------------------------------------------------------------
\* upsert_content: the row that hash, fingerprint or path identify, in this
\* order, and how it was found.
PathOnly(h, f, p) ==                        \* without the two durable identities
  LET byPath == {i \in Rows : content[i].path = p}
  IN IF byPath # {} THEN [id |-> Min(byPath), by |-> "path"]
     ELSE [id |-> None, by |-> "insert"]
PrintAlways(h, f, p) ==                     \* "fingerprint IS ?", missing or not
  LET byHash  == {i \in Rows : h # NoValue /\ content[i].hash = h}
      byPrint == {i \in Rows : content[i].print = f}
  IN IF byHash # {} THEN [id |-> Min(byHash), by |-> "hash"]
     ELSE IF byPrint # {} THEN [id |-> Min(byPrint), by |-> "print"]
     ELSE [id |-> None, by |-> "insert"]
Lookup(h, f, p) ==
  LET byHash  == {i \in Rows : h # NoValue /\ content[i].hash = h}
      byPrint == {i \in Rows : f # NoValue /\ content[i].print = f}
      byPath  == {i \in Rows : content[i].path = p}
  IN IF byHash # {} THEN [id |-> Min(byHash), by |-> "hash"]
     ELSE IF byPrint # {} THEN [id |-> Min(byPrint), by |-> "print"]
     ELSE IF byPath # {} THEN [id |-> Min(byPath), by |-> "path"]
     ELSE [id |-> None, by |-> "insert"]

\* core.load decodes and hashes the file; the fingerprint may be missing.  Then
\* the look-ups.
Load(w, a, p, f, force) ==
  /\ doing[w] = Nothing /\ Started < MaxUploads
  /\ doing' = [doing EXCEPT ![w] =
       [step |-> "write", audio |-> a, path |-> p, print |-> f, force |-> force,
        found |-> Lookup(a, f, p)]]
  /\ uploads' = uploads \cup {<<a, p>>}
  /\ UNCHANGED <<content, jobs, turn>>

\* The INSERT, or the UPDATE of the row found: hash and fingerprint (if there is
\* one) are overwritten, the path of a row found by identity is not.
Write(w) ==
  LET d == doing[w]
      new == [path |-> d.path, hash |-> d.audio, print |-> d.print,
              analysis |-> None, cues |-> None]
      id == IF d.found.by = "insert" THEN Len(content) + 1 ELSE d.found.id
  IN /\ d.step = "write"
     /\ content' = IF d.found.by = "insert" THEN Append(content, new)
                   ELSE [content EXCEPT
                           ![id].hash = d.audio,
                           ![id].print = IF d.print = NoValue THEN @ ELSE d.print]
     /\ doing' = [doing EXCEPT ![w] =
                    IF w \in Cli THEN Nothing
                    ELSE [step |-> "decide", audio |-> d.audio, path |-> d.path,
                          force |-> d.force, id |-> id]]
     /\ UNCHANGED <<jobs, turn, uploads>>

\* The row has analyzer cues: nothing is enqueued.
Cached(w) == /\ doing[w].step = "decide"
             /\ ~doing[w].force /\ content[doing[w].id].cues # None
             /\ doing' = [doing EXCEPT ![w] = Nothing]
             /\ UNCHANGED <<content, jobs, turn, uploads>>

Queued(w) == /\ doing[w].step = "decide"
             /\ doing[w].force \/ content[doing[w].id].cues = None
             /\ jobs' = Append(jobs, [audio |-> doing[w].audio, path |-> doing[w].path,
                                      content |-> doing[w].id,
                                      columns |-> FALSE])
             /\ doing' = [doing EXCEPT ![w] = Nothing]
             /\ UNCHANGED <<content, turn, uploads>>

-------------------------------------------------------------------------------
\* worker_result with columns (structure, key): matched by host_path alone, and
\* a row is inserted when no row has that path.
ResultColumns ==
  /\ turn \in JobIds /\ ~jobs[turn].columns
  /\ LET found == Lookup(NoValue, NoValue, jobs[turn].path)
         new == [path |-> jobs[turn].path, hash |-> NoValue, print |-> NoValue,
                 analysis |-> turn, cues |-> None]
         id == IF found.by = "insert" THEN Len(content) + 1 ELSE found.id
     IN /\ content' = IF found.by = "insert" THEN Append(content, new)
                      ELSE [content EXCEPT ![id].analysis = turn]
        /\ jobs' = [jobs EXCEPT ![turn].columns = TRUE]
  /\ UNCHANGED <<turn, doing, uploads>>

\* The final result carries cues only, for the content_id of the job; without
\* cues (loop_propose found none) the row's old ones are not touched.
ResultCues ==
  /\ turn \in JobIds /\ jobs[turn].columns
  /\ content' = [content EXCEPT ![jobs[turn].content].cues = turn] \/ UNCHANGED content
  /\ turn' = turn + 1
  /\ UNCHANGED <<jobs, doing, uploads>>

FailUnclaimed ==                            \* for an empty queue, too
  /\ turn' = turn + 1
  /\ UNCHANGED <<content, jobs, doing, uploads>>
\* A stage failed: the worker goes on to the next job.
JobFails == /\ turn \in JobIds
            /\ turn' = turn + 1
            /\ UNCHANGED <<content, jobs, doing, uploads>>

-------------------------------------------------------------------------------
WithHash(h) == {i \in Rows : content[i].hash = h}
WithPath(p) == {i \in Rows : content[i].path = p}

\* GET /v1/tracks/by-hash: the row, if there are analyzer cues for it.
Probe(h) == LET known == WithHash(h)
            IN IF known # {} /\ content[Min(known)].cues # None THEN Min(known) ELSE None

\* POST /v1/tracks/{id}/loops/tag: the row of the hash, of the path, or of the
\* number in the URL, which is the Player's.
TagTarget(h, p, id) ==
  IF WithHash(h) # {} THEN [id |-> Min(WithHash(h)), by |-> "hash"]
  ELSE IF WithPath(p) # {} THEN [id |-> Min(WithPath(p)), by |-> "path"]
  ELSE [id |-> id, by |-> "url"]
AnyJobs(id) == JobIds                       \* without WHERE content_id=?
\* The jobs whose upload may be cut into loops: the code takes the row's newest by
\* created_at, which two of them may have in common (it counts seconds), or have in
\* another order than their ids.  Here it may be any of the row's.
TagSources(id) == {j \in JobIds : jobs[j].content = id}

Next == \/ \E w \in Analyzers, a \in Audios, p \in Paths, force \in BOOLEAN :
             \E f \in {PrintOf(a), NoValue} : Load(w, a, p, f, force)
        \/ \E w \in Analyzers : Write(w) \/ Cached(w) \/ Queued(w)
        \/ ResultColumns \/ ResultCues \/ JobFails

Spec == Init /\ [][Next]_vars

-------------------------------------------------------------------------------
\* Same samples, same row: at most one row has a given hash.
HashUnique == \A i, k \in Rows : content[i].hash = content[k].hash
                                   /\ content[i].hash # NoValue => i = k

SameMusic(a, b) == PrintOf(a) = PrintOf(b)

\* No file has been replaced by other music at the same path.
Settled == \A u, v \in uploads : u[2] = v[2] => SameMusic(u[1], v[1])

\* "The heavy pipeline already ran on this exact audio" (POST /v1/analyze): the
\* cues a cached answer stands for were computed from that audio, or from a
\* re-encoding of it, as long as no path has changed its music.
CacheServesOwn ==
  [][Settled => \A w \in Service : Cached(w) =>
       SameMusic(jobs[content[doing[w].id].cues].audio, doing[w].audio)]_vars

\* The columns of a row (beat grid, key) were computed from the music its hash
\* identifies, not from that of another row's path, again as long as no path
\* has changed its music.
AnalysisMatchesHash ==
  Settled => \A i \in Rows : content[i].analysis # None /\ content[i].hash # NoValue
                    => SameMusic(jobs[content[i].analysis].audio, content[i].hash)

\* "If the Service already has analysis for this file_hash, return the full track
\* detail": the cues the Player takes over without an upload are of its music.
ProbeServesOwn ==
  Settled => \A h \in Audios : Probe(h) # None =>
               SameMusic(jobs[content[Probe(h)].cues].audio, h)

\* A tag request for a track the service has seen cuts its loops out of that
\* track's music, and moves the cues of that track, when its hash or path is known:
\* "the URL content_id alone is unreliable".
TagsOwnAudio ==
  Settled => \A u \in uploads : \A id \in Rows :
    LET target == TagTarget(u[1], u[2], id) IN
    target.by # "url" =>
      /\ \A j \in TagSources(target.id) : SameMusic(jobs[j].audio, u[1])
      /\ content[target.id].cues # None =>
            SameMusic(jobs[content[target.id].cues].audio, u[1])
===============================================================================
