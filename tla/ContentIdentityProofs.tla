------------------------ MODULE ContentIdentityProofs ------------------------
(***************************************************************************)
(* For any number of audios, paths, uploads and threads: one row never     *)
(* mixes the analyses of different music, as long as no path has changed   *)
(* its music; and with one thread there is one row per hash.               *)
(***************************************************************************)
EXTENDS ContentIdentity, FiniteSetTheorems, SequenceTheorems, WellFoundedInduction, TLAPS

(***************************************************************************)
(* What is inductive.  Own: every row has been made for an upload at its   *)
(* path, and hash, fingerprint, columns, cues, jobs and the threads that   *)
(* have found the row are all of that upload's music.  Each identity used  *)
(* by upsert_content is one of these, and each writer is another.          *)
(***************************************************************************)
Pointing ==
  \A w \in Analyzers :
    /\ doing[w].step = "write" =>
         /\ <<doing[w].audio, doing[w].path>> \in uploads
         /\ doing[w].print \in {PrintOf(doing[w].audio), NoValue}
         /\ doing[w].found.by = "insert" <=> doing[w].found.id = None
         /\ doing[w].found.id \in Rows \cup {None}
    /\ doing[w].step = "decide" =>
         <<doing[w].audio, doing[w].path>> \in uploads /\ doing[w].id \in Rows
Seen == \A j \in JobIds : <<jobs[j].audio, jobs[j].path>> \in uploads
Busy == {w \in Analyzers : doing[w] # Nothing}
Counted == /\ Len(jobs) + Cardinality(Busy) <= MaxUploads
           /\ turn <= Len(jobs) + 1
           /\ \A i \in Rows : content[i].analysis <= Len(jobs) /\ content[i].cues <= Len(jobs)

OfMusic(i, f) ==
  /\ content[i].hash # NoValue => PrintOf(content[i].hash) = f
  /\ content[i].print # NoValue => content[i].print = f
  /\ content[i].analysis # None => PrintOf(jobs[content[i].analysis].audio) = f
  /\ content[i].cues # None => PrintOf(jobs[content[i].cues].audio) = f
  /\ \A j \in JobIds : jobs[j].content = i => PrintOf(jobs[j].audio) = f
  /\ \A w \in Analyzers :
       /\ doing[w].step = "write" /\ doing[w].found.id = i => PrintOf(doing[w].audio) = f
       /\ doing[w].step = "decide" /\ doing[w].id = i => PrintOf(doing[w].audio) = f
Own == Settled => \A i \in Rows : \E u \in uploads :
                    u[2] = content[i].path /\ OfMusic(i, PrintOf(u[1]))

IInv == TypeOK /\ Pointing /\ Seen /\ Counted /\ Own

-------------------------------------------------------------------------------
\* Least and greatest ids.

LEMMA MinIsLeast ==
  ASSUME NEW S, S \subseteq Nat, S # {}
  PROVE  Min(S) \in S /\ \A y \in S : Min(S) <= y
<1> DEFINE R == OpToRel(<, Nat)
<1>1. \E x \in S : \A y \in S : ~(<<y, x>> \in R)
  BY NatLessThanWellFounded, WFMin
<1>2. \A x \in S, y \in S : <<y, x>> \in R <=> y < x
  BY DEF OpToRel
<1> HIDE DEF R
<1>3. PICK x \in S : \A y \in S : ~(y < x)
  BY <1>1, <1>2
<1>4. \A y \in S : x <= y
  BY <1>3
<1> QED
  BY <1>4 DEF Min

\* What upsert_content's look-ups find.
LEMMA LookupFinds ==
  ASSUME TypeOK, NEW h, NEW f, NEW p
  PROVE  LET found == Lookup(h, f, p) IN
         /\ found \in Found
         /\ found.by = "insert" <=> found.id = None
         /\ found.id \in Rows \cup {None}
         /\ found.by = "hash" => h # NoValue /\ content[found.id].hash = h
         /\ found.by = "print" => f # NoValue /\ content[found.id].print = f
         /\ found.by = "path" => content[found.id].path = p
         /\ found.by # "hash" /\ h # NoValue => \A i \in Rows : content[i].hash # h
<1> DEFINE byHash  == {i \in Rows : h # NoValue /\ content[i].hash = h}
           byPrint == {i \in Rows : f # NoValue /\ content[i].print = f}
           byPath  == {i \in Rows : content[i].path = p}
           found == Lookup(h, f, p)
<1>1. Rows \subseteq Nat \ {0}
  BY DEF Rows, TypeOK
<1>2. CASE byHash # {}
  <2>1. found = [id |-> Min(byHash), by |-> "hash"]
    BY <1>2 DEF Lookup
  <2>2. Min(byHash) \in byHash
    BY <1>1, <1>2, MinIsLeast
  <2> QED
    BY <1>1, <2>1, <2>2 DEF Found, None
<1>3. CASE byHash = {} /\ byPrint # {}
  <2>1. found = [id |-> Min(byPrint), by |-> "print"]
    BY <1>3 DEF Lookup
  <2>2. Min(byPrint) \in byPrint
    BY <1>1, <1>3, MinIsLeast
  <2>3. found.id = Min(byPrint) /\ found.by = "print" /\ found.id \in Rows
    BY <2>1, <2>2
  <2>4. found \in Found /\ found.id # None
    BY <1>1, <2>1, <2>3 DEF Found, None
  <2>5. h # NoValue => \A i \in Rows : content[i].hash # h
    BY <1>3
  <2> QED
    BY <2>2, <2>3, <2>4, <2>5
<1>4. CASE byHash = {} /\ byPrint = {} /\ byPath # {}
  <2>1. found = [id |-> Min(byPath), by |-> "path"]
    BY <1>4 DEF Lookup
  <2>2. Min(byPath) \in byPath
    BY <1>1, <1>4, MinIsLeast
  <2>3. found.id = Min(byPath) /\ found.by = "path" /\ found.id \in Rows
    BY <2>1, <2>2
  <2>4. found \in Found /\ found.id # None
    BY <1>1, <2>1, <2>3 DEF Found, None
  <2>5. h # NoValue => \A i \in Rows : content[i].hash # h
    BY <1>4
  <2> QED
    BY <2>2, <2>3, <2>4, <2>5
<1>5. CASE byHash = {} /\ byPrint = {} /\ byPath = {}
  <2>1. found = [id |-> None, by |-> "insert"]
    BY <1>5 DEF Lookup
  <2> QED
    BY <1>5, <2>1 DEF Found, None
<1> QED
  BY <1>2, <1>3, <1>4, <1>5

-------------------------------------------------------------------------------
LEMMA InitIInv == Init => IInv
<1> SUFFICES ASSUME Init PROVE IInv
  OBVIOUS
<1>1. Rows = {} /\ JobIds = {} /\ Busy = {} /\ Len(jobs) = 0
  BY DEF Init, Rows, JobIds, Busy
<1>2. TypeOK
  BY <1>1, IdentityAssumption DEF Init, TypeOK, Doing
<1>3. \A w \in Analyzers : doing[w].step = "idle"
  BY DEF Init, Nothing
<1>4. Pointing
  BY <1>3 DEF Pointing
<1>5. Counted
  BY <1>1, FS_EmptySet, IdentityAssumption DEF Counted, Init
<1> QED
  BY <1>1, <1>2, <1>4, <1>5 DEF IInv, Seen, Own
-------------------------------------------------------------------------------
\* The music of a row is told by any upload at its path.
LEMMA MusicAtPath ==
  ASSUME IInv, Settled, NEW i \in Rows, NEW a, NEW p,
         <<a, p>> \in uploads, content[i].path = p
  PROVE  OfMusic(i, PrintOf(a))
<1>1. PICK u \in uploads : u[2] = content[i].path /\ OfMusic(i, PrintOf(u[1]))
  BY DEF IInv, Own
<1>2. SameMusic(u[1], a)
  BY <1>1 DEF Settled
<1> QED
  BY <1>1, <1>2 DEF SameMusic

LEMMA BusyTypes ==
  ASSUME TypeOK
  PROVE  /\ IsFiniteSet(Busy) /\ Cardinality(Busy) \in Nat
         /\ Len(jobs) \in Nat /\ Len(content) \in Nat /\ turn \in Nat
         /\ \A w \in Analyzers : /\ doing[w] = Nothing <=> doing[w].step = "idle"
                                 /\ doing[w].step \in {"idle", "write", "decide"}
<1>1. Busy \subseteq Analyzers
  BY DEF Busy
<1>2. IsFiniteSet(Busy) /\ Cardinality(Busy) \in Nat
  BY <1>1, FS_Subset, FS_CardinalityType, IdentityAssumption DEF Analyzers
<1>3. ASSUME NEW w \in Analyzers
      PROVE  /\ doing[w] = Nothing <=> doing[w].step = "idle"
             /\ doing[w].step \in {"idle", "write", "decide"}
  <2>1. doing[w] \in Doing
    BY DEF TypeOK
  <2> QED
    BY <2>1 DEF Doing, Nothing
<1> QED
  BY <1>2, <1>3, IdentityAssumption DEF TypeOK

LEMMA LoadKeeps ==
  ASSUME IInv, NEW w \in Analyzers, NEW a \in Audios, NEW p \in Paths,
         NEW f \in {PrintOf(a), NoValue}, NEW force \in BOOLEAN, Load(w, a, p, f, force)
  PROVE  IInv'
<1> USE DEF IInv
<1> DEFINE found == Lookup(a, f, p)
           d == [step |-> "write", audio |-> a, path |-> p, print |-> f, force |-> force,
                 found |-> found]
<1>1. /\ doing[w] = Nothing /\ Started < MaxUploads
      /\ doing' = [doing EXCEPT ![w] = d] /\ uploads' = uploads \cup {<<a, p>>}
      /\ UNCHANGED <<content, jobs, turn>>
  BY DEF Load
<1>2. /\ found \in Found /\ (found.by = "insert" <=> found.id = None)
      /\ found.id \in Rows \cup {None}
      /\ found.by = "hash" => a # NoValue /\ content[found.id].hash = a
      /\ found.by = "print" => f # NoValue /\ content[found.id].print = f
      /\ found.by = "path" => content[found.id].path = p
  BY LookupFinds
<1> HIDE DEF found
<1>3. Rows' = Rows /\ JobIds' = JobIds
  BY <1>1 DEF Rows, JobIds
<1>4. d \in Doing
  BY <1>2, IdentityAssumption DEF Doing
<1>5. TypeOK'
  BY <1>1, <1>3, <1>4 DEF TypeOK
<1>6. /\ d.step = "write" /\ d.audio = a /\ d.path = p /\ d.print = f /\ d.found = found
      /\ doing'[w] = d /\ \A v \in Analyzers \ {w} : doing'[v] = doing[v]
  BY <1>1 DEF TypeOK
<1> HIDE DEF d
<1>7. Pointing'
  <2> SUFFICES ASSUME NEW v \in Analyzers
               PROVE  /\ doing'[v].step = "write" =>
                           /\ <<doing'[v].audio, doing'[v].path>> \in uploads'
                           /\ doing'[v].print \in {PrintOf(doing'[v].audio), NoValue}
                           /\ doing'[v].found.by = "insert" <=> doing'[v].found.id = None
                           /\ doing'[v].found.id \in Rows \cup {None}
                      /\ doing'[v].step = "decide" =>
                           <<doing'[v].audio, doing'[v].path>> \in uploads' /\ doing'[v].id \in Rows
    BY <1>3 DEF Pointing
  <2>1. CASE v = w
    BY <1>1, <1>2, <1>6, <2>1
  <2>2. CASE v # w
    BY <1>1, <1>6, <2>2 DEF Pointing
  <2> QED
    BY <2>1, <2>2
<1>8. Seen'
  BY <1>1, <1>3 DEF Seen
<1>9. Counted'
  <2>1. doing'[w] # Nothing
    BY <1>6 DEF Nothing
  <2>2. Busy' = Busy \cup {w} /\ w \notin Busy
    BY <1>1, <1>6, <2>1 DEF Busy
  <2>3. Cardinality(Busy') = Cardinality(Busy) + 1
    BY <2>2, BusyTypes, FS_AddElement
  <2>4. Len(jobs) + Cardinality(Busy) < MaxUploads
    BY <1>1 DEF Started, Busy
  <2>5. Len(jobs) + Cardinality(Busy') <= MaxUploads
    BY <2>3, <2>4, BusyTypes, IdentityAssumption
  <2> QED
    BY <1>1, <1>3, <2>5 DEF Counted
<1>10. Own'
  <2> SUFFICES ASSUME Settled', NEW i \in Rows
               PROVE  \E u \in uploads' : u[2] = content[i].path /\ OfMusic(i, PrintOf(u[1]))'
    BY <1>1, <1>3 DEF Own
  <2>1. Settled
    BY <1>1 DEF Settled
  <2>2. PICK u \in uploads : u[2] = content[i].path /\ OfMusic(i, PrintOf(u[1]))
    BY <2>1 DEF Own
  <2>3. found.id = i => PrintOf(a) = PrintOf(u[1])
    <3>1. CASE found.by = "hash" /\ found.id = i
      BY <1>2, <2>2, <3>1 DEF OfMusic
    <3>2. CASE found.by = "print" /\ found.id = i
      BY <1>2, <2>2, <3>2 DEF OfMusic
    <3>3. CASE found.by = "path" /\ found.id = i
      <4>1. u \in uploads' /\ <<a, p>> \in uploads' /\ u[2] = p
        BY <1>1, <1>2, <2>2, <3>3
      <4>2. SameMusic(u[1], a)
        BY <4>1 DEF Settled
      <4> QED
        BY <4>2 DEF SameMusic
    <3>4. found.id = i => found.by \in {"hash", "print", "path"}
      BY <1>2 DEF Rows, None, Found, TypeOK
    <3> QED
      BY <3>1, <3>2, <3>3, <3>4
  <2>4. OfMusic(i, PrintOf(u[1]))'
    <3>1. ASSUME NEW v \in Analyzers
          PROVE  /\ doing'[v].step = "write" /\ doing'[v].found.id = i
                      => PrintOf(doing'[v].audio) = PrintOf(u[1])
                 /\ doing'[v].step = "decide" /\ doing'[v].id = i
                      => PrintOf(doing'[v].audio) = PrintOf(u[1])
      <4>1. CASE v = w
        BY <1>6, <2>3, <4>1
      <4>2. CASE v # w
        BY <1>6, <2>2, <4>2 DEF OfMusic
      <4> QED
        BY <4>1, <4>2
    <3> QED
      BY <1>1, <1>3, <2>2, <3>1 DEF OfMusic
  <2> QED
    BY <1>1, <2>2, <2>4
<1> QED
  BY <1>5, <1>7, <1>8, <1>9, <1>10

\* What a step does that frees w, or takes it from its write to its decision,
\* and leaves the jobs alone.
LEMMA FreeKeepsCounted ==
  ASSUME TypeOK, Len(jobs) + Cardinality(Busy) <= MaxUploads, NEW w \in Analyzers,
         doing[w] # Nothing, NEW d \in Doing, doing' = [doing EXCEPT ![w] = d],
         UNCHANGED jobs
  PROVE  Len(jobs') + Cardinality(Busy') <= MaxUploads
<1>1. Busy' \subseteq Busy
  BY DEF Busy, TypeOK
<1>2. Cardinality(Busy') \in Nat /\ Cardinality(Busy') <= Cardinality(Busy)
  BY <1>1, BusyTypes, FS_Subset, FS_CardinalityType
<1> QED
  BY <1>2, BusyTypes, IdentityAssumption

NewRow(d) == [path |-> d.path, hash |-> d.audio, print |-> d.print,
              analysis |-> None, cues |-> None]
Target(d) == IF d.found.by = "insert" THEN Len(content) + 1 ELSE d.found.id

\* What upsert_content writes: the row found, or a new one.
LEMMA WriteEffect ==
  ASSUME TypeOK, Pointing, NEW w \in Analyzers, Write(w)
  PROVE  LET d == doing[w]
             id == Target(d) IN
         /\ d.audio \in Audios /\ d.path \in Paths /\ d.print \in Prints \cup {NoValue}
         /\ d.force \in BOOLEAN /\ d.found \in Found /\ d # Nothing
         /\ <<d.audio, d.path>> \in uploads /\ d.print \in {PrintOf(d.audio), NoValue}
         /\ d.found.by = "insert" <=> d.found.id = None
         /\ d.found.id \in Rows \cup {None}
         /\ id \in Nat \ {0} /\ (d.found.by # "insert" => id \in Rows)
         /\ content' \in Seq(RowType)
         /\ id \in Rows' /\ Rows \subseteq Rows' /\ Rows' \subseteq Rows \cup {id}
         /\ content'[id].hash = d.audio
         /\ d.print # NoValue => content'[id].print = d.print
         /\ \A i \in Rows \ {id} : content'[i] = content[i]
         /\ id \in Rows => /\ content'[id].path = content[id].path
                           /\ content'[id].analysis = content[id].analysis
                           /\ content'[id].cues = content[id].cues
                           /\ d.print = NoValue => content'[id].print = content[id].print
         /\ id \notin Rows => content'[id] = NewRow(d)
<1> DEFINE d == doing[w]
           new == NewRow(d)
           id == Target(d)
<1>1. /\ d.step = "write"
      /\ content' = IF d.found.by = "insert" THEN Append(content, new)
                    ELSE [content EXCEPT
                            ![id].hash = d.audio,
                            ![id].print = IF d.print = NoValue THEN @ ELSE d.print]
  BY DEF Write, NewRow, Target
<1>2. /\ d.audio \in Audios /\ d.path \in Paths /\ d.print \in Prints \cup {NoValue}
      /\ d.force \in BOOLEAN /\ d.found \in Found /\ d # Nothing
  BY <1>1 DEF TypeOK, Doing, Nothing
<1>3. /\ <<d.audio, d.path>> \in uploads /\ d.print \in {PrintOf(d.audio), NoValue}
      /\ d.found.by = "insert" <=> d.found.id = None
      /\ d.found.id \in Rows \cup {None}
  BY <1>1 DEF Pointing
<1>4. /\ content \in Seq(RowType) /\ Len(content) \in Nat /\ DOMAIN content = Rows
  BY DEF TypeOK, Rows
<1>5. id \in Nat \ {0} /\ (d.found.by # "insert" => id \in Rows)
  BY <1>3, <1>4 DEF Rows, None, Target
<1>6. /\ content' \in Seq(RowType) /\ id \in Rows' /\ Rows \subseteq Rows' /\ Rows' \subseteq Rows \cup {id}
      /\ content'[id].hash = d.audio
      /\ d.print # NoValue => content'[id].print = d.print
      /\ \A i \in Rows \ {id} : content'[i] = content[i]
      /\ id \in Rows => /\ content'[id].path = content[id].path
                        /\ content'[id].analysis = content[id].analysis
                        /\ content'[id].cues = content[id].cues
                        /\ d.print = NoValue => content'[id].print = content[id].print
      /\ id \notin Rows => content'[id] = new
  <2>1. CASE d.found.by = "insert"
    <3>1. new \in RowType
      BY <1>2, IdentityAssumption DEF RowType, None, NewRow
    <3>2. content' = Append(content, new) /\ id = Len(content) + 1
      BY <1>1, <2>1 DEF Target
    <3> HIDE DEF new, id, d
    <3>3. /\ content' \in Seq(RowType) /\ Len(content') = Len(content) + 1
          /\ \A i \in 1..Len(content) : content'[i] = content[i]
          /\ content'[id] = new
      BY <1>4, <3>1, <3>2, AppendProperties
    <3>4. /\ id \in Rows' /\ Rows \subseteq Rows' /\ Rows' \subseteq Rows \cup {id} /\ id \notin Rows
      BY <1>4, <3>2, <3>3 DEF Rows
    <3>5. new.hash = d.audio /\ new.print = d.print
      BY DEF new, NewRow
    <3> QED
      BY <3>3, <3>4, <3>5 DEF Rows
  <2>2. CASE d.found.by # "insert"
    <3> DEFINE pr == IF d.print = NoValue THEN content[id].print ELSE d.print
               row == [content[id] EXCEPT !.hash = d.audio, !.print = pr]
    <3>1. id \in Rows
      BY <1>5, <2>2
    <3> HIDE DEF id
    <3>2. content[id] \in RowType
      BY <1>4, <3>1 DEF Rows
    <3>3. content' = [content EXCEPT ![id] = row]
      BY <1>1, <2>2, <1>4, <3>1, <3>2 DEF RowType
    <3>4. /\ row \in RowType /\ row.hash = d.audio /\ row.print = pr
          /\ row.path = content[id].path /\ row.analysis = content[id].analysis
          /\ row.cues = content[id].cues
      BY <1>2, <3>2 DEF RowType
    <3> HIDE DEF row
    <3>5. /\ content' \in Seq(RowType) /\ Len(content') = Len(content)
          /\ \A i \in 1..Len(content) : content'[i] = IF i = id THEN row ELSE content[i]
      BY <1>4, <3>1, <3>3, <3>4, ExceptSeq DEF Rows
    <3> QED
      BY <3>1, <3>4, <3>5 DEF Rows
  <2> QED
    BY <2>1, <2>2
<1> QED
  BY <1>2, <1>3, <1>5, <1>6

LEMMA WriteKeeps ==
  ASSUME IInv, NEW w \in Analyzers, Write(w)
  PROVE  IInv'
<1> USE DEF IInv
<1> DEFINE d == doing[w]
           new == NewRow(d)
           id == Target(d)
           e == IF w \in Cli THEN Nothing
                ELSE [step |-> "decide", audio |-> d.audio, path |-> d.path,
                      force |-> d.force, id |-> id]
<1>1. /\ d.step = "write" /\ doing' = [doing EXCEPT ![w] = e]
      /\ UNCHANGED <<jobs, turn, uploads>>
  BY DEF Write, Target
<1>2. /\ d.audio \in Audios /\ d.path \in Paths /\ d.print \in Prints \cup {NoValue}
      /\ d.force \in BOOLEAN /\ d.found \in Found /\ d # Nothing
  BY WriteEffect
<1>3. /\ <<d.audio, d.path>> \in uploads /\ d.print \in {PrintOf(d.audio), NoValue}
      /\ d.found.by = "insert" <=> d.found.id = None
      /\ d.found.id \in Rows \cup {None}
  BY WriteEffect
<1>4. DOMAIN content = Rows /\ Len(content) \in Nat
  BY DEF TypeOK, Rows
<1>5. id \in Nat \ {0} /\ (d.found.by # "insert" => id \in Rows)
  BY WriteEffect
<1>6. /\ content' \in Seq(RowType) /\ id \in Rows' /\ Rows \subseteq Rows' /\ Rows' \subseteq Rows \cup {id}
      /\ content'[id].hash = d.audio
      /\ d.print # NoValue => content'[id].print = d.print
      /\ \A i \in Rows \ {id} : content'[i] = content[i]
      /\ id \in Rows => /\ content'[id].path = content[id].path
                        /\ content'[id].analysis = content[id].analysis
                        /\ content'[id].cues = content[id].cues
                        /\ d.print = NoValue => content'[id].print = content[id].print
      /\ id \notin Rows => content'[id] = new
  BY WriteEffect
<1>7. e \in Doing
  BY <1>2, <1>5 DEF Doing
<1>8. /\ doing'[w] = e /\ \A v \in Analyzers \ {w} : doing'[v] = doing[v]
      /\ e.step \in {"idle", "decide"}
      /\ e.step = "decide" => e.id = id /\ e.audio = d.audio /\ e.path = d.path
  BY <1>1 DEF TypeOK, Nothing
<1> HIDE DEF e, id, d
<1>9. JobIds' = JobIds
  BY <1>1 DEF JobIds
<1>10. TypeOK'
  BY <1>1, <1>6, <1>7, <1>9 DEF TypeOK
<1>11. Pointing'
  <2> SUFFICES ASSUME NEW v \in Analyzers
               PROVE  /\ doing'[v].step = "write" =>
                           /\ <<doing'[v].audio, doing'[v].path>> \in uploads
                           /\ doing'[v].print \in {PrintOf(doing'[v].audio), NoValue}
                           /\ doing'[v].found.by = "insert" <=> doing'[v].found.id = None
                           /\ doing'[v].found.id \in Rows' \cup {None}
                      /\ doing'[v].step = "decide" =>
                           <<doing'[v].audio, doing'[v].path>> \in uploads /\ doing'[v].id \in Rows'
    BY <1>1 DEF Pointing
  <2>1. CASE v = w
    BY <1>3, <1>6, <1>8, <2>1
  <2>2. CASE v # w
    BY <1>6, <1>8, <2>2 DEF Pointing
  <2> QED
    BY <2>1, <2>2
<1>12. Seen'
  BY <1>1, <1>9 DEF Seen
<1>13. Counted'
  <2>1. Len(jobs') + Cardinality(Busy') <= MaxUploads
    BY <1>1, <1>2, <1>7, FreeKeepsCounted DEF Counted, d
  <2>2. \A i \in Rows' : content'[i].analysis <= Len(jobs) /\ content'[i].cues <= Len(jobs)
    <3> SUFFICES ASSUME NEW i \in Rows'
                 PROVE  content'[i].analysis <= Len(jobs) /\ content'[i].cues <= Len(jobs)
      OBVIOUS
    <3>1. CASE i \in Rows
      BY <1>6, <3>1 DEF Counted
    <3>2. CASE i \notin Rows
      <4>1. content'[i].analysis = 0 /\ content'[i].cues = 0
        BY <1>6, <3>2 DEF None, NewRow
      <4> QED
        BY <4>1, BusyTypes
    <3> QED
      BY <3>1, <3>2
  <2> QED
    BY <1>1, <2>1, <2>2 DEF Counted
<1>14. Own'
  <2> SUFFICES ASSUME Settled, NEW i \in Rows'
               PROVE  \E u \in uploads : u[2] = content'[i].path /\ OfMusic(i, PrintOf(u[1]))'
    BY <1>1 DEF Own, Settled
  <2>1. CASE i \in Rows
    <3>1. PICK u \in uploads : u[2] = content[i].path /\ OfMusic(i, PrintOf(u[1]))
      BY <2>1 DEF Own
    <3>2. i = id => PrintOf(d.audio) = PrintOf(u[1])
      <4>1. ASSUME i = id PROVE d.found.id = i
        <5>1. d.found.by # "insert"
          BY <4>1, <2>1, <1>4 DEF id, Target, Rows
        <5> QED
          BY <4>1, <5>1 DEF id, Target
      <4> QED
        BY <1>1, <3>1, <4>1 DEF OfMusic, d
    <3>3. /\ content'[i].path = content[i].path /\ content'[i].analysis = content[i].analysis
          /\ content'[i].cues = content[i].cues
          /\ content'[i].hash # NoValue => PrintOf(content'[i].hash) = PrintOf(u[1])
          /\ content'[i].print # NoValue => content'[i].print = PrintOf(u[1])
      <4>1. CASE i = id
        BY <4>1, <1>3, <1>6, <2>1, <3>1, <3>2 DEF OfMusic
      <4>2. CASE i # id
        BY <4>2, <1>6, <2>1, <3>1 DEF OfMusic
      <4> QED
        BY <4>1, <4>2
    <3>4. ASSUME NEW v \in Analyzers
          PROVE  /\ doing'[v].step = "write" /\ doing'[v].found.id = i
                      => PrintOf(doing'[v].audio) = PrintOf(u[1])
                 /\ doing'[v].step = "decide" /\ doing'[v].id = i
                      => PrintOf(doing'[v].audio) = PrintOf(u[1])
      <4>1. CASE v = w
        BY <4>1, <1>8, <3>2
      <4>2. CASE v # w
        BY <4>2, <1>8, <3>1 DEF OfMusic
      <4> QED
        BY <4>1, <4>2
    <3> QED
      BY <1>1, <1>9, <3>1, <3>3, <3>4 DEF OfMusic
  <2>2. CASE i \notin Rows
    <3>1. i = id /\ content'[i] = new
      BY <1>6, <2>2
    <3>2. /\ content'[i].path = d.path /\ content'[i].hash = d.audio
          /\ content'[i].print = d.print /\ content'[i].analysis = None
          /\ content'[i].cues = None
      BY <3>1 DEF NewRow
    <3>3. \A j \in JobIds : jobs[j].content # i
      BY <2>2 DEF TypeOK
    <3>4. ASSUME NEW v \in Analyzers
          PROVE  /\ doing'[v].step = "write" => doing'[v].found.id # i
                 /\ doing'[v].step = "decide" /\ doing'[v].id = i => doing'[v].audio = d.audio
      <4>1. CASE v = w
        BY <4>1, <1>8
      <4>2. CASE v # w
        BY <4>2, <1>5, <1>8, <2>2, <3>1 DEF Pointing, None
      <4> QED
        BY <4>1, <4>2
    <3>5. PICK u \in uploads : u = <<d.audio, d.path>>
      BY <1>3
    <3>6. OfMusic(i, PrintOf(u[1]))'
      BY <1>1, <1>3, <1>9, <3>2, <3>3, <3>4, <3>5 DEF OfMusic
    <3> QED
      BY <1>1, <3>2, <3>5, <3>6
  <2> QED
    BY <2>1, <2>2
<1> QED
  BY <1>10, <1>11, <1>12, <1>13, <1>14

\* A row refers to jobs there are.
LEMMA JobRefs ==
  ASSUME TypeOK, Counted, NEW i \in Rows
  PROVE  /\ content[i].analysis \in Nat /\ content[i].cues \in Nat
         /\ content[i].analysis # None => content[i].analysis \in JobIds
         /\ content[i].cues # None => content[i].cues \in JobIds
<1>1. content[i] \in RowType
  BY DEF TypeOK, Rows
<1>2. content[i].analysis \in Nat /\ content[i].cues \in Nat
  BY <1>1, IdentityAssumption DEF RowType
<1> QED
  BY <1>2, BusyTypes DEF Counted, JobIds, None

\* A decision made: w is free, with or without a job.
LEMMA DecideKeeps ==
  ASSUME IInv, NEW w \in Analyzers, Cached(w) \/ Queued(w)
  PROVE  IInv'
<1> USE DEF IInv
<1> DEFINE d == doing[w]
<1>1. /\ d.step = "decide" /\ doing' = [doing EXCEPT ![w] = Nothing]
      /\ UNCHANGED <<content, turn, uploads>>
  BY DEF Cached, Queued
<1>2. d \in Doing /\ d.id \in Rows /\ d.audio \in Audios /\ d.path \in Paths
  BY <1>1 DEF TypeOK, Doing, Pointing, Nothing
<1>3. /\ Rows' = Rows /\ Nothing \in Doing /\ Nothing.step = "idle"
      /\ doing'[w] = Nothing /\ \A v \in Analyzers \ {w} : doing'[v] = doing[v]
  BY <1>1 DEF Rows, Doing, Nothing, TypeOK
<1>4. d # Nothing
  BY <1>1, <1>3
<1>5. Pointing'
  BY <1>1, <1>3 DEF Pointing
<1>6. CASE UNCHANGED jobs
  <2>1. TypeOK'
    BY <1>1, <1>3, <1>6 DEF TypeOK, JobIds
  <2>2. Seen' /\ Own'
    BY <1>1, <1>3, <1>6 DEF Seen, JobIds, Own, Settled, OfMusic
  <2>3. Counted'
    BY <1>1, <1>3, <1>4, <1>6, FreeKeepsCounted DEF Counted
  <2> QED
    BY <1>5, <2>1, <2>2, <2>3
<1>7. CASE Queued(w)
  <2> DEFINE job == [audio |-> d.audio, path |-> d.path, content |-> d.id, columns |-> FALSE]
             n == Len(jobs) + 1
  <2>1. jobs' = Append(jobs, job) /\ <<d.audio, d.path>> \in uploads
    BY <1>1, <1>7 DEF Queued, Pointing
  <2>2. job \in JobType
    BY <1>2 DEF JobType, Rows
  <2>3. jobs \in Seq(JobType) /\ Len(jobs) \in Nat
    BY DEF TypeOK
  <2>4. /\ job.audio = d.audio /\ job.path = d.path /\ job.content = d.id
    OBVIOUS
  <2> HIDE DEF job
  <2>5. /\ jobs' \in Seq(JobType) /\ Len(jobs') = n /\ jobs'[n] = job
        /\ \A j \in JobIds : jobs'[j] = jobs[j]
        /\ JobIds' = JobIds \cup {n}
    <3>1. /\ jobs' \in Seq(JobType) /\ Len(jobs') = n /\ jobs'[n] = job
          /\ \A j \in 1..Len(jobs) : jobs'[j] = jobs[j]
      BY <2>1, <2>2, <2>3, AppendProperties
    <3>2. JobIds' = JobIds \cup {n}
      BY <2>3, <3>1 DEF JobIds
    <3> QED
      BY <3>1, <3>2 DEF JobIds
  <2>6. TypeOK'
    BY <1>1, <1>2, <1>3, <2>4, <2>5 DEF TypeOK
  <2>7. Seen'
    BY <1>1, <2>1, <2>4, <2>5 DEF Seen
  <2>8. Counted'
    <3>1. Busy' = Busy \ {w} /\ w \in Busy
      BY <1>1, <1>3, <1>4 DEF Busy
    <3>2. Cardinality(Busy') = Cardinality(Busy) - 1
      BY <3>1, BusyTypes, FS_RemoveElement
    <3>3. Len(jobs') + Cardinality(Busy') <= MaxUploads
      BY <2>5, <3>2, BusyTypes, IdentityAssumption DEF Counted
    <3>4. ASSUME NEW i \in Rows
          PROVE  content[i].analysis <= n /\ content[i].cues <= n
      <4>1. content[i].analysis \in Nat /\ content[i].cues \in Nat
        BY JobRefs
      <4> QED
        BY <2>3, <4>1 DEF Counted
    <3>5. turn <= n + 1
      BY BusyTypes DEF Counted
    <3> QED
      BY <1>1, <1>3, <2>5, <3>3, <3>4, <3>5 DEF Counted
  <2>9. Own'
    <3> SUFFICES ASSUME Settled, NEW i \in Rows
                 PROVE  \E u \in uploads : u[2] = content[i].path /\ OfMusic(i, PrintOf(u[1]))'
      BY <1>1, <1>3 DEF Own, Settled
    <3>1. PICK u \in uploads : u[2] = content[i].path /\ OfMusic(i, PrintOf(u[1]))
      BY DEF Own
    <3>2. d.id = i => PrintOf(d.audio) = PrintOf(u[1])
      BY <1>1, <3>1 DEF OfMusic
    <3>3. /\ content[i].analysis # None => content[i].analysis \in JobIds
          /\ content[i].cues # None => content[i].cues \in JobIds
      BY JobRefs
    <3>4. \A j \in JobIds' : jobs'[j].content = i => PrintOf(jobs'[j].audio) = PrintOf(u[1])
      BY <2>4, <2>5, <3>1, <3>2 DEF OfMusic
    <3>5. OfMusic(i, PrintOf(u[1]))'
      BY <1>1, <1>3, <2>5, <3>1, <3>3, <3>4 DEF OfMusic
    <3> QED
      BY <3>1, <3>5
  <2> QED
    BY <1>5, <2>6, <2>7, <2>8, <2>9
<1> QED
  BY <1>6, <1>7 DEF Cached

\* The columns of job turn go to the row of its path, or to a new one.
LEMMA ResultColumnsKeeps == ASSUME IInv, ResultColumns PROVE IInv'
<1> USE DEF IInv
<1> DEFINE job == jobs[turn]
           found == Lookup(NoValue, NoValue, job.path)
           new == [path |-> job.path, hash |-> NoValue, print |-> NoValue,
                   analysis |-> turn, cues |-> None]
           id == IF found.by = "insert" THEN Len(content) + 1 ELSE found.id
<1>1. /\ turn \in JobIds
      /\ content' = IF found.by = "insert" THEN Append(content, new)
                    ELSE [content EXCEPT ![id].analysis = turn]
      /\ jobs' = [jobs EXCEPT ![turn].columns = TRUE]
      /\ UNCHANGED <<turn, doing, uploads>>
  BY DEF ResultColumns
<1>2. /\ content \in Seq(RowType) /\ Len(content) \in Nat
      /\ jobs \in Seq(JobType) /\ Len(jobs) \in Nat /\ turn \in 1..Len(jobs)
      /\ job \in JobType /\ job.audio \in Audios /\ job.path \in Paths
      /\ turn \in 0..MaxUploads /\ turn # None
  <2>1. /\ content \in Seq(RowType) /\ Len(content) \in Nat
        /\ jobs \in Seq(JobType) /\ Len(jobs) \in Nat /\ turn \in 1..Len(jobs)
    BY <1>1 DEF TypeOK, JobIds
  <2>2. job \in JobType
    BY <2>1
  <2>3. Len(jobs) <= MaxUploads
    BY <2>1, BusyTypes, IdentityAssumption DEF Counted
  <2> QED
    BY <2>1, <2>2, <2>3, IdentityAssumption DEF JobType, None
<1>3. /\ found \in Found /\ found.id \in Rows \cup {None}
      /\ found.by = "insert" <=> found.id = None
      /\ found.by \in {"path", "insert"}
      /\ found.by = "path" => content[found.id].path = job.path
  BY LookupFinds DEF Found
<1>4. /\ jobs' \in Seq(JobType) /\ Len(jobs') = Len(jobs) /\ JobIds' = JobIds
      /\ \A j \in JobIds : /\ jobs'[j].audio = jobs[j].audio /\ jobs'[j].path = jobs[j].path
                           /\ jobs'[j].content = jobs[j].content
  <2> DEFINE row == [job EXCEPT !.columns = TRUE]
  <2>1. row \in JobType /\ row.audio = job.audio /\ row.path = job.path /\ row.content = job.content
    BY <1>2 DEF JobType
  <2>2. jobs' = [jobs EXCEPT ![turn] = row]
    BY <1>1, <1>2
  <2> HIDE DEF row
  <2>3. /\ jobs' \in Seq(JobType) /\ Len(jobs') = Len(jobs)
        /\ \A j \in 1..Len(jobs) : jobs'[j] = IF j = turn THEN row ELSE jobs[j]
    BY <1>2, <2>1, <2>2, ExceptSeq
  <2> QED
    BY <2>1, <2>3 DEF JobIds
<1>5. /\ content' \in Seq(RowType) /\ id \in Rows' /\ Rows \subseteq Rows' /\ Rows' \subseteq Rows \cup {id}
      /\ content'[id].analysis = turn /\ content'[id].path = job.path
      /\ \A i \in Rows \ {id} : content'[i] = content[i]
      /\ id \in Rows => /\ content[id].path = job.path
                        /\ content'[id].hash = content[id].hash
                        /\ content'[id].print = content[id].print
                        /\ content'[id].cues = content[id].cues
      /\ id \notin Rows => content'[id] = new
  <2>1. CASE found.by = "insert"
    <3>1. new \in RowType
      BY <1>2, IdentityAssumption DEF RowType, None
    <3>2. content' = Append(content, new) /\ id = Len(content) + 1
      BY <1>1, <2>1
    <3>3. new.analysis = turn /\ new.path = job.path
      OBVIOUS
    <3> HIDE DEF new, id, found, job
    <3>4. /\ content' \in Seq(RowType) /\ Len(content') = Len(content) + 1
          /\ \A i \in 1..Len(content) : content'[i] = content[i]
          /\ content'[id] = new
      BY <1>2, <3>1, <3>2, AppendProperties
    <3>5. /\ id \in Rows' /\ Rows \subseteq Rows' /\ Rows' \subseteq Rows \cup {id} /\ id \notin Rows
      BY <1>2, <3>2, <3>4 DEF Rows
    <3> QED
      BY <3>3, <3>4, <3>5 DEF Rows
  <2>2. CASE found.by # "insert"
    <3> DEFINE row == [content[id] EXCEPT !.analysis = turn]
    <3>1. id \in Rows /\ content[id].path = job.path
      BY <1>3, <2>2
    <3> HIDE DEF id, found, job
    <3>2. content[id] \in RowType
      BY <1>2, <3>1 DEF Rows
    <3>3. content' = [content EXCEPT ![id] = row]
      BY <1>1, <1>2, <2>2, <3>1
    <3>4. /\ row \in RowType /\ row.analysis = turn
          /\ row.path = content[id].path /\ row.hash = content[id].hash
          /\ row.cues = content[id].cues /\ row.print = content[id].print
      BY <1>2, <3>2 DEF RowType
    <3> HIDE DEF row
    <3>5. /\ content' \in Seq(RowType) /\ Len(content') = Len(content)
          /\ \A i \in 1..Len(content) : content'[i] = IF i = id THEN row ELSE content[i]
      BY <1>2, <3>1, <3>3, <3>4, ExceptSeq DEF Rows
    <3> QED
      BY <3>1, <3>4, <3>5 DEF Rows
  <2> QED
    BY <2>1, <2>2
<1> HIDE DEF id, found
<1>6. TypeOK'
  BY <1>1, <1>4, <1>5 DEF TypeOK
<1>7. Pointing' /\ Seen'
  BY <1>1, <1>4, <1>5 DEF Pointing, Seen
<1>8. Counted'
  <2>1. Len(jobs') + Cardinality(Busy') <= MaxUploads
    BY <1>1, <1>4 DEF Counted, Busy
  <2>2. \A i \in Rows' : content'[i].analysis <= Len(jobs) /\ content'[i].cues <= Len(jobs)
    BY SMTT(30), <1>2, <1>5 DEF Counted, None
  <2> QED
    BY <1>1, <1>4, <2>1, <2>2 DEF Counted
<1>9. Own'
  <2> SUFFICES ASSUME Settled, NEW i \in Rows'
               PROVE  \E u \in uploads : u[2] = content'[i].path /\ OfMusic(i, PrintOf(u[1]))'
    BY <1>1 DEF Own, Settled
  <2>1. PICK v \in uploads : v = <<job.audio, job.path>>
    BY <1>1 DEF Seen
  <2>2. /\ \A j \in JobIds : jobs'[j].audio = jobs[j].audio /\ jobs'[j].content = jobs[j].content
        /\ \A k \in Rows : /\ content[k].analysis # None => content[k].analysis \in JobIds
                           /\ content[k].cues # None => content[k].cues \in JobIds
    BY <1>4, JobRefs
  <2>3. CASE i \in Rows \ {id}
    <3>1. PICK u \in uploads : u[2] = content[i].path /\ OfMusic(i, PrintOf(u[1]))
      BY <2>3 DEF Own
    <3>2. OfMusic(i, PrintOf(u[1]))'
      <4>1. content'[i] = content[i]
        BY <1>5, <2>3
      <4>2. \A j \in JobIds' : jobs'[j].content = i => PrintOf(jobs'[j].audio) = PrintOf(u[1])
        BY <1>4, <3>1 DEF OfMusic
      <4>3. /\ content[i].analysis # None
                 => PrintOf(jobs'[content[i].analysis].audio) = PrintOf(u[1])
            /\ content[i].cues # None
                 => PrintOf(jobs'[content[i].cues].audio) = PrintOf(u[1])
        BY <2>2, <2>3, <3>1 DEF OfMusic
      <4> QED
        BY <1>1, <3>1, <4>1, <4>2, <4>3 DEF OfMusic
    <3> QED
      BY <1>5, <2>3, <3>1, <3>2
  <2>4. CASE i = id /\ id \in Rows
    <3>1. OfMusic(i, PrintOf(v[1]))
      BY <1>5, <2>1, <2>4, MusicAtPath
    <3>2. OfMusic(i, PrintOf(v[1]))'
      <4>1. /\ content'[i].hash = content[i].hash /\ content'[i].print = content[i].print
            /\ content'[i].cues = content[i].cues /\ content'[i].analysis = turn
        BY <1>5, <2>4
      <4>2. \A j \in JobIds' : jobs'[j].content = i => PrintOf(jobs'[j].audio) = PrintOf(v[1])
        BY <1>4, <3>1 DEF OfMusic
      <4>3. PrintOf(jobs'[turn].audio) = PrintOf(v[1])
        BY <1>1, <2>1, <2>2
      <4> QED
        BY ZenonT(40), <1>1, <2>2, <2>4, <3>1, <4>1, <4>2, <4>3 DEF OfMusic
    <3> QED
      BY <1>5, <2>1, <2>4, <3>2
  <2>5. CASE i = id /\ id \notin Rows
    <3>1. /\ content'[i].hash = NoValue /\ content'[i].print = NoValue
          /\ content'[i].analysis = turn /\ content'[i].cues = None
      BY <1>5, <2>5
    <3>2. \A j \in JobIds : jobs'[j].content # i
      BY <1>4, <2>5 DEF TypeOK
    <3>3. i # None
      BY <1>2, <1>5, <2>5 DEF Rows, None, TypeOK
    <3>4. ASSUME NEW w \in Analyzers
          PROVE  /\ doing[w].step = "write" => doing[w].found.id # i
                 /\ doing[w].step = "decide" => doing[w].id # i
      <4>1. /\ doing[w].step = "write" => doing[w].found.id \in Rows \cup {None}
            /\ doing[w].step = "decide" => doing[w].id \in Rows
        BY DEF Pointing
      <4> QED
        BY <2>5, <3>3, <4>1
    <3>5. OfMusic(i, PrintOf(v[1]))'
      BY <1>1, <1>4, <2>1, <3>1, <3>2, <3>4 DEF OfMusic
    <3> QED
      BY <1>5, <2>1, <2>5, <3>5
  <2> QED
    BY <1>5, <2>3, <2>4, <2>5
<1> QED
  BY <1>6, <1>7, <1>8, <1>9

LEMMA ResultCuesKeeps == ASSUME IInv, ResultCues \/ JobFails PROVE IInv'
<1> USE DEF IInv
<1> DEFINE id == jobs[turn].content
<1>1. turn \in JobIds /\ turn' = turn + 1 /\ UNCHANGED <<jobs, doing, uploads>>
  BY DEF ResultCues, JobFails
<1>2. /\ content \in Seq(RowType) /\ id \in Rows /\ Len(jobs) \in Nat /\ turn \in 1..Len(jobs)
      /\ turn \in 0..MaxUploads /\ turn # None /\ turn' \in 1..(MaxUploads + 1)
      /\ turn' <= Len(jobs) + 1
  <2>1. Len(jobs) <= MaxUploads
    BY BusyTypes, IdentityAssumption DEF Counted
  <2> QED
    BY <1>1, <2>1, IdentityAssumption DEF TypeOK, JobIds, None
<1> HIDE DEF id
<1>3. CASE UNCHANGED content
  BY <1>1, <1>2, <1>3 DEF TypeOK, Pointing, Seen, Counted, Own, Settled, OfMusic, Rows, JobIds, Busy
<1>4. CASE content' = [content EXCEPT ![id].cues = turn]
  <2> DEFINE row == [content[id] EXCEPT !.cues = turn]
  <2>1. content[id] \in RowType /\ content' = [content EXCEPT ![id] = row]
    BY <1>2, <1>4 DEF Rows
  <2>2. /\ row \in RowType /\ row.cues = turn /\ row.path = content[id].path
        /\ row.hash = content[id].hash /\ row.print = content[id].print
        /\ row.analysis = content[id].analysis
    BY <1>2, <2>1 DEF RowType
  <2> HIDE DEF row
  <2>3. /\ content' \in Seq(RowType) /\ Rows' = Rows
        /\ \A i \in Rows : content'[i] = IF i = id THEN row ELSE content[i]
    BY <1>2, <2>1, <2>2, ExceptSeq DEF Rows
  <2>4. TypeOK' /\ Pointing' /\ Seen'
    BY <1>1, <1>2, <2>3 DEF TypeOK, Pointing, Seen, JobIds
  <2>5. Counted'
    BY <1>1, <1>2, <2>2, <2>3 DEF Counted, Busy
  <2>6. Own'
    <3> SUFFICES ASSUME Settled, NEW i \in Rows
                 PROVE  \E u \in uploads : u[2] = content'[i].path /\ OfMusic(i, PrintOf(u[1]))'
      BY <1>1, <2>3 DEF Own, Settled
    <3>1. PICK u \in uploads : u[2] = content[i].path /\ OfMusic(i, PrintOf(u[1]))
      BY DEF Own
    <3>2. i = id => PrintOf(jobs[turn].audio) = PrintOf(u[1])
      BY <1>1, <3>1 DEF OfMusic, id
    <3>3. OfMusic(i, PrintOf(u[1]))'
      BY <1>1, <2>2, <2>3, <3>1, <3>2 DEF OfMusic, JobIds
    <3> QED
      BY <2>2, <2>3, <3>1, <3>3
  <2> QED
    BY <2>4, <2>5, <2>6
<1> QED
  BY <1>1, <1>3, <1>4 DEF ResultCues, JobFails, id

LEMMA NextIInv == IInv /\ [Next]_vars => IInv'
<1> SUFFICES ASSUME IInv, [Next]_vars PROVE IInv'
  OBVIOUS
<1>1. ASSUME NEW w \in Analyzers, NEW a \in Audios, NEW p \in Paths, NEW force \in BOOLEAN,
             NEW f \in {PrintOf(a), NoValue}, Load(w, a, p, f, force)
      PROVE  IInv'
  BY <1>1, LoadKeeps
<1>2. ASSUME NEW w \in Analyzers, Write(w) \/ Cached(w) \/ Queued(w) PROVE IInv'
  BY <1>2, WriteKeeps, DecideKeeps
<1>3. CASE ResultColumns \/ ResultCues \/ JobFails
  BY <1>3, ResultColumnsKeeps, ResultCuesKeeps
<1>4. CASE UNCHANGED vars
  <2>1. TypeOK' /\ Pointing' /\ Seen'
    BY <1>4 DEF vars, IInv, TypeOK, Pointing, Seen, Rows, JobIds
  <2>2. Counted'
    BY <1>4 DEF vars, IInv, Counted, Busy, Rows
  <2>3. Own'
    BY <1>4 DEF vars, IInv, Own, Settled, OfMusic, Rows, JobIds
  <2> QED
    BY <2>1, <2>2, <2>3 DEF IInv
<1> QED
  BY <1>1, <1>2, <1>3, <1>4 DEF Next

LEMMA Invariance == Spec => []IInv
BY InitIInv, NextIInv, PTL DEF Spec

-------------------------------------------------------------------------------
\* Rows, jobs and the places of the analyzers have their types, and jobs refer to
\* rows there are (content, analyze_job).
THEOREM TypeCorrect == Spec => []TypeOK
<1>1. IInv => TypeOK
  BY DEF IInv
<1> QED
  BY <1>1, Invariance, PTL

\* Beat grid and key of a row are those of the music its hash stands for, whatever
\* threads of the service and the CLI do at the same time (worker_result).
THEOREM ColumnsMatchHash == Spec => []AnalysisMatchesHash
<1>1. IInv => AnalysisMatchesHash
  BY DEF IInv, Own, OfMusic, AnalysisMatchesHash, SameMusic
<1> QED
  BY <1>1, Invariance, PTL

\* The Player that asks by hash is given the cues of its own music.
THEOREM ProbesServeOwn == Spec => []ProbeServesOwn
<1>1. IInv => ProbeServesOwn
  <2> SUFFICES ASSUME IInv, Settled, NEW h \in Audios, Probe(h) # None
               PROVE  SameMusic(jobs[content[Probe(h)].cues].audio, h)
    BY DEF ProbeServesOwn
  <2>1. /\ WithHash(h) # {} /\ Probe(h) = Min(WithHash(h)) /\ content[Probe(h)].cues # None
    BY DEF Probe
  <2>2. WithHash(h) \subseteq Nat
    BY DEF WithHash, Rows, IInv, TypeOK
  <2>3. Probe(h) \in Rows /\ content[Probe(h)].hash = h /\ h # NoValue
    BY <2>1, <2>2, MinIsLeast, IdentityAssumption DEF WithHash
  <2> QED
    BY <2>1, <2>3 DEF IInv, Own, OfMusic, SameMusic
<1> QED
  BY <1>1, Invariance, PTL

\* A tag request that finds its row by hash or path gets an upload and cues of its
\* own music.
THEOREM TagsHitOwn == Spec => []TagsOwnAudio
<1>1. IInv => TagsOwnAudio
  <2> SUFFICES ASSUME IInv, Settled, NEW u \in uploads, NEW id \in Rows,
                      TagTarget(u[1], u[2], id).by # "url"
               PROVE  LET target == TagTarget(u[1], u[2], id) IN
                      /\ \A j \in TagSources(target.id) : SameMusic(jobs[j].audio, u[1])
                      /\ content[target.id].cues # None =>
                           SameMusic(jobs[content[target.id].cues].audio, u[1])
    BY DEF TagsOwnAudio
  <2> DEFINE t == TagTarget(u[1], u[2], id).id
  <2>1. u[1] \in Audios /\ u = <<u[1], u[2]>> /\ u[1] # NoValue
    BY IdentityAssumption DEF IInv, TypeOK
  <2>2. WithHash(u[1]) \subseteq Nat /\ WithPath(u[2]) \subseteq Nat
    BY DEF WithHash, WithPath, Rows, IInv, TypeOK
  <2>3. /\ t \in Rows
        /\ content[t].hash = u[1] \/ content[t].path = u[2]
    <3>1. CASE WithHash(u[1]) # {}
      <4>1. t = Min(WithHash(u[1])) /\ t \in WithHash(u[1])
        BY <2>2, <3>1, MinIsLeast DEF TagTarget
      <4> QED
        BY <4>1 DEF WithHash
    <3>2. CASE WithHash(u[1]) = {}
      <4>1. WithPath(u[2]) # {} /\ t = Min(WithPath(u[2]))
        BY <3>2 DEF TagTarget
      <4>2. t \in WithPath(u[2])
        BY <2>2, <4>1, MinIsLeast
      <4> QED
        BY <4>2 DEF WithPath
    <3> QED
      BY <3>1, <3>2
  <2> HIDE DEF t
  <2>4. OfMusic(t, PrintOf(u[1]))
    <3>1. CASE content[t].path = u[2]
      BY <2>1, <2>3, <3>1, MusicAtPath
    <3>2. CASE content[t].hash = u[1]
      BY <2>1, <2>3, <3>2 DEF IInv, Own, OfMusic
    <3> QED
      BY <2>3, <3>1, <3>2
  <2> QED
    BY <2>4 DEF OfMusic, TagSources, SameMusic, t
<1> QED
  BY <1>1, Invariance, PTL

\* What POST /v1/analyze answers from the cache was computed from the uploader's
\* music.
THEOREM CachedIsOwn == Spec => CacheServesOwn
<1>1. IInv /\ [Next]_vars
        => [Settled => \A w \in Service : Cached(w) =>
              SameMusic(jobs[content[doing[w].id].cues].audio, doing[w].audio)]_vars
  <2> SUFFICES ASSUME IInv, Settled, NEW w \in Service, Cached(w)
               PROVE  SameMusic(jobs[content[doing[w].id].cues].audio, doing[w].audio)
    OBVIOUS
  <2>1. /\ w \in Analyzers /\ doing[w].step = "decide" /\ doing[w].id \in Rows
        /\ content[doing[w].id].cues # None
    BY DEF Cached, Analyzers, IInv, Pointing
  <2> QED
    BY <2>1 DEF IInv, Own, OfMusic, SameMusic
<1> QED
  BY <1>1, Invariance, PTL DEF Spec, CacheServesOwn

-------------------------------------------------------------------------------
(***************************************************************************)
(* One row per hash needs more: one thread, or two of them look up, both   *)
(* find nothing and both insert.  Then between look-up and write nobody    *)
(* else gives a row a hash, for the worker's results have none.            *)
(***************************************************************************)
OneThread == \A v, w \in Analyzers : v = w

Alone ==
  \A w \in Analyzers : doing[w].step = "write" =>
    /\ doing[w].found.by = "hash" => content[doing[w].found.id].hash = doing[w].audio
    /\ doing[w].found.by # "hash" => \A i \in Rows : content[i].hash # doing[w].audio

HInv == IInv /\ Alone /\ HashUnique

\* The worker's results give no row a hash.
LEMMA ResultHashes ==
  ASSUME IInv, ResultColumns \/ ResultCues \/ JobFails
  PROVE  /\ Rows \subseteq Rows' /\ \A i \in Rows : content'[i].hash = content[i].hash
         /\ \A i \in Rows' \ Rows : content'[i].hash = NoValue
<1>1. content \in Seq(RowType) /\ Len(content) \in Nat
  BY DEF IInv, TypeOK
<1>2. CASE \E id \in Rows, row \in RowType :
             row.hash = content[id].hash /\ content' = [content EXCEPT ![id] = row]
  BY <1>1, <1>2 DEF Rows
<1>3. CASE \E row \in RowType : row.hash = NoValue /\ content' = Append(content, row)
  BY <1>1, <1>3 DEF Rows
<1>4. CASE UNCHANGED content
  BY <1>4 DEF Rows
<1>5. CASE ResultColumns
  <2> DEFINE found == Lookup(NoValue, NoValue, jobs[turn].path)
             new == [path |-> jobs[turn].path, hash |-> NoValue, print |-> NoValue,
                     analysis |-> turn, cues |-> None]
  <2>1. \/ content' = Append(content, new)
        \/ /\ found.by # "insert"
           /\ content' = [content EXCEPT ![found.id].analysis = turn]
    BY <1>5 DEF ResultColumns
  <2>2. found.by # "insert" => found.id \in Rows
    BY LookupFinds DEF IInv
  <2>3. turn \in 0..MaxUploads /\ jobs[turn].path \in Paths
    <3>1. Len(jobs) \in Nat /\ turn \in 1..Len(jobs) /\ jobs[turn] \in JobType
      BY <1>5 DEF ResultColumns, IInv, TypeOK, JobIds
    <3>2. Len(jobs) <= MaxUploads
      BY BusyTypes, IdentityAssumption DEF IInv, Counted
    <3> QED
      BY <3>1, <3>2, IdentityAssumption DEF JobType
  <2>4. new \in RowType /\ new.hash = NoValue
    BY <2>3, IdentityAssumption DEF RowType, None
  <2> HIDE DEF found, new
  <2>5. CASE content' = Append(content, new)
    BY <1>3, <2>4, <2>5
  <2>6. CASE found.id \in Rows /\ content' = [content EXCEPT ![found.id].analysis = turn]
    <3> DEFINE row == [content[found.id] EXCEPT !.analysis = turn]
    <3>1. content[found.id] \in RowType
      BY <1>1, <2>6 DEF Rows
    <3>2. row \in RowType /\ row.hash = content[found.id].hash
      BY <2>3, <3>1 DEF RowType
    <3>3. content' = [content EXCEPT ![found.id] = row]
      BY <2>6
    <3> QED
      BY <1>2, <2>6, <3>2, <3>3
  <2> QED
    BY <2>1, <2>2, <2>5, <2>6
<1>6. CASE ResultCues
  <2> DEFINE id == jobs[turn].content
             row == [content[id] EXCEPT !.cues = turn]
  <2>1. id \in Rows /\ turn \in 0..MaxUploads
    <3>1. Len(jobs) \in Nat /\ turn \in 1..Len(jobs) /\ id \in Rows
      BY <1>6 DEF ResultCues, IInv, TypeOK, JobIds
    <3>2. Len(jobs) <= MaxUploads
      BY BusyTypes, IdentityAssumption DEF IInv, Counted
    <3> QED
      BY <3>1, <3>2, IdentityAssumption
  <2>2. content[id] \in RowType
    BY <1>1, <2>1 DEF Rows
  <2>3. row \in RowType /\ row.hash = content[id].hash
    BY <2>1, <2>2 DEF RowType
  <2>4. content' = [content EXCEPT ![id] = row] \/ UNCHANGED content
    BY <1>6 DEF ResultCues
  <2> QED
    BY <1>2, <1>4, <2>1, <2>3, <2>4
<1> QED
  BY <1>4, <1>5, <1>6 DEF JobFails

LEMMA NextHInv == ASSUME OneThread, HInv, [Next]_vars PROVE HInv'
<1> USE DEF HInv
<1>1. IInv'
  BY NextIInv
<1>2. ASSUME NEW w \in Analyzers, NEW a \in Audios, NEW p \in Paths, NEW force \in BOOLEAN,
             NEW f \in {PrintOf(a), NoValue}, Load(w, a, p, f, force)
      PROVE  Alone' /\ HashUnique'
  <2> DEFINE found == Lookup(a, f, p)
  <2>1. /\ found.by = "hash" => content[found.id].hash = a
        /\ found.by # "hash" => \A i \in Rows : content[i].hash # a
    BY LookupFinds, IdentityAssumption DEF IInv
  <2> HIDE DEF found
  <2>2. /\ doing'[w].step = "write" /\ doing'[w].audio = a /\ doing'[w].found = found
        /\ UNCHANGED content /\ Rows' = Rows
    BY <1>2 DEF Load, Rows, IInv, TypeOK, found
  <2>3. \A v \in Analyzers : v = w
    BY DEF OneThread
  <2> QED
    BY <2>1, <2>2, <2>3 DEF Alone, HashUnique
<1>3. ASSUME NEW w \in Analyzers, Write(w) PROVE Alone' /\ HashUnique'
  <2> DEFINE d == doing[w]
             id == Target(d)
  <2>1. /\ d.audio \in Audios /\ id \in Nat \ {0} /\ (d.found.by # "insert" => id \in Rows)
        /\ id \in Rows' /\ Rows' \subseteq Rows \cup {id}
        /\ content'[id].hash = d.audio
        /\ \A i \in Rows \ {id} : content'[i] = content[i]
    BY <1>3, WriteEffect DEF IInv
  <2>2. d.step = "write" /\ doing'[w].step # "write"
    BY <1>3 DEF Write, IInv, TypeOK, Nothing
  <2>3. \A i \in Rows \ {id} : content[i].hash # d.audio
    <3>1. CASE d.found.by = "hash"
      <4>1. content[id].hash = d.audio /\ id \in Rows
        BY <2>1, <2>2, <3>1 DEF Alone, Target
      <4> QED
        BY <2>1, <4>1, IdentityAssumption DEF HashUnique
    <3>2. CASE d.found.by # "hash"
      BY <2>2, <3>2 DEF Alone
    <3> QED
      BY <3>1, <3>2
  <2> HIDE DEF d, id
  <2>4. HashUnique'
    <3> SUFFICES ASSUME NEW i \in Rows', NEW k \in Rows', content'[i].hash = content'[k].hash,
                        content'[i].hash # NoValue
                 PROVE  i = k
      BY DEF HashUnique
    <3>1. CASE i # id /\ k # id
      BY <2>1, <3>1 DEF HashUnique
    <3>2. CASE i = id \/ k = id
      BY <2>1, <2>3, <3>2
    <3> QED
      BY <3>1, <3>2
  <2>5. Alone'
    BY <2>2 DEF Alone, OneThread
  <2> QED
    BY <2>4, <2>5
<1>4. ASSUME NEW w \in Analyzers, Cached(w) \/ Queued(w) PROVE Alone' /\ HashUnique'
  <2>1. UNCHANGED content /\ Rows' = Rows /\ doing'[w].step = "idle"
    BY <1>4 DEF Cached, Queued, Rows, IInv, TypeOK, Nothing
  <2>2. \A v \in Analyzers : v = w
    BY DEF OneThread
  <2> QED
    BY <2>1, <2>2 DEF Alone, HashUnique
<1>5. ASSUME UNCHANGED doing, ResultColumns \/ ResultCues \/ JobFails \/ UNCHANGED vars
      PROVE  Alone' /\ HashUnique'
  <2>1. /\ Rows \subseteq Rows' /\ \A i \in Rows : content'[i].hash = content[i].hash
        /\ \A i \in Rows' \ Rows : content'[i].hash = NoValue
    BY <1>5, ResultHashes DEF vars, Rows
  <2>2. HashUnique'
    BY <2>1 DEF HashUnique
  <2>3. Alone'
    <3> SUFFICES ASSUME NEW w \in Analyzers, doing[w].step = "write"
                 PROVE  /\ doing[w].found.by = "hash" =>
                             content'[doing[w].found.id].hash = doing[w].audio
                        /\ doing[w].found.by # "hash" =>
                             \A i \in Rows' : content'[i].hash # doing[w].audio
      BY <1>5 DEF Alone
    <3>1. doing[w].audio \in Audios /\ doing[w].audio # NoValue
      BY IdentityAssumption DEF IInv, TypeOK, Doing, Nothing
    <3>2. doing[w].found.by = "hash" => doing[w].found.id \in Rows
      BY DEF IInv, Pointing
    <3> QED
      BY <2>1, <3>1, <3>2 DEF Alone
  <2> QED
    BY <2>2, <2>3
<1> QED
  BY <1>1, <1>2, <1>3, <1>4, <1>5 DEF Next, ResultColumns, ResultCues, JobFails, vars

\* "The universal file_hash dedup in upsert_content guarantees same bytes -> same
\* content_id": with the service's one event loop and no parallel CLI.
THEOREM OneRowPerHash == ASSUME OneThread PROVE Spec => []HashUnique
<1>1. Init => HInv
  <2> SUFFICES ASSUME Init PROVE HInv
    OBVIOUS
  <2>1. Rows = {} /\ \A w \in Analyzers : doing[w].step = "idle"
    BY DEF Init, Rows, Nothing
  <2> QED
    BY <2>1, InitIInv DEF HInv, Alone, HashUnique
<1>2. HInv /\ [Next]_vars => HInv'
  BY NextHInv
<1>3. HInv => HashUnique
  BY DEF HInv
<1> QED
  BY <1>1, <1>2, <1>3, PTL DEF Spec
===============================================================================
