----------------------------- MODULE CueTagsProofs -----------------------------
(***************************************************************************)
(* Proofs about CueTags: no two windows of a request resolve to one cue,   *)
(* and whatever was asked to be tagged is embedded where it is now, or     *)
(* somebody knows it is not.                                               *)
(***************************************************************************)
EXTENDS CueTags, FiniteSetTheorems, WellFoundedInduction, TLAPS

\* A job the worker has not come to yet is to tag cue i.
Coming(i) == \E n \in (turn + 1)..Len(jobs) : Asks(n, i)

\* Cue ids are given out in order, so that a job knows of no cue of a later table.
IdsInOrder == /\ Live \subseteq 1..lastId
              /\ \A n \in DOMAIN jobs : jobs[n].live \subseteq 1..lastId

\* While the worker embeds, it is at a tag job and has read every cue of it there is:
\* the table is not replaced meanwhile, since that is for the worker to do.
Embedding ==
  pc = "embed" => /\ turn <= Len(jobs) /\ Current.kind = "tag" /\ Current.ids # <<>>
                  /\ DOMAIN fetched = Live \cap Range(Current.ids)

\* What the worker has read of a cue grows stale in two ways only: the window is moved,
\* by a request whose job is still to come, or the embedding changes, by a late result,
\* which marks the cue unless it is the embedding of its present window.
ReadWindow ==
  pc = "embed" => \A i \in DOMAIN fetched :
    fetched[i].window # cues[i].window => Coming(i)
ReadSig ==
  pc = "embed" => \A i \in DOMAIN fetched :
    cues[i].sig # fetched[i].sig /\ cues[i].sig # cues[i].window =>
      i \in unserved \/ Coming(i)

\* What a request that has read the cues is going to ask for.
Asking(q) == [ids |-> Ids(q), asked |-> q.asked, supply |-> q.supply]
Promised == \A q \in opened : OwnCues(Asking(q))

\* All that a step does not change that only reads the cues or refuses a request.
rest == <<cues, lastId, jobs, turn, pc, fetched, late, unserved>>

\* TagsCatchUp is inductive together with these.
CatchUpInv ==
  TypeOK /\ IdsInOrder /\ Embedding /\ ReadWindow /\ ReadSig /\ TagsCatchUp

-------------------------------------------------------------------------------
\* A window gets a cue that is there and not claimed, or NoCue when all are.
LEMMA MatchedIsFree ==
  ASSUME NEW w, NEW claimed, NEW i \in Matched(w, claimed)
  PROVE  i \in Live \ claimed \/ (i = NoCue /\ Live \subseteq claimed)
BY DEF Matched, Closest

\* NoCue is the id of no cue.
LEMMA LiveCues ==
  ASSUME TypeOK
  PROVE  /\ cues \in [Live -> Cue] /\ Live \subseteq CueIds /\ CueIds \subseteq Nat
         /\ NoCue \notin Live /\ IsFiniteSet(Live) /\ Cardinality(Live) \in Nat
<1>1. cues \in [Live -> Cue] /\ Live \subseteq CueIds
  BY DEF TypeOK, Tables, Live
<1>2. MaxCues \in Nat
  BY CuesAssumption
<1>3. CueIds \subseteq Nat /\ NoCue \notin CueIds
  BY <1>2 DEF CueIds, NoCue
<1>4. IsFiniteSet(CueIds)
  BY <1>2, FS_Interval DEF CueIds
<1>5. IsFiniteSet(Live)
  BY <1>1, <1>4, FS_Subset
<1> QED
  BY <1>1, <1>3, <1>5, FS_CardinalityType

\* The positions of a request that have a length are some of its at most MaxRequest.
LEMMA WithLengthBounded ==
  ASSUME NEW windows \in Requests
  PROVE  LET P == WithLength(windows)
         IN /\ P \subseteq 1..MaxRequest /\ IsFiniteSet(P)
            /\ Cardinality(P) \in 0..MaxRequest
            /\ \A k \in P : windows[k] \in Loops
<1> DEFINE P == WithLength(windows)
<1>1. PICK n \in 0..MaxRequest : windows \in [1..n -> Windows]
  BY DEF Requests
<1>2. MaxRequest \in Nat
  BY CuesAssumption
<1>3. P \subseteq 1..MaxRequest /\ \A k \in P : windows[k] \in Loops
  BY <1>1, <1>2 DEF WithLength, Loops
<1>4. IsFiniteSet(1..MaxRequest) /\ Cardinality(1..MaxRequest) = MaxRequest
  BY <1>2, FS_Interval
<1>5. IsFiniteSet(P) /\ Cardinality(P) <= MaxRequest
  BY <1>3, <1>4, FS_Subset
<1> QED
  BY <1>2, <1>3, <1>5, FS_CardinalityType

\* Two windows of a request never claim the same cue.
LEMMA ClaimsDistinct ==
  ASSUME TypeOK, NEW windows \in Requests,
         NEW own \in [WithLength(windows) -> Live \cup {NoCue}], Resolves(own, windows)
  PROVE  \A k, m \in DOMAIN own : own[k] = own[m] /\ own[k] # NoCue => k = m
<1> SUFFICES ASSUME NEW k \in DOMAIN own, NEW m \in DOMAIN own, own[k] = own[m],
                    own[k] # NoCue, m < k
             PROVE  FALSE
  <2>1. DOMAIN own \subseteq Nat
    BY WithLengthBounded, CuesAssumption
  <2> QED
    BY <2>1
<1>1. own[k] \notin Claimed(own, k)
  BY MatchedIsFree DEF Resolves
<1>2. own[m] \in Claimed(own, k)
  BY DEF Claimed
<1> QED
  BY <1>1, <1>2
\* A request uses the cues up before it skips a window.
LEMMA ClaimsCounted ==
  ASSUME TypeOK, NEW windows \in Requests, Live # {},
         NEW own \in [WithLength(windows) -> Live \cup {NoCue}], Resolves(own, windows),
         DOMAIN own # {}
  PROVE  LET resolved == {k \in DOMAIN own : own[k] # NoCue}
             asked    == Cardinality(DOMAIN own)
             supply   == Cardinality(Live)
         IN /\ resolved # {}
            /\ Cardinality(resolved) = IF asked < supply THEN asked ELSE supply
<1> DEFINE resolved == {k \in DOMAIN own : own[k] # NoCue}
           asked    == Cardinality(DOMAIN own)
           supply   == Cardinality(Live)
           f        == [k \in resolved |-> own[k]]
<1>1. f \in Injection(resolved, Live)
  <2>1. f \in [resolved -> Live]
    OBVIOUS
  <2>2. IsInjective(f)
    BY ClaimsDistinct DEF IsInjective
  <2> QED
    BY <2>1, <2>2 DEF Injection
<1>2. IsFiniteSet(Live) /\ supply \in Nat
  BY LiveCues
<1>3. IsFiniteSet(DOMAIN own) /\ asked \in Nat
  BY WithLengthBounded, FS_CardinalityType
<1>4. /\ IsFiniteSet(resolved) /\ Cardinality(resolved) \in Nat
      /\ Cardinality(resolved) <= supply
      /\ f \in Surjection(resolved, Live) => Cardinality(resolved) = supply
  <2> HIDE DEF f, resolved, supply
  <2>1. /\ IsFiniteSet(resolved)
        /\ Cardinality(resolved) <= Cardinality(Live)
        /\ Cardinality(resolved) = Cardinality(Live) <=> f \in Surjection(resolved, Live)
    BY <1>1, <1>2, FS_Injection
  <2> QED
    BY <2>1, FS_CardinalityType DEF supply
<1>5. CASE resolved = DOMAIN own
  BY <1>2, <1>3, <1>4, <1>5
<1>6. CASE resolved # DOMAIN own
  <2>1. PICK k \in DOMAIN own : own[k] = NoCue
    BY <1>6
  <2>2. NoCue \notin Live
    BY LiveCues
  <2>3. Live \subseteq Claimed(own, k)
    BY <2>1, <2>2, MatchedIsFree DEF Resolves
  <2>4. \A i \in Live : \E m \in resolved : f[m] = i
    BY <2>2, <2>3 DEF Claimed
  <2>5. f \in Surjection(resolved, Live)
    BY <1>1, <2>4 DEF Injection, Surjection
  <2>6. resolved # {}
    BY <2>4
  <2>7. Cardinality(resolved) = supply
    BY <1>4, <2>5
  <2>8. Cardinality(resolved) < asked
    <3>1. /\ Cardinality(resolved) <= Cardinality(DOMAIN own)
          /\ Cardinality(DOMAIN own) = Cardinality(resolved) => DOMAIN own = resolved
      BY <1>3, FS_Subset
    <3> QED
      BY <1>3, <1>4, <1>6, <3>1
  <2> QED
    BY <1>2, <1>3, <2>6, <2>7, <2>8
<1> QED
  BY <1>5, <1>6

\* What a request that reads the cues does: it gives every window a cue of its own.
LEMMA ReadFacts ==
  ASSUME TypeOK, NEW windows \in Requests, Tag(windows)
  PROVE  /\ \E q \in Opened : opened' = opened \cup {q} /\ OwnCues(Asking(q))
         /\ UNCHANGED rest
<1>1. PICK own \in [WithLength(windows) -> Live \cup {NoCue}] :
        LET resolved == {k \in DOMAIN own : own[k] # NoCue}
        IN /\ Resolves(own, windows)
           /\ opened' = opened \cup
                {[claims |-> [k \in resolved |-> [cue |-> own[k], window |-> windows[k]]],
                  asked |-> Cardinality(DOMAIN own), supply |-> Cardinality(Live)]}
  BY DEF Tag
<1> DEFINE resolved == {k \in DOMAIN own : own[k] # NoCue}
           claims == [k \in resolved |-> [cue |-> own[k], window |-> windows[k]]]
           asked == Cardinality(DOMAIN own)
           supply == Cardinality(Live)
           q == [claims |-> claims, asked |-> asked, supply |-> supply]
<1>2. /\ Live \subseteq CueIds /\ NoCue \notin Live /\ supply \in Nat
      /\ IsFiniteSet(CueIds) /\ Cardinality(CueIds) = MaxCues /\ MaxCues \in Nat
  <2>1. MaxCues \in Nat
    BY CuesAssumption
  <2>2. IsFiniteSet(CueIds) /\ Cardinality(CueIds) = MaxCues
    BY <2>1, FS_Interval DEF CueIds
  <2> QED
    BY <2>1, <2>2, LiveCues
<1>3. supply \in 0..MaxCues
  <2>1. Cardinality(Live) <= MaxCues
    BY <1>2, FS_Subset
  <2> QED
    BY <1>2, <2>1
<1>4. /\ DOMAIN own \subseteq 1..MaxRequest /\ asked \in 0..MaxRequest
      /\ \A k \in DOMAIN own : windows[k] \in Loops
  BY WithLengthBounded
<1>5. claims \in Claims
  <2>1. \A k \in resolved : own[k] \in CueIds /\ windows[k] \in Loops
    BY <1>2, <1>4
  <2>2. claims \in [resolved -> [cue : CueIds, window : Loops]]
    BY <2>1
  <2>3. resolved \in SUBSET (1..MaxRequest)
    BY <1>4
  <2> HIDE DEF claims, resolved
  <2> QED
    BY <2>2, <2>3 DEF Claims
<1>6. OwnCues(Asking(q))
  <2>1. Ids(q) = [k \in resolved |-> own[k]]
    BY DEF Ids
  <2> SUFFICES ASSUME asked > 0, supply > 0
               PROVE  /\ IsInjective(Ids(q))
                      /\ Cardinality(DOMAIN Ids(q)) = IF asked < supply THEN asked ELSE supply
    BY DEF OwnCues, Asking
  <2>2. DOMAIN own # {} /\ Live # {}
    BY FS_EmptySet
  <2>3. Cardinality(resolved) = IF asked < supply THEN asked ELSE supply
    BY <1>1, <2>2, ClaimsCounted
  <2>4. IsInjective(Ids(q))
    BY <1>1, <2>1, ClaimsDistinct DEF IsInjective
  <2> QED
    BY <2>1, <2>3, <2>4
<1>7. opened' = opened \cup {q}
  BY <1>1
<1> HIDE DEF claims, asked, supply
<1>8. q \in Opened
  BY <1>3, <1>4, <1>5 DEF Opened
<1> HIDE DEF q
<1> QED
  BY <1>6, <1>7, <1>8 DEF Tag, rest

\* What a request does when it writes: it moves windows of cues there still are, and
\* appends one job, which is for every cue it has moved.
LEMMA WriteFacts ==
  ASSUME TypeOK, NEW q \in opened, WriteTag(q)
  PROVE  /\ cues' \in [Live -> Cue] /\ \A i \in Live : cues'[i].sig = cues[i].sig
         /\ \E j \in JobType :
              /\ jobs' = Append(jobs, j) /\ j.kind = "tag" /\ j.live = Live
              /\ \A i \in Live : cues'[i].window # cues[i].window => i \in Range(j.ids)
              /\ OwnCues(Asking(q)) => OwnCues(j)
         /\ opened' \subseteq opened
         /\ UNCHANGED <<lastId, turn, pc, fetched, late, unserved>>
<1> DEFINE ids == Ids(q)
           chosen(i) == CHOOSE k \in DOMAIN ids : ids[k] = i
<1>1. /\ cues' = [i \in Live |->
             IF i \in Range(ids) THEN [cues[i] EXCEPT !.window = q.claims[chosen(i)].window]
             ELSE cues[i]]
      /\ opened' \in {opened, opened \ {q}}
      /\ UNCHANGED <<lastId, turn, pc, fetched, late, unserved>>
  BY DEF WriteTag
<1>2. PICK payload \in IF ids = <<>> THEN {<<>>} \cup {<<i>> : i \in PlayerIds} ELSE {ids},
           force \in BOOLEAN :
        jobs' = Append(jobs, [kind |-> "tag", force |-> force, ids |-> payload,
                              asked |-> q.asked, supply |-> q.supply, live |-> Live])
  BY DEF WriteTag
<1> DEFINE j == [kind |-> "tag", force |-> force, ids |-> payload,
                 asked |-> q.asked, supply |-> q.supply, live |-> Live]
<1>3. cues \in [Live -> Cue] /\ Live \subseteq CueIds
  BY LiveCues
<1>4. q \in Opened
  BY DEF TypeOK
<1>5. /\ q.asked \in 0..MaxRequest /\ q.supply \in 0..MaxCues /\ q.claims \in Claims
  BY <1>4 DEF Opened
<1>6. PICK S \in SUBSET (1..MaxRequest) : q.claims \in [S -> [cue : CueIds, window : Loops]]
  BY <1>5 DEF Claims
<1>7. /\ ids \in [S -> CueIds]
      /\ \A k \in DOMAIN ids : q.claims[k].window \in Loops
  BY <1>6 DEF Ids
<1>8. \A i \in Range(ids) : chosen(i) \in DOMAIN ids
  BY DEF Range
<1> HIDE DEF ids, chosen
<1>9. cues' \in [Live -> Cue] /\ \A i \in Live : cues'[i].sig = cues[i].sig
  <2>1. \A i \in Live : cues'[i] \in Cue /\ cues'[i].sig = cues[i].sig
    BY <1>1, <1>3, <1>7, <1>8 DEF Cue
  <2> QED
    BY <1>1, <2>1
<1>10. payload \in Payloads
  <2>1. CASE ids = <<>>
    <3>1. MaxRequest \in Nat \ {0}
      BY CuesAssumption
    <3>2. <<>> \in [{} -> CueIds \cup PlayerIds] /\ {} \in SUBSET (1..MaxRequest)
      OBVIOUS
    <3>3. \A i \in PlayerIds : <<i>> \in [1..1 -> CueIds \cup PlayerIds]
      OBVIOUS
    <3>4. 1..1 \in SUBSET (1..MaxRequest)
      BY <3>1
    <3> QED
      BY <2>1, <3>2, <3>3, <3>4 DEF Payloads
  <2>2. CASE ids # <<>>
    <3>1. payload = ids /\ ids \in [S -> CueIds \cup PlayerIds]
      BY <1>2, <1>7, <2>2
    <3> QED
      BY <3>1 DEF Payloads
  <2> QED
    BY <2>1, <2>2
<1>11. j \in JobType
  BY <1>3, <1>5, <1>10 DEF JobType
<1>12. ASSUME NEW i \in Live, cues'[i].window # cues[i].window
       PROVE  i \in Range(payload)
  <2>1. i \in Range(ids)
    BY <1>1, <1>3, <1>12
  <2>2. ids # <<>>
    BY <2>1 DEF Range
  <2> QED
    BY <1>2, <2>1, <2>2
<1>13. ASSUME OwnCues(Asking(q)) PROVE OwnCues(j)
  <2> SUFFICES ASSUME q.asked > 0, q.supply > 0
               PROVE  /\ IsInjective(payload)
                      /\ Cardinality(DOMAIN payload)
                           = IF q.asked < q.supply THEN q.asked ELSE q.supply
    BY DEF OwnCues
  <2>1. /\ IsInjective(ids)
        /\ Cardinality(DOMAIN ids) = IF q.asked < q.supply THEN q.asked ELSE q.supply
    BY <1>13 DEF OwnCues, Asking, ids
  <2>2. ids # <<>>
    <3>1. q.asked \in Nat /\ q.supply \in Nat
      BY <1>5, CuesAssumption
    <3>2. Cardinality(DOMAIN ids) > 0
      BY <2>1, <3>1
    <3> QED
      BY <3>2, FS_EmptySet
  <2>3. payload = ids
    BY <1>2, <2>2
  <2> QED
    BY <2>1, <2>3
<1> QED
  <2>1. opened' \subseteq opened
    BY <1>1
  <2> HIDE DEF j
  <2>2. j.kind = "tag" /\ j.live = Live /\ j.ids = payload
    BY DEF j
  <2> QED
    BY <1>1, <1>2, <1>9, <1>11, <1>12, <1>13, <2>1, <2>2 DEF j

\* Reading, refusing and stuttering leave all but the requests alone.
LEMMA QuietSteps ==
  ASSUME TypeOK
  PROVE  /\ \A r \in Requests : Tag(r) => UNCHANGED rest
         /\ \A q \in opened : Refused(q) => UNCHANGED rest
         /\ UNCHANGED vars => UNCHANGED rest
BY ReadFacts DEF Refused, vars, rest

\* Appending a job changes no earlier one.
LEMMA AppendFacts ==
  ASSUME TypeOK, NEW j \in JobType, jobs' = Append(jobs, j)
  PROVE  /\ jobs' \in Seq(JobType) /\ Len(jobs') = Len(jobs) + 1 /\ Len(jobs) \in Nat
         /\ \A n \in 1..Len(jobs) : jobs'[n] = jobs[n]
         /\ jobs'[Len(jobs) + 1] = j
         /\ DOMAIN jobs = 1..Len(jobs) /\ DOMAIN jobs' = 1..(Len(jobs) + 1)
BY DEF TypeOK

\* The part of Asks that changes with the table of jobs.
LEMMA AskedBefore ==
  ASSUME TypeOK, NEW j \in JobType, jobs' = Append(jobs, j)
  PROVE  /\ \A i : \A n \in 1..Len(jobs) : Asks(n, i)' <=> Asks(n, i)
         /\ \A n, i : Asks(n, i)' => n \in 1..(Len(jobs) + 1)
         /\ \A n, i : Asks(n, i) => n \in 1..Len(jobs)
         /\ \A n, i : n = Len(jobs) + 1 =>
              (Asks(n, i)' <=> j.kind = "tag" /\ i \in Range(j.ids) \cap j.live)
<1>1. /\ \A n \in 1..Len(jobs) : jobs'[n] = jobs[n]
      /\ jobs'[Len(jobs) + 1] = j /\ Len(jobs) \in Nat
      /\ DOMAIN jobs = 1..Len(jobs) /\ DOMAIN jobs' = 1..(Len(jobs) + 1)
  BY AppendFacts
<1>2. \A i : \A n \in 1..Len(jobs) : Asks(n, i)' <=> Asks(n, i)
  BY <1>1 DEF Asks, TagJobs
<1>3. \A n, i : Asks(n, i)' => n \in 1..(Len(jobs) + 1)
  BY <1>1 DEF Asks, TagJobs
<1>4. \A n, i : Asks(n, i) => n \in 1..Len(jobs)
  BY <1>1 DEF Asks, TagJobs
<1>5. \A n, i : n = Len(jobs) + 1 =>
        (Asks(n, i)' <=> j.kind = "tag" /\ i \in Range(j.ids) \cap j.live)
  BY <1>1 DEF Asks, TagJobs
<1> QED
  BY <1>2, <1>3, <1>4, <1>5

\* The updates of a result set embeddings only.
LEMMA UpdatedFacts ==
  ASSUME TypeOK, NEW r \in Results
  PROVE  /\ Updated(r) \in [Live -> Cue]
         /\ \A i \in Live : /\ Updated(r)[i].window = cues[i].window
                            /\ i \in DOMAIN r => Updated(r)[i].sig = r[i]
                            /\ i \notin DOMAIN r => Updated(r)[i] = cues[i]
<1>1. cues \in [Live -> Cue]
  BY LiveCues
<1>2. \A i \in DOMAIN r : r[i] \in Loops
  BY DEF Results
<1> QED
  BY <1>1, <1>2 DEF Updated, Cue

\* What the worker posts are windows it has read.
LEMMA EmbeddedFacts ==
  ASSUME TypeOK, NEW force
  PROVE  /\ Embedded(fetched, force) \in Results
         /\ fetched \in [DOMAIN fetched -> Cue] /\ DOMAIN fetched \subseteq CueIds
         /\ \A i \in DOMAIN fetched :
              /\ i \in DOMAIN Embedded(fetched, force) <=> Dirty(fetched[i], force)
              /\ i \in DOMAIN Embedded(fetched, force) =>
                   Embedded(fetched, force)[i] = fetched[i].window
         /\ DOMAIN Embedded(fetched, force) \subseteq DOMAIN fetched
<1>1. fetched \in [DOMAIN fetched -> Cue] /\ DOMAIN fetched \subseteq CueIds
  BY DEF TypeOK, Tables
<1>2. \A i \in DOMAIN fetched : fetched[i].window \in Loops
  BY <1>1 DEF Cue
<1> DEFINE S == {i \in DOMAIN fetched : Dirty(fetched[i], force)}
<1>3. Embedded(fetched, force) = [i \in S |-> fetched[i].window]
  BY DEF Embedded
<1>4. Embedded(fetched, force) \in [S -> Loops] /\ S \in SUBSET CueIds
  BY <1>1, <1>2, <1>3
<1>5. Embedded(fetched, force) \in Results
  BY <1>4 DEF Results
<1> QED
  BY <1>1, <1>3, <1>5

\* loop_propose leaves the table alone, or replaces it by cues with fresh ids.
LEMMA ProposeFacts ==
  ASSUME TypeOK, Propose
  PROVE  /\ cues' \in Tables /\ lastId' \in lastId..MaxCues
         /\ cues' = cues \/ Live' = (lastId + 1)..lastId'
         /\ turn \in 1..Len(jobs) /\ turn' = turn + 1 /\ Current.kind = "propose"
         /\ UNCHANGED <<opened, jobs, pc, fetched, late, unserved>>
<1>1. PICK found \in Proposals : \E new \in InTimeOrder(found) :
         /\ lastId + Len(new) <= MaxCues
         /\ lastId' = lastId + Len(new)
         /\ cues' = IF found = {} THEN cues
                    ELSE [i \in (lastId + 1)..lastId' |->
                            [window |-> new[i - lastId], sig |-> None]]
  BY DEF Propose
<1>2. PICK new \in InTimeOrder(found) :
         /\ lastId + Len(new) <= MaxCues
         /\ lastId' = lastId + Len(new)
         /\ cues' = IF found = {} THEN cues
                    ELSE [i \in (lastId + 1)..lastId' |->
                            [window |-> new[i - lastId], sig |-> None]]
  BY <1>1
<1>3. IsFiniteSet(found) /\ found \subseteq Loops
  BY CuesAssumption DEF Loops
<1>4. Cardinality(found) \in Nat
  BY <1>3, FS_CardinalityType
<1>5. new \in [1..Cardinality(found) -> found] /\ Len(new) = Cardinality(found)
  BY <1>4 DEF InTimeOrder
<1>6. lastId \in Nat /\ MaxCues \in Nat
  BY CuesAssumption DEF TypeOK
<1>7. lastId' \in lastId..MaxCues
  BY <1>2, <1>4, <1>5, <1>6
<1>8. CASE found = {}
  <2>1. cues' = cues /\ cues' \in Tables
    BY <1>2, <1>8 DEF TypeOK
  <2>2. turn \in 1..Len(jobs)
    BY DEF TypeOK, Propose
  <2> QED
    BY <1>7, <2>1, <2>2 DEF Propose
<1>9. CASE found # {}
  <2>1. cues' = [i \in (lastId + 1)..lastId' |-> [window |-> new[i - lastId], sig |-> None]]
    BY <1>2, <1>9
  <2>2. \A i \in (lastId + 1)..lastId' : new[i - lastId] \in Loops
    BY <1>2, <1>3, <1>4, <1>5, <1>6
  <2>3. cues' \in [(lastId + 1)..lastId' -> Cue]
    BY <2>1, <2>2 DEF Cue
  <2>4. (lastId + 1)..lastId' \in SUBSET CueIds
    BY <1>6, <1>7 DEF CueIds
  <2>5. cues' \in Tables
    BY <2>3, <2>4 DEF Tables
  <2>6. Live' = (lastId + 1)..lastId'
    BY <2>1 DEF Live
  <2> QED
    BY <1>7, <2>5, <2>6 DEF TypeOK, Propose
<1> QED
  BY <1>8, <1>9

\* The variables have their types.
LEMMA TypeStep ==
  ASSUME TypeOK, Embedding, [Next]_vars
  PROVE  TypeOK'
<1> USE DEF TypeOK
<1>1. CASE UNCHANGED vars
  BY <1>1 DEF vars
<1>2. ASSUME NEW q \in opened, WriteTag(q)
      PROVE  TypeOK'
  <2>1. /\ cues' \in [Live -> Cue] /\ opened' \subseteq opened
        /\ UNCHANGED <<lastId, turn, pc, fetched, late, unserved>>
    BY <1>2, WriteFacts
  <2>2. PICK j \in JobType : jobs' = Append(jobs, j)
    BY <1>2, WriteFacts
  <2>3. cues' \in Tables
    BY <2>1, LiveCues DEF Tables
  <2>4. jobs' \in Seq(JobType) /\ Len(jobs') = Len(jobs) + 1
    BY <2>2, AppendFacts
  <2> QED
    BY <2>1, <2>3, <2>4
<1>3. CASE Regenerate
  <2> DEFINE j == [kind |-> "propose", force |-> FALSE, ids |-> <<>>, asked |-> 0, supply |-> 0,
                   live |-> Live]
  <2>1. <<>> \in [{} -> CueIds \cup PlayerIds]
    OBVIOUS
  <2>2. <<>> \in Payloads
    BY <2>1 DEF Payloads
  <2>3. j \in JobType
    BY <2>2, LiveCues, CuesAssumption DEF JobType
  <2>4. jobs' = Append(jobs, j)
    BY <1>3 DEF Regenerate
  <2> HIDE DEF j
  <2>5. jobs' \in Seq(JobType) /\ Len(jobs') = Len(jobs) + 1
    BY <2>3, <2>4, AppendFacts
  <2> QED
    BY <1>3, <2>5 DEF Regenerate
<1>4. CASE Propose
  BY <1>4, ProposeFacts, CuesAssumption
<1>5. CASE Fetch
  <2>1. fetched' \in [Live \cap Range(Current.ids) -> Cue]
    BY <1>5, LiveCues DEF Fetch, Restrict
  <2>2. fetched' \in Tables
    BY <2>1, LiveCues DEF Tables
  <2> QED
    BY <1>5, <2>2 DEF Fetch
<1>6. CASE Blank
  BY <1>6 DEF Blank
<1>7. None \in Tables
  <2>1. None \in [{} -> Cue]
    BY DEF None
  <2> QED
    BY <2>1 DEF Tables
<1>8. pc = "embed" => turn \in 1..Len(jobs)
  BY DEF Embedding
<1>9. CASE Embed
  <2>1. Embedded(fetched, Current.force) \in Results
    BY EmbeddedFacts
  <2>2. cues' \in [Live -> Cue]
    BY <1>9, <2>1, UpdatedFacts DEF Embed
  <2>3. cues' \in Tables
    BY <2>2, LiveCues DEF Tables
  <2> QED
    BY <1>7, <1>8, <1>9, <2>3 DEF Embed, NextJob
<1>10. CASE Abandon
  <2>1. DOMAIN fetched \subseteq CueIds
    BY EmbeddedFacts
  <2> QED
    BY <1>7, <1>8, <1>10, <2>1 DEF Abandon, NextJob
<1>11. CASE Unanswered
  <2>1. DOMAIN fetched \subseteq CueIds /\ Embedded(fetched, Current.force) \in Results
    BY EmbeddedFacts
  <2> QED
    BY <1>7, <1>8, <1>11, <2>1 DEF Unanswered, NextJob
<1>12. ASSUME NEW r \in late, LateResult(r)
       PROVE  TypeOK'
  <2>1. cues' \in [Live -> Cue]
    BY <1>12, UpdatedFacts DEF LateResult
  <2>2. cues' \in Tables
    BY <2>1, LiveCues DEF Tables
  <2> QED
    BY <1>12, <2>2, LiveCues DEF LateResult
<1>13. ASSUME NEW w \in Requests, Tag(w)
       PROVE  TypeOK'
  <2>1. PICK q \in Opened : opened' = opened \cup {q}
    BY <1>13, ReadFacts
  <2>2. UNCHANGED rest
    BY <1>13, ReadFacts
  <2> QED
    BY <2>1, <2>2 DEF rest
<1>14. ASSUME NEW q \in opened, Refused(q)
       PROVE  TypeOK'
  BY <1>14 DEF Refused
<1> QED
  BY <1>1, <1>2, <1>3, <1>4, <1>5, <1>6, <1>9, <1>10, <1>11, <1>12, <1>13, <1>14 DEF Next
-------------------------------------------------------------------------------
LEMMA OrderStep ==
  ASSUME TypeOK, IdsInOrder, [Next]_vars
  PROVE  IdsInOrder'
<1> USE DEF IdsInOrder
<1>1. CASE UNCHANGED rest
  BY <1>1 DEF rest, Live
<1>2. ASSUME NEW q \in opened, WriteTag(q)
      PROVE  IdsInOrder'
  <2>1. PICK j \in JobType : jobs' = Append(jobs, j) /\ j.live = Live
    BY <1>2, WriteFacts
  <2>2. Live' = Live /\ lastId' = lastId
    BY <1>2, WriteFacts DEF Live
  <2>3. /\ \A n \in 1..Len(jobs) : jobs'[n] = jobs[n]
        /\ jobs'[Len(jobs) + 1] = j /\ Len(jobs) \in Nat
        /\ DOMAIN jobs = 1..Len(jobs) /\ DOMAIN jobs' = 1..(Len(jobs) + 1)
    BY <2>1, AppendFacts
  <2>4. ASSUME NEW n \in DOMAIN jobs'
        PROVE  jobs'[n].live \subseteq 1..lastId
    <3>1. CASE n \in 1..Len(jobs)
      BY <2>3, <3>1
    <3>2. CASE n = Len(jobs) + 1
      BY <2>1, <2>3, <3>2
    <3> QED
      BY <2>3, <3>1, <3>2
  <2> QED
    BY <2>2, <2>4
<1>3. CASE Regenerate
  <2> DEFINE j == [kind |-> "propose", force |-> FALSE, ids |-> <<>>, asked |-> 0, supply |-> 0,
                   live |-> Live]
  <2>1. jobs' = Append(jobs, j) /\ Live' = Live /\ lastId' = lastId
    BY <1>3 DEF Regenerate, Live
  <2>2. /\ \A n \in 1..Len(jobs) : jobs'[n] = jobs[n]
        /\ jobs'[Len(jobs) + 1].live = Live /\ Len(jobs) \in Nat
        /\ DOMAIN jobs = 1..Len(jobs) /\ DOMAIN jobs' = 1..(Len(jobs) + 1)
    BY <2>1 DEF TypeOK
  <2>3. ASSUME NEW n \in DOMAIN jobs'
        PROVE  jobs'[n].live \subseteq 1..lastId
    <3>1. CASE n \in 1..Len(jobs)
      BY <2>2, <3>1
    <3>2. CASE n = Len(jobs) + 1
      BY <2>2, <3>2
    <3> QED
      BY <2>2, <3>1, <3>2
  <2> QED
    BY <2>1, <2>3
<1>4. CASE Propose
  <2>1. lastId \in Nat /\ lastId' \in Nat /\ lastId <= lastId'
    BY <1>4, ProposeFacts, CuesAssumption DEF TypeOK
  <2>2. jobs' = jobs /\ (cues' = cues \/ Live' = (lastId + 1)..lastId')
    BY <1>4, ProposeFacts
  <2>3. 1..lastId \subseteq 1..lastId' /\ (lastId + 1)..lastId' \subseteq 1..lastId'
    BY <2>1
  <2>4. Live' \subseteq 1..lastId'
    BY <2>2, <2>3 DEF Live
  <2> QED
    BY <2>2, <2>3, <2>4
<1>5. CASE Fetch \/ Blank \/ Abandon \/ Unanswered
  BY <1>5 DEF Fetch, Blank, Abandon, Unanswered, Live
<1>6. CASE Embed
  <2>1. Live' = Live /\ UNCHANGED <<lastId, jobs>>
    BY <1>6 DEF Embed, Updated, Live
  <2> QED
    BY <2>1
<1>7. ASSUME NEW r \in late, LateResult(r)
      PROVE  IdsInOrder'
  <2>1. Live' = Live /\ UNCHANGED <<lastId, jobs>>
    BY <1>7 DEF LateResult, Updated, Live
  <2> QED
    BY <2>1
<1> QED
  BY <1>1, QuietSteps, <1>2, <1>3, <1>4, <1>5, <1>6, <1>7 DEF Next

\* While the worker embeds, no other step of it is taken.
LEMMA OneJobAtATime ==
  ASSUME Embedding, Propose \/ Fetch \/ Blank
  PROVE  pc # "embed"
BY DEF Embedding, Propose, Fetch, Blank

\* A job appended does not disturb the one the worker is at.
LEMMA CurrentStays ==
  ASSUME TypeOK, NEW j \in JobType, jobs' = Append(jobs, j), turn' = turn,
         turn <= Len(jobs)
  PROVE  Current' = Current
<1>1. turn \in 1..Len(jobs)
  BY DEF TypeOK
<1> QED
  BY <1>1, AppendFacts DEF Current

\* A request or a re-analysis appends one job, and lets the worker be.
LEMMA Appends ==
  ASSUME TypeOK, Regenerate \/ \E q \in opened : WriteTag(q)
  PROVE  /\ \E j \in JobType : jobs' = Append(jobs, j)
         /\ Live' = Live /\ \A i \in Live : cues'[i].sig = cues[i].sig
         /\ UNCHANGED <<lastId, turn, pc, fetched, late, unserved>>
<1>1. CASE Regenerate
  <2> DEFINE j == [kind |-> "propose", force |-> FALSE, ids |-> <<>>, asked |-> 0, supply |-> 0,
                   live |-> Live]
  <2>1. <<>> \in [{} -> CueIds \cup PlayerIds]
    OBVIOUS
  <2>2. <<>> \in Payloads
    BY <2>1 DEF Payloads
  <2>3. j \in JobType
    BY <2>2, LiveCues, CuesAssumption DEF JobType
  <2>4. jobs' = Append(jobs, j)
    BY <1>1 DEF Regenerate
  <2> HIDE DEF j
  <2> QED
    BY <1>1, <2>3, <2>4 DEF Regenerate, Live
<1>2. CASE \E q \in opened : WriteTag(q)
  BY <1>2, WriteFacts DEF Live
<1> QED
  BY <1>1, <1>2

LEMMA EmbeddingStep ==
  ASSUME TypeOK, Embedding, [Next]_vars
  PROVE  Embedding'
<1> USE DEF Embedding
<1>1. CASE UNCHANGED rest
  BY <1>1 DEF rest, Current, Live
<1>2. CASE Regenerate \/ \E q \in opened : WriteTag(q)
  <2>1. PICK j \in JobType : jobs' = Append(jobs, j)
    BY <1>2, Appends
  <2>2. Live' = Live /\ UNCHANGED <<turn, pc, fetched>>
    BY <1>2, Appends
  <2>3. Len(jobs') = Len(jobs) + 1 /\ Len(jobs) \in Nat
    BY <2>1, AppendFacts
  <2>4. turn <= Len(jobs) => Current' = Current
    BY <2>1, <2>2, CurrentStays
  <2>5. pc = "embed" => turn' <= Len(jobs')
    BY <2>2, <2>3 DEF TypeOK
  <2> QED
    BY <2>2, <2>4, <2>5
<1>3. CASE Propose
  BY <1>3, OneJobAtATime, ProposeFacts
<1>4. CASE Fetch
  BY <1>4 DEF Fetch, Restrict, Live, Current
<1>5. CASE Blank
  BY <1>5, OneJobAtATime DEF Blank
<1>6. CASE Embed \/ Abandon \/ Unanswered
  BY <1>6 DEF Embed, Abandon, Unanswered, NextJob
<1>7. ASSUME NEW r \in late, LateResult(r)
      PROVE  Embedding'
  BY <1>7 DEF LateResult, Updated, Live, Current
<1> QED
  BY <1>1, QuietSteps, <1>2, <1>3, <1>4, <1>5, <1>6, <1>7 DEF Next

\* A job that is to come is still to come when another one is appended.
LEMMA ComingStays ==
  ASSUME TypeOK, NEW j \in JobType, jobs' = Append(jobs, j), turn' = turn, NEW i, Coming(i)
  PROVE  Coming(i)'
<1>1. PICK n \in (turn + 1)..Len(jobs) : Asks(n, i)
  BY DEF Coming
<1>2. n \in 1..Len(jobs) /\ n \in (turn + 1)..(Len(jobs) + 1)
  BY <1>1, AppendFacts DEF TypeOK
<1>3. Asks(n, i)' /\ Len(jobs') = Len(jobs) + 1
  BY <1>1, <1>2, AskedBefore, AppendFacts
<1> QED
  BY <1>2, <1>3 DEF Coming

\* The job of a request that moves a window asks for the cue.
LEMMA MovedIsAsked ==
  ASSUME TypeOK, NEW q \in opened, WriteTag(q), NEW i \in Live,
         cues'[i].window # cues[i].window
  PROVE  \E n : n = Len(jobs) + 1 /\ n = Len(jobs') /\ Asks(n, i)'
<1>1. PICK j \in JobType :
         /\ jobs' = Append(jobs, j) /\ j.kind = "tag" /\ j.live = Live
         /\ \A k \in Live : cues'[k].window # cues[k].window => k \in Range(j.ids)
  BY WriteFacts
<1>2. i \in Range(j.ids) \cap j.live
  BY <1>1
<1> QED
  BY <1>1, <1>2, AskedBefore, AppendFacts

LEMMA ReadStep ==
  ASSUME TypeOK, Embedding, ReadWindow, ReadSig, [Next]_vars
  PROVE  ReadWindow' /\ ReadSig'
<1> USE DEF ReadWindow, ReadSig
<1>0. pc = "embed" => turn \in 1..Len(jobs) /\ DOMAIN fetched \subseteq Live
  BY DEF TypeOK, Embedding
<1>1. CASE UNCHANGED rest
  BY <1>1 DEF rest, Coming, Asks, TagJobs
<1>2. CASE Regenerate
  <2>1. PICK j \in JobType : jobs' = Append(jobs, j)
    BY <1>2, Appends
  <2>2. UNCHANGED <<cues, turn, pc, fetched, unserved>>
    BY <1>2 DEF Regenerate
  <2>3. \A i : Coming(i) => Coming(i)'
    BY <2>1, <2>2, ComingStays
  <2> QED
    BY <2>2, <2>3
<1>3. ASSUME NEW q \in opened, WriteTag(q)
      PROVE  ReadWindow' /\ ReadSig'
  <2>1. PICK j \in JobType : jobs' = Append(jobs, j)
    BY <1>3, WriteFacts
  <2>2. UNCHANGED <<turn, pc, fetched, unserved>> /\ \A i \in Live : cues'[i].sig = cues[i].sig
    BY <1>3, WriteFacts
  <2>3. \A i : Coming(i) => Coming(i)'
    BY <2>1, <2>2, ComingStays
  <2>4. ASSUME pc = "embed", NEW i \in Live, cues'[i].window # cues[i].window
        PROVE  Coming(i)'
    <3>1. PICK n : n = Len(jobs) + 1 /\ n = Len(jobs') /\ Asks(n, i)'
      BY <1>3, <2>4, MovedIsAsked
    <3>2. n \in (turn + 1)..Len(jobs')
      BY <1>0, <2>4, <3>1
    <3> QED
      BY <2>2, <3>1, <3>2 DEF Coming
  <2>5. ASSUME pc = "embed", NEW i \in DOMAIN fetched
        PROVE  /\ fetched[i].window # cues'[i].window => Coming(i)'
               /\ cues'[i].sig # fetched[i].sig /\ cues'[i].sig # cues'[i].window =>
                    i \in unserved \/ Coming(i)'
    <3>1. i \in Live /\ cues'[i].sig = cues[i].sig
      BY <1>0, <2>2, <2>5
    <3>2. cues'[i].window # cues[i].window => Coming(i)'
      BY <2>4, <2>5, <3>1
    <3>3. fetched[i].window # cues[i].window => Coming(i)'
      BY <2>3, <2>5
    <3>4. cues[i].sig # fetched[i].sig /\ cues[i].sig # cues[i].window =>
            i \in unserved \/ Coming(i)'
      BY <2>3, <2>5
    <3> QED
      BY <3>1, <3>2, <3>3, <3>4
  <2> QED
    BY <2>2, <2>5
<1>4. CASE Propose \/ Blank
  BY <1>4, OneJobAtATime DEF Propose, Blank
<1>5. CASE Fetch
  BY <1>5 DEF Fetch, Restrict
<1>6. CASE Embed \/ Abandon \/ Unanswered
  BY <1>6 DEF Embed, Abandon, Unanswered, NextJob
<1>7. ASSUME NEW r \in late, LateResult(r)
      PROVE  ReadWindow' /\ ReadSig'
  <2>1. UNCHANGED <<jobs, turn, pc, fetched>> /\ cues' = Updated(r)
    BY <1>7 DEF LateResult
  <2>2. \A i : Coming(i)' <=> Coming(i)
    BY <2>1 DEF Coming, Asks, TagJobs
  <2>3. r \in Results
    BY DEF TypeOK
  <2>4. \A i \in Live : cues'[i].window = cues[i].window
    BY <2>1, <2>3, UpdatedFacts
  <2>5. \A i \in Live : cues'[i] # cues[i] /\ cues'[i].sig # cues[i].window => i \in unserved'
    BY <1>7 DEF LateResult
  <2>6. unserved \subseteq unserved'
    BY <1>7 DEF LateResult
  <2> QED
    BY <1>0, <2>1, <2>2, <2>4, <2>5, <2>6
<1> QED
  BY <1>1, QuietSteps, <1>2, <1>3, <1>4, <1>5, <1>6, <1>7 DEF Next
-------------------------------------------------------------------------------
\* What TagsCatchUp says of cue i.
Owed(i) == (\E n \in 1..(turn - 1) : Asks(n, i)) /\ cues[i].sig # cues[i].window
Known(i) == \/ i \in unserved \/ cues[i].window \in TooShort \/ Coming(i)
            \/ Asks(turn, i) /\ (pc = "poll" \/ fetched[i].window = cues[i].window)

LEMMA CatchUpByCue ==
  /\ TagsCatchUp <=> \A i \in Live : Owed(i) => Known(i)
  /\ TagsCatchUp' <=> \A i \in Live' : Owed(i)' => Known(i)'
BY DEF TagsCatchUp, Owed, Known, Coming

\* A cue that was asked for before and is owed an embedding after a request is one
\* whose window has stayed, or the request asks for it again.
LEMMA CatchUpAppend ==
  ASSUME TypeOK, Embedding, TagsCatchUp, Regenerate \/ \E q \in opened : WriteTag(q)
  PROVE  TagsCatchUp'
<1>1. PICK j \in JobType : jobs' = Append(jobs, j)
  BY Appends
<1>2. /\ Live' = Live /\ \A i \in Live : cues'[i].sig = cues[i].sig
      /\ UNCHANGED <<turn, pc, fetched, unserved>>
  BY Appends
<1>3. turn \in 1..(Len(jobs) + 1) /\ Len(jobs) \in Nat /\ Len(jobs') = Len(jobs) + 1
  BY <1>1, AppendFacts DEF TypeOK
<1>4. \A i : Coming(i) => Coming(i)'
  BY <1>1, <1>2, ComingStays
<1>5. \A i : \A n \in 1..Len(jobs) : Asks(n, i)' <=> Asks(n, i)
  BY <1>1, AskedBefore
<1>6. pc \in {"poll", "embed"} /\ (pc = "embed" => turn <= Len(jobs))
  BY DEF TypeOK, Embedding
<1>7. ASSUME NEW i \in Live, Owed(i)'
      PROVE  Known(i)'
  <2>1. CASE cues'[i].window # cues[i].window
    <3>1. PICK q \in opened : WriteTag(q)
      BY <2>1 DEF Regenerate
    <3>2. PICK n : n = Len(jobs) + 1 /\ n = Len(jobs') /\ Asks(n, i)'
      BY <2>1, <3>1, MovedIsAsked
    <3>3. CASE turn = n
      BY <1>2, <1>6, <3>2, <3>3 DEF Known
    <3>4. CASE turn # n
      <4>1. n \in (turn + 1)..Len(jobs')
        BY <1>3, <3>2, <3>4
      <4> QED
        BY <1>2, <3>2, <4>1 DEF Known, Coming
    <3> QED
      BY <3>3, <3>4
  <2>2. CASE cues'[i].window = cues[i].window
    <3>1. \A n \in 1..(turn - 1) : Asks(n, i)' <=> Asks(n, i)
      BY <1>3, <1>5
    <3>2. Owed(i)
      BY <1>2, <1>7, <2>2, <3>1 DEF Owed
    <3>3. Known(i)
      BY <3>2, CatchUpByCue
    <3>4. Asks(turn, i) => Asks(turn, i)'
      BY <1>1, <1>2, <1>5, AskedBefore
    <3> QED
      BY <1>2, <1>4, <2>2, <3>3, <3>4 DEF Known
  <2> QED
    BY <2>1, <2>2
<1> QED
  BY <1>2, <1>7, CatchUpByCue

\* The worker goes on to the next job and leaves the cues as they are.
LEMMA ComingNext ==
  ASSUME TypeOK, jobs' = jobs, turn' = turn + 1, pc' = "poll", NEW i, Coming(i)
  PROVE  Coming(i)' \/ (Asks(turn, i)' /\ pc' = "poll")
<1>1. PICK n \in (turn + 1)..Len(jobs) : Asks(n, i)
  BY DEF Coming
<1>2. Asks(n, i)'
  BY <1>1 DEF Asks, TagJobs
<1>3. CASE n = turn + 1
  <2>1. n = turn'
    BY <1>3
  <2> QED
    BY <1>2, <2>1
<1>4. CASE n # turn + 1
  <2>1. n \in (turn' + 1)..Len(jobs')
    BY <1>1, <1>4 DEF TypeOK
  <2> QED
    BY <1>2, <2>1 DEF Coming
<1> QED
  BY <1>3, <1>4

\* Who asked before the next job asked before this one, or this one asked.
LEMMA OwedNext ==
  ASSUME TypeOK, jobs' = jobs, turn' = turn + 1, NEW i, Owed(i)'
  PROVE  Asks(turn, i) \/ \E n \in 1..(turn - 1) : Asks(n, i)
<1>1. PICK n \in 1..turn : Asks(n, i)'
  BY DEF Owed, TypeOK
<1>2. Asks(n, i)
  BY <1>1 DEF Asks, TagJobs
<1> QED
  BY <1>1, <1>2 DEF TypeOK

\* A step that ends a job without embedding: nothing is owed for it, or its cues are
\* marked.
LEMMA CatchUpSkip ==
  ASSUME TypeOK, TagsCatchUp, jobs' = jobs, turn' = turn + 1, pc' = "poll",
         cues' = cues, unserved \subseteq unserved',
         \A i \in Live : Asks(turn, i) => i \in unserved'
  PROVE  TagsCatchUp'
<1>1. ASSUME NEW i \in Live', Owed(i)'
      PROVE  Known(i)'
  <2>1. i \in Live
    BY DEF Live
  <2>2. CASE Asks(turn, i)
    BY <2>1, <2>2 DEF Known
  <2>3. CASE ~Asks(turn, i)
    <3>1. Owed(i)
      BY <1>1, <2>3, OwedNext DEF Owed
    <3>2. i \in unserved \/ cues[i].window \in TooShort \/ Coming(i)
      BY <2>1, <2>3, <3>1, CatchUpByCue DEF Known
    <3> QED
      BY <3>2, ComingNext DEF Known
  <2> QED
    BY <2>2, <2>3
<1> QED
  BY <1>1, CatchUpByCue

\* What a job has embedded is where the cue is now, unless a request or a late result
\* has come between: ReadWindow and ReadSig say who knows.
LEMMA CatchUpEmbed ==
  ASSUME TypeOK, Embedding, ReadWindow, ReadSig, TagsCatchUp, Embed
  PROVE  TagsCatchUp'
<1> DEFINE result == Embedded(fetched, Current.force)
<1>1. /\ pc = "embed" /\ cues' = Updated(result) /\ jobs' = jobs
      /\ turn' = turn + 1 /\ pc' = "poll"
  BY DEF Embed, NextJob
<1>2. /\ result \in Results
      /\ \A i \in DOMAIN fetched :
           /\ i \in DOMAIN result <=> Dirty(fetched[i], Current.force)
           /\ i \in DOMAIN result => result[i] = fetched[i].window
      /\ DOMAIN result \subseteq DOMAIN fetched
  BY EmbeddedFacts
<1>3. /\ Live' = Live
      /\ \A i \in Live : /\ cues'[i].window = cues[i].window
                         /\ i \in DOMAIN result => cues'[i].sig = result[i]
                         /\ i \notin DOMAIN result => cues'[i] = cues[i]
  BY <1>1, <1>2, UpdatedFacts DEF Live
<1>4. DOMAIN fetched = Live \cap Range(Current.ids)
  BY <1>1 DEF Embedding
<1>5. \A i \in Live : Asks(turn, i) => i \in DOMAIN fetched
  BY <1>4 DEF Asks, Current
<1>6. \A i \in Live : i \in unserved /\ ~(i \in DOMAIN fetched /\ cues'[i].sig = fetched[i].window)
                      => i \in unserved'
  BY DEF Embed
<1>7. \A i : Coming(i) => Coming(i)' \/ (Asks(turn, i)' /\ pc' = "poll")
  BY <1>1, ComingNext
<1> HIDE DEF result
<1>8. ASSUME NEW i \in Live, Owed(i)'
      PROVE  Known(i)'
  <2>0. cues'[i].sig # cues[i].window
    BY <1>3, <1>8 DEF Owed
  <2>1. CASE i \notin DOMAIN fetched
    <3>1. ~Asks(turn, i) /\ cues'[i] = cues[i]
      BY <1>2, <1>3, <1>5, <2>1
    <3>2. Owed(i)
      BY <1>1, <1>8, <3>1, OwedNext DEF Owed
    <3>3. i \in unserved \/ cues[i].window \in TooShort \/ Coming(i)
      BY <3>1, <3>2, CatchUpByCue DEF Known
    <3> QED
      BY <1>6, <1>7, <2>1, <3>1, <3>3 DEF Known
  <2>2. CASE i \in DOMAIN fetched /\ fetched[i].window # cues[i].window
    <3>1. Coming(i)
      BY <1>1, <2>2 DEF ReadWindow
    <3> QED
      BY <1>7, <3>1 DEF Known
  <2>3. CASE i \in DOMAIN fetched /\ fetched[i].window = cues[i].window
    <3>1. ~Dirty(fetched[i], Current.force) /\ cues'[i] = cues[i]
      BY <1>2, <1>3, <2>0, <2>3
    <3>2. CASE cues[i].window \in TooShort
      BY <1>3, <3>2 DEF Known
    <3>3. CASE cues[i].window \notin TooShort
      <4>1. fetched[i].sig = cues[i].window
        BY <2>3, <3>1, <3>3 DEF Dirty
      <4>2. cues[i].sig # fetched[i].sig /\ cues[i].sig # cues[i].window
        BY <2>0, <3>1, <4>1
      <4>3. i \in unserved \/ Coming(i)
        BY <1>1, <2>3, <4>2 DEF ReadSig
      <4>4. i \in unserved => i \in unserved'
        BY <1>6, <2>0, <2>3
      <4> QED
        BY <1>7, <4>3, <4>4 DEF Known
    <3> QED
      BY <3>2, <3>3
  <2> QED
    BY <2>1, <2>2, <2>3
<1> QED
  BY <1>3, <1>8, CatchUpByCue

LEMMA CatchUpStep ==
  ASSUME CatchUpInv, [Next]_vars
  PROVE  TagsCatchUp'
<1> USE DEF CatchUpInv
<1>1. CASE UNCHANGED rest
  BY <1>1 DEF rest, TagsCatchUp, Live, Asks, TagJobs
<1>2. CASE Regenerate \/ \E q \in opened : WriteTag(q)
  BY <1>2, CatchUpAppend
<1>3. CASE Propose
  <2>1. /\ cues' = cues \/ Live' = (lastId + 1)..lastId'
        /\ lastId \in Nat
        /\ turn' = turn + 1 /\ Current.kind = "propose" /\ UNCHANGED <<jobs, unserved>>
    BY <1>3, ProposeFacts DEF TypeOK
  <2>2. pc' = "poll"
    BY <1>3, OneJobAtATime, ProposeFacts DEF TypeOK
  <2>3. CASE cues' = cues
    <3>1. \A i : ~Asks(turn, i)
      BY <2>1 DEF Asks, TagJobs, Current
    <3> QED
      BY <2>1, <2>2, <2>3, <3>1, CatchUpSkip
  <2>4. CASE Live' = (lastId + 1)..lastId'
    <3>1. ASSUME NEW i \in Live', NEW n, Asks(n, i)'
          PROVE  FALSE
      <4>1. n \in DOMAIN jobs /\ i \in jobs[n].live
        BY <2>1, <3>1 DEF Asks, TagJobs
      <4>2. i \in 1..lastId
        BY <4>1 DEF IdsInOrder
      <4> QED
        BY <2>1, <2>4, <4>2
    <3>2. \A i \in Live' : ~Owed(i)'
      BY <3>1 DEF Owed
    <3> QED
      BY <3>2, CatchUpByCue
  <2> QED
    BY <2>1, <2>3, <2>4
<1>4. CASE Fetch
  <2>1. UNCHANGED <<cues, jobs, turn, unserved>> /\ pc = "poll"
    BY <1>4 DEF Fetch
  <2>2. \A i \in Live : Asks(turn, i) => fetched'[i] = cues[i]
    BY <1>4 DEF Fetch, Restrict, Asks, Current
  <2>3. ASSUME NEW i \in Live', Owed(i)'
        PROVE  Known(i)'
    <3>1. i \in Live /\ Owed(i)
      BY <2>1, <2>3 DEF Live, Owed, Asks, TagJobs
    <3>2. Known(i)
      BY <3>1, CatchUpByCue
    <3> QED
      BY <2>1, <2>2, <3>1, <3>2 DEF Known, Coming, Asks, TagJobs
  <2> QED
    BY <2>3, CatchUpByCue
<1>5. CASE Blank
  <2>1. /\ turn' = turn + 1 /\ Current.ids = <<>>
        /\ UNCHANGED <<cues, jobs, pc, unserved>>
    BY <1>5 DEF Blank
  <2>2. pc' = "poll"
    BY <1>5, <2>1, OneJobAtATime DEF TypeOK
  <2>3. \A i : ~Asks(turn, i)
    BY <2>1 DEF Asks, Current, Range
  <2> QED
    BY <2>1, <2>2, <2>3, CatchUpSkip
<1>6. CASE Embed
  BY <1>6, CatchUpEmbed
<1>7. CASE Abandon \/ Unanswered
  <2>1. /\ pc = "embed" /\ UNCHANGED <<cues, jobs>> /\ turn' = turn + 1 /\ pc' = "poll"
        /\ unserved' = unserved \cup DOMAIN fetched
    BY <1>7 DEF Abandon, Unanswered, NextJob
  <2>2. \A i \in Live : Asks(turn, i) => i \in DOMAIN fetched
    BY <2>1 DEF Embedding, Asks, Current
  <2> QED
    BY <2>1, <2>2, CatchUpSkip
<1>8. ASSUME NEW r \in late, LateResult(r)
      PROVE  TagsCatchUp'
  <2>1. UNCHANGED <<jobs, turn, pc, fetched>> /\ cues' = Updated(r) /\ r \in Results
    BY <1>8 DEF LateResult, TypeOK
  <2>2. Live' = Live /\ \A i \in Live : cues'[i].window = cues[i].window
    BY <2>1, UpdatedFacts DEF Live
  <2>3. /\ \A i \in Live : cues'[i] # cues[i] /\ cues'[i].sig # cues[i].window => i \in unserved'
        /\ unserved \subseteq unserved'
    BY <1>8 DEF LateResult
  <2>4. ASSUME NEW i \in Live', Owed(i)'
        PROVE  Known(i)'
    <3>1. i \in Live /\ cues'[i].sig # cues[i].window
      BY <2>2, <2>4 DEF Owed
    <3>2. CASE cues'[i] # cues[i]
      BY <2>3, <3>1, <3>2 DEF Known
    <3>3. CASE cues'[i] = cues[i]
      <4>1. Owed(i)
        BY <2>1, <2>4, <3>3 DEF Owed, Asks, TagJobs
      <4>2. Known(i)
        BY <3>1, <4>1, CatchUpByCue
      <4> QED
        BY <2>1, <2>3, <3>3, <4>2 DEF Known, Coming, Asks, TagJobs
    <3> QED
      BY <3>2, <3>3
  <2> QED
    BY <2>4, CatchUpByCue
<1> QED
  BY <1>1, QuietSteps, <1>2, <1>3, <1>4, <1>5, <1>6, <1>7, <1>8 DEF Next
\* Requests in the middle of being served keep what they have claimed.
LEMMA PromisedStep ==
  ASSUME TypeOK, Promised, [Next]_vars
  PROVE  Promised'
<1> USE DEF Promised
<1>1. CASE opened' \subseteq opened
  BY <1>1 DEF OwnCues, Asking, Ids
<1>2. ASSUME NEW w \in Requests, Tag(w)
      PROVE  Promised'
  <2>1. PICK q \in Opened : opened' = opened \cup {q} /\ OwnCues(Asking(q))
    BY <1>2, ReadFacts
  <2> QED
    BY <2>1 DEF OwnCues, Asking, Ids
<1>3. ASSUME NEW q \in opened, WriteTag(q) \/ Refused(q)
      PROVE  Promised'
  BY <1>1, <1>3, WriteFacts DEF Refused
<1>4. CASE Regenerate \/ Propose \/ Fetch \/ Blank \/ Embed \/ Abandon \/ Unanswered
  BY <1>1, <1>4 DEF Regenerate, Propose, Fetch, Blank, Embed, Abandon, Unanswered
<1>5. ASSUME NEW r \in late, LateResult(r)
      PROVE  Promised'
  BY <1>1, <1>5 DEF LateResult
<1>6. CASE UNCHANGED vars
  BY <1>1, <1>6 DEF vars
<1> QED
  BY <1>2, <1>3, <1>4, <1>5, <1>6 DEF Next

\* Jobs are appended whole, and a request appends one whose cues are its own.
LEMMA DistinctStep ==
  ASSUME TypeOK, Promised, ResolvedDistinct, [Next]_vars
  PROVE  ResolvedDistinct'
<1> USE DEF ResolvedDistinct, TagJobs
<1>1. CASE UNCHANGED jobs
  BY <1>1 DEF OwnCues
<1>2. ASSUME NEW j \in JobType, jobs' = Append(jobs, j), j.kind = "tag" => OwnCues(j)
      PROVE  ResolvedDistinct'
  <2>1. /\ \A n \in 1..Len(jobs) : jobs'[n] = jobs[n]
        /\ jobs'[Len(jobs) + 1] = j /\ Len(jobs) \in Nat
        /\ DOMAIN jobs = 1..Len(jobs) /\ DOMAIN jobs' = 1..(Len(jobs) + 1)
    BY <1>2, AppendFacts
  <2>2. ASSUME NEW n \in DOMAIN jobs', jobs'[n].kind = "tag"
        PROVE  OwnCues(jobs'[n])
    <3>1. CASE n \in 1..Len(jobs)
      <4>1. jobs'[n] = jobs[n] /\ n \in DOMAIN jobs
        BY <2>1, <3>1
      <4>2. OwnCues(jobs[n])
        BY <2>2, <4>1
      <4> QED
        BY <4>1, <4>2
    <3>2. CASE n = Len(jobs) + 1
      <4>1. jobs'[n] = j
        BY <2>1, <3>2
      <4> QED
        BY <1>2, <2>2, <4>1
    <3> QED
      BY <2>1, <3>1, <3>2
  <2> QED
    BY <2>2 DEF OwnCues
<1>3. ASSUME NEW q \in opened, WriteTag(q)
      PROVE  ResolvedDistinct'
  <2>1. PICK j \in JobType :
           jobs' = Append(jobs, j) /\ (OwnCues(Asking(q)) => OwnCues(j))
    BY <1>3, WriteFacts
  <2>2. OwnCues(j)
    BY <2>1 DEF Promised
  <2> QED
    BY <1>2, <2>1, <2>2
<1>4. CASE Regenerate
  <2>1. PICK j \in JobType : jobs' = Append(jobs, j)
    BY <1>4, Appends
  <2>2. Len(jobs) \in Nat /\ jobs'[Len(jobs) + 1] = j
    BY <2>1, AppendFacts
  <2>3. jobs'[Len(jobs) + 1].kind = "propose"
    BY <1>4, <2>2 DEF Regenerate, TypeOK
  <2> QED
    BY <1>2, <2>1, <2>2, <2>3
<1>5. CASE Propose \/ Fetch \/ Blank \/ Embed \/ Abandon \/ Unanswered
  BY <1>1, <1>5 DEF Propose, Fetch, Blank, Embed, Abandon, Unanswered
<1>6. ASSUME NEW r \in late, LateResult(r)
      PROVE  ResolvedDistinct'
  BY <1>1, <1>6 DEF LateResult
<1>7. CASE UNCHANGED rest
  BY <1>1, <1>7 DEF rest
<1> QED
  BY <1>3, <1>4, <1>5, <1>6, <1>7, QuietSteps DEF Next

-------------------------------------------------------------------------------
IInv == CatchUpInv /\ Promised /\ ResolvedDistinct

LEMMA InitIInv == Init => IInv
<1> SUFFICES ASSUME Init
             PROVE  IInv
  OBVIOUS
<1> USE DEF Init
<1>1. TypeOK
  <2>1. None \in [{} -> Cue]
    BY DEF None
  <2>2. None \in Tables
    BY <2>1 DEF Tables
  <2> QED
    BY <2>2, CuesAssumption DEF TypeOK
<1>2. Live = {}
  BY DEF Live, None
<1>3. IdsInOrder /\ Embedding /\ ReadWindow /\ ReadSig
  BY <1>2 DEF IdsInOrder, Embedding, ReadWindow, ReadSig
<1>4. TagsCatchUp
  BY <1>2 DEF TagsCatchUp
<1>5. Promised /\ ResolvedDistinct
  BY DEF Promised, ResolvedDistinct, TagJobs
<1> QED
  BY <1>1, <1>3, <1>4, <1>5 DEF IInv, CatchUpInv

LEMMA NextIInv == IInv /\ [Next]_vars => IInv'
<1> SUFFICES ASSUME IInv, [Next]_vars
             PROVE  IInv'
  OBVIOUS
<1> USE DEF IInv, CatchUpInv
<1>1. TypeOK'
  BY TypeStep
<1>2. IdsInOrder' /\ Embedding'
  BY OrderStep, EmbeddingStep
<1>3. ReadWindow' /\ ReadSig'
  BY ReadStep
<1>4. TagsCatchUp'
  BY CatchUpStep
<1>5. Promised' /\ ResolvedDistinct'
  BY PromisedStep, DistinctStep
<1> QED
  BY <1>1, <1>2, <1>3, <1>4, <1>5

\* No step of the Player, the worker or a late result breaks the invariant.
THEOREM Invariance == Spec => []IInv
BY InitIInv, NextIInv, PTL DEF Spec

\* The variables of the cue table and its jobs have their types.
THEOREM TypeCorrect == Spec => []TypeOK
<1>1. IInv => TypeOK
  BY DEF IInv, CatchUpInv
<1> QED
  BY <1>1, Invariance, PTL

\* Whatever requests, re-analyses, abandoned and late results come between: a cue whose
\* tagging was asked for is embedded at the window it has now, or it is marked, too
\* short, or a job that will see its window is still to come.
THEOREM TaggingCatchesUp == Spec => []TagsCatchUp
<1>1. IInv => TagsCatchUp
  BY DEF IInv, CatchUpInv
<1> QED
  BY <1>1, Invariance, PTL

\* loops_tag gives no cue to two windows of a request, and skips a window only when the
\* cues are used up, however the windows lie to the cues.
THEOREM CuesResolvedApart == Spec => []ResolvedDistinct
<1>1. IInv => ResolvedDistinct
  BY DEF IInv
<1> QED
  BY <1>1, Invariance, PTL

-------------------------------------------------------------------------------
(***************************************************************************)
(* The resolver is a loop over the windows; Tag says what it leaves behind *)
(* in one formula.  That formula has exactly one solution for every        *)
(* request, so that it neither blocks a request nor leaves it a choice.    *)
(***************************************************************************)
LEMMA LeastOfNat ==
  ASSUME NEW S, S \subseteq Nat, S # {}
  PROVE  \E x \in S : \A y \in S : x <= y
<1> DEFINE R == OpToRel(<, Nat)
<1>1. \E x \in S : \A y \in S : ~(<<y, x>> \in R)
  BY NatLessThanWellFounded, WFMin
<1>2. \A x \in S, y \in S : <<y, x>> \in R <=> y < x
  BY DEF OpToRel
<1> HIDE DEF R
<1>3. PICK x \in S : \A y \in S : ~(y < x)
  BY <1>1, <1>2
<1> QED
  BY <1>3

LEMMA DistanceNat ==
  ASSUME NEW a \in Windows, NEW b \in Windows
  PROVE  Distance(a, b) \in Nat
BY CuesAssumption DEF Distance

\* Among cues there is one that is closest to a window, and only one.
LEMMA ClosestUnique ==
  ASSUME TypeOK, NEW w \in Windows, NEW S \in SUBSET Live, S # {}
  PROVE  /\ \E i \in S : i \in Closest(w, S)
         /\ \A i, k \in Closest(w, S) : i = k
<1> DEFINE d(i) == Distance(cues[i].window, w)
<1>1. S \subseteq Nat /\ \A i \in S : d(i) \in Nat
  BY LiveCues, DistanceNat DEF Cue, Loops
<1>2. Closest(w, S) = {i \in S : \A k \in S : d(i) < d(k) \/ (d(i) = d(k) /\ i <= k)}
  BY DEF Closest
<1> HIDE DEF d
<1>3. PICK i0 \in S : \A k \in S : d(i0) <= d(k)
  <2> DEFINE D == {d(i) : i \in S}
  <2>1. D \subseteq Nat /\ D # {}
    BY <1>1
  <2>2. PICK x \in D : \A y \in D : x <= y
    BY <2>1, LeastOfNat
  <2> QED
    BY <2>2
<1> DEFINE T == {i \in S : d(i) = d(i0)}
<1>4. T \subseteq Nat /\ T # {}
  BY <1>1
<1>5. PICK i \in T : \A k \in T : i <= k
  BY <1>4, LeastOfNat
<1>6. \A k \in S : d(i) < d(k) \/ (d(i) = d(k) /\ i <= k)
  BY <1>1, <1>3, <1>5
<1>7. \A a, b \in Closest(w, S) : a = b
  <2> SUFFICES ASSUME NEW a \in Closest(w, S), NEW b \in Closest(w, S)
               PROVE  a = b
    OBVIOUS
  <2>1. a \in S /\ b \in S
    BY <1>2
  <2>2. (d(a) < d(b) \/ (d(a) = d(b) /\ a <= b)) /\ (d(b) < d(a) \/ (d(b) = d(a) /\ b <= a))
    BY <1>2
  <2> QED
    BY <1>1, <2>1, <2>2
<1> QED
  BY <1>2, <1>5, <1>6, <1>7

\* A window claims one cue, or none; there is no case in which the code goes on without
\* a decision.
LEMMA MatchedUnique ==
  ASSUME TypeOK, NEW w \in Windows, NEW claimed
  PROVE  /\ \E i : i \in Matched(w, claimed)
         /\ \A i, k \in Matched(w, claimed) : i = k
<1> DEFINE exact == {i \in Live : /\ cues[i].window = w
                                  /\ \A k \in Live : cues[k].window = w => k <= i}
           free == Live \ claimed
<1>1. Live \subseteq Nat
  BY LiveCues
<1>2. \A i, k \in exact : i = k
  BY <1>1
<1>3. Matched(w, claimed) = IF exact \ claimed # {} THEN exact \ claimed
                            ELSE IF free = {} THEN {NoCue} ELSE Closest(w, free)
  BY DEF Matched
<1> HIDE DEF exact
<1>4. CASE exact \ claimed # {}
  BY <1>2, <1>3, <1>4
<1>5. CASE exact \ claimed = {} /\ free = {}
  BY <1>3, <1>5
<1>6. CASE exact \ claimed = {} /\ free # {}
  BY <1>3, <1>6, ClosestUnique
<1> QED
  BY <1>4, <1>5, <1>6

\* Every request has a resolution, and only one.
THEOREM ResolutionUnique ==
  ASSUME TypeOK, NEW windows \in Requests
  PROVE  /\ \E own \in [WithLength(windows) -> Live \cup {NoCue}] : Resolves(own, windows)
         /\ \A a, b \in [WithLength(windows) -> Live \cup {NoCue}] :
              Resolves(a, windows) /\ Resolves(b, windows) => a = b
<1> DEFINE P == WithLength(windows)
           X == Live \cup {NoCue}
           Upto(m) == {k \in P : k <= m}
<1>1. P \subseteq 1..MaxRequest /\ \A k \in P : windows[k] \in Windows
  BY WithLengthBounded DEF Loops
<1>2. MaxRequest \in Nat /\ \A k \in P : k \in Nat /\ 1 <= k /\ k <= MaxRequest
  BY <1>1, CuesAssumption
<1>3. \A w, claimed : Matched(w, claimed) \subseteq X
  BY MatchedIsFree
<1> HIDE DEF P, X
<1>4. \E own \in [P -> X] : Resolves(own, windows)
  <2> DEFINE Stuck == {m \in Nat : ~\E own \in [Upto(m) -> X] : Resolves(own, windows)}
  <2>1. Stuck = {}
    <3> SUFFICES ASSUME Stuck # {}
                 PROVE  FALSE
      OBVIOUS
    <3>1. PICK m \in Stuck : \A k \in Stuck : m <= k
      BY LeastOfNat
    <3>2. m # 0
      <4>1. Upto(0) = {}
        BY <1>2
      <4>2. <<>> \in [{} -> X] /\ Resolves(<<>>, windows)
        BY DEF Resolves
      <4> QED
        BY <4>1, <4>2
    <3>3. m \in Nat /\ m - 1 \in Nat /\ m - 1 \notin Stuck
      BY <3>1, <3>2
    <3>4. PICK own \in [Upto(m - 1) -> X] : Resolves(own, windows)
      BY <3>3
    <3>5. CASE m \notin P
      <4>1. Upto(m) = Upto(m - 1)
        BY <1>2, <3>3, <3>5
      <4> QED
        BY <3>4, <4>1
    <3>6. CASE m \in P
      <4>1. PICK c : c \in Matched(windows[m], Claimed(own, m))
        BY <1>1, <3>6, MatchedUnique
      <4> DEFINE own2 == [k \in Upto(m) |-> IF k = m THEN c ELSE own[k]]
      <4>2. \A k \in Upto(m) : k # m => k \in Upto(m - 1)
        BY <1>2, <3>3
      <4>3. c \in X
        BY <1>3, <4>1
      <4>4. own2 \in [Upto(m) -> X]
        BY <3>4, <4>2, <4>3
      <4>5. \A k \in Upto(m) : Claimed(own2, k) = Claimed(own, k)
        BY <1>2, <3>3, <3>4 DEF Claimed
      <4>6. Resolves(own2, windows)
        BY <3>4, <4>1, <4>2, <4>5 DEF Resolves
      <4> QED
        BY <4>4, <4>6
    <3> QED
      BY <3>5, <3>6
  <2>2. MaxRequest \notin Stuck
    BY <2>1
  <2>3. \E own \in [Upto(MaxRequest) -> X] : Resolves(own, windows)
    BY <1>2, <2>2
  <2>4. Upto(MaxRequest) = P
    BY <1>2
  <2> QED
    BY <2>3, <2>4
<1>5. ASSUME NEW a \in [P -> X], NEW b \in [P -> X],
             Resolves(a, windows), Resolves(b, windows)
      PROVE  a = b
  <2> DEFINE Differ == {k \in P : a[k] # b[k]}
  <2>1. Differ = {}
    <3> SUFFICES ASSUME Differ # {}
                 PROVE  FALSE
      OBVIOUS
    <3>1. Differ \subseteq Nat
      BY <1>2
    <3>2. PICK k \in Differ : \A m \in Differ : k <= m
      BY <3>1, LeastOfNat
    <3>3. \A m \in P : m < k => a[m] = b[m]
      BY <1>2, <3>2
    <3>4. Claimed(a, k) = Claimed(b, k)
      BY <1>5, <3>3 DEF Claimed
    <3>5. a[k] \in Matched(windows[k], Claimed(a, k)) /\ b[k] \in Matched(windows[k], Claimed(a, k))
      BY <1>5, <3>4 DEF Resolves
    <3>6. a[k] = b[k]
      BY <1>1, <3>5, MatchedUnique
    <3> QED
      BY <3>6
  <2> QED
    BY <1>5, <2>1
<1> QED
  BY <1>4, <1>5 DEF P, X

===============================================================================
