----------------------------- MODULE BytesProofs -----------------------------
(***************************************************************************)
(* Encrypted blocks and lazy layers, for any blocks, contents, callers and *)
(* manifests, and any length of the chain of writes.                       *)
(*                                                                         *)
(* A block is persisted in order because a loss stops the chain.  A marked *)
(* layer is in the store although its mark is set long after it was        *)
(* fetched, in a state file read in between, by ordinal.  What carries it  *)
(* through those awaits is Task, what a call knows at each of its steps.   *)
(* It needs three things the code leaves to its users: nobody beside a     *)
(* dehydrate, no layer twice in a manifest, and ordinals that keep their   *)
(* meaning, because refs only grow or a pull has nobody beside it.  What a *)
(* view holds needs refs that only grow even when all calls are in turn.   *)
(***************************************************************************)
EXTENDS MCBytes, TLAPS

\* Each of the two modules runs as its own specification says.
LEMMA PartsRun == BytesSpec => Spec /\ Lazy!Spec
<1>1. BytesInit => Init /\ Lazy!Init
  BY DEF BytesInit
<1>2. [BytesNext]_<<part, vars, hydration>> => [Next]_vars /\ [Lazy!Next]_(Lazy!vars)
  BY DEF BytesNext, hydration, Lazy!vars
<1> QED BY <1>1, <1>2, PTL DEF BytesSpec, Spec, Lazy!Spec

-----------------------------------------------------------------------------
(* The blocks (storage/encrypted-store.ts)                                 *)

\* A lost write has been remembered, and no job runs after it.
LossStops == dropped => failed /\ stage = "waiting"

\* The writes a flush owes are in the chain, and a lost one is remembered.
OwedQueued == /\ owed <= Len(jobs)
              /\ owedLost => failed
              /\ flush \in {"syncing", "ok"} => owed = 0 /\ ~owedLost

\* A block not deleted in this mount and absent was never there: no write of
\* it is queued and the inner store has none, so a cache miss finds nothing.
AbsentEverywhere ==
  /\ \A id \in Ids \ removed : intent[id] = None =>
        inner[id] = None /\ \A i \in DOMAIN jobs : jobs[i].id # id
  /\ reading # NotReading /\ reading.raw # None => reading.id \in removed

IInv == /\ TypeOK /\ LossStops /\ OwedQueued
        /\ AbsentEverywhere /\ CacheServesWrites /\ PersistedInOrder

-----------------------------------------------------------------------------
(* Settling the oldest job and accepting a new one, on any sequence of jobs. *)

LEMMA TailFacts ==
  ASSUME NEW q \in Seq(Job), q # <<>>
  PROVE  /\ Head(q) \in Job /\ Head(q) = q[1] /\ 1 \in DOMAIN q
         /\ Tail(q) \in Seq(Job) /\ Len(Tail(q)) = Len(q) - 1 /\ Len(q) \in Nat \ {0}
         /\ \A i \in DOMAIN Tail(q) : i + 1 \in DOMAIN q /\ Tail(q)[i] = q[i + 1]
         /\ \A i \in DOMAIN q : i = 1 \/ (i - 1 \in DOMAIN Tail(q) /\ Tail(q)[i - 1] = q[i])
OBVIOUS

LEMMA AppendFacts ==
  ASSUME NEW q \in Seq(Job), NEW x \in Job
  PROVE  /\ Append(q, x) \in Seq(Job) /\ Len(Append(q, x)) = Len(q) + 1 /\ Len(q) \in Nat
         /\ DOMAIN Append(q, x) = DOMAIN q \cup {Len(q) + 1}
         /\ \A i \in DOMAIN q : Append(q, x)[i] = q[i] /\ i < Len(q) + 1
         /\ Append(q, x)[Len(q) + 1] = x
OBVIOUS

LEMMA InitIInv == Init => IInv
<1> SUFFICES ASSUME Init PROVE IInv
  OBVIOUS
<1> USE DEF Init
<1>1. TypeOK
  <2>1. jobs \in Seq(Job) /\ reading \in Reading \cup {NotReading}
    OBVIOUS
  <2>2. plain \in [Ids -> Block] /\ inner \in [Ids -> Block] /\ intent \in [Ids -> Block]
    OBVIOUS
  <2> QED BY <2>1, <2>2 DEF TypeOK
<1>2. LossStops /\ OwedQueued /\ AbsentEverywhere
  BY DEF LossStops, OwedQueued, AbsentEverywhere, NotReading
<1>3. CacheServesWrites /\ PersistedInOrder
  BY DEF CacheServesWrites, PersistedInOrder, LastFor
<1> QED BY <1>1, <1>2, <1>3 DEF IInv

\* A write is accepted: v is None for a delete.
LEMMA AcceptKeeps ==
  ASSUME IInv, NEW id \in Ids, NEW v \in Block, Enqueue(id, v),
         plain' = [plain EXCEPT ![id] = v], intent' = [intent EXCEPT ![id] = v],
         removed' = (IF v = None THEN removed \cup {id} ELSE removed),
         UNCHANGED <<reading, inner, stage, failed, access, flushVars, dropped>>
  PROVE  IInv'
<1> DEFINE x == [id |-> id, value |-> v]
<1> USE DEF flushVars
<1>1. x \in Job /\ jobs' = Append(jobs, x) /\ jobs \in Seq(Job)
  BY DEF Job, Enqueue, IInv, TypeOK
<1>2. /\ jobs' \in Seq(Job) /\ Len(jobs') = Len(jobs) + 1 /\ Len(jobs) \in Nat
      /\ DOMAIN jobs' = DOMAIN jobs \cup {Len(jobs) + 1}
      /\ \A i \in DOMAIN jobs : jobs'[i] = jobs[i] /\ i < Len(jobs) + 1
      /\ jobs'[Len(jobs) + 1] = x
  BY <1>1, AppendFacts
<1>3. TypeOK'
  BY <1>2 DEF IInv, TypeOK
<1>4. LossStops' /\ OwedQueued'
  BY <1>2 DEF IInv, TypeOK, LossStops, OwedQueued
<1>5. \A k \in Ids : intent'[k] = (IF k = id THEN v ELSE intent[k])
                   /\ plain'[k] = (IF k = id THEN v ELSE plain[k])
  BY DEF IInv, TypeOK
<1>6. AbsentEverywhere'
  BY <1>2, <1>5 DEF IInv, AbsentEverywhere
<1>7. CacheServesWrites'
  BY <1>5 DEF IInv, CacheServesWrites
<1>8. PersistedInOrder'
  <2> SUFFICES ASSUME ~dropped, NEW k \in Ids
               PROVE  /\ \A i \in DOMAIN jobs' : LastFor(k, i)' => jobs'[i].value = intent'[k]
                      /\ (\A i \in DOMAIN jobs' : jobs'[i].id # k) => inner'[k] = intent'[k]
    BY DEF PersistedInOrder
  <2>1. CASE k = id
    BY <1>2, <1>5, <2>1 DEF LastFor
  <2>2. CASE k # id
    <3>1. \A i \in DOMAIN jobs' : LastFor(k, i)' => i \in DOMAIN jobs /\ LastFor(k, i)
      BY <1>2, <2>2 DEF LastFor
    <3>2. intent'[k] = intent[k] /\ inner' = inner
      BY <1>5, <2>2
    <3> QED BY <1>2, <3>1, <3>2 DEF IInv, PersistedInOrder
  <2> QED BY <2>1, <2>2
<1> QED BY <1>3, <1>4, <1>6, <1>7, <1>8 DEF IInv

\* The oldest job settles, persisted or not.
LEMMA SettleKeeps ==
  ASSUME IInv, jobs # <<>>, NEW saved \in BOOLEAN, SettleJob(saved),
         inner' \in {inner, Applied}, saved => inner' = Applied /\ failed' = failed,
         ~saved => failed' = TRUE, stage = "writing" \/ inner' = inner,
         saved => stage = "writing"
  PROVE  IInv'
<1> USE DEF SettleJob, cacheVars
<1>1. jobs \in Seq(Job) /\ jobs' = Tail(jobs)
  BY DEF IInv, TypeOK
<1>2. /\ Oldest \in Job /\ Oldest = jobs[1] /\ 1 \in DOMAIN jobs
      /\ jobs' \in Seq(Job) /\ Len(jobs') = Len(jobs) - 1 /\ Len(jobs) \in Nat \ {0}
      /\ \A i \in DOMAIN jobs' : i + 1 \in DOMAIN jobs /\ jobs'[i] = jobs[i + 1]
      /\ \A i \in DOMAIN jobs : i = 1 \/ (i - 1 \in DOMAIN jobs' /\ jobs'[i - 1] = jobs[i])
  BY <1>1, TailFacts DEF Oldest
<1>3. Oldest.id \in Ids /\ Oldest.value \in Block /\ Applied \in [Ids -> Block]
      /\ \A k \in Ids : Applied[k] = (IF k = Oldest.id THEN Oldest.value ELSE inner[k])
  BY <1>2 DEF Job, Applied, IInv, TypeOK
<1>4. TypeOK'
  <2>1. owedLost' \in BOOLEAN /\ dropped' \in BOOLEAN
    OBVIOUS
  <2>2. failed' \in BOOLEAN
    BY DEF IInv, TypeOK
  <2>3. inner' \in [Ids -> Block] /\ ahead' \in Nat /\ owed' \in Nat
    BY <1>3 DEF IInv, TypeOK
  <2> QED BY <1>2, <2>1, <2>2, <2>3 DEF IInv, TypeOK
<1>5. LossStops'
  BY DEF IInv, LossStops
<1>6. OwedQueued'
  BY <1>2 DEF IInv, TypeOK, OwedQueued
<1>7. AbsentEverywhere'
  BY <1>2, <1>3 DEF IInv, AbsentEverywhere
<1>8. CacheServesWrites'
  BY DEF IInv, CacheServesWrites
<1>9. PersistedInOrder'
  <2> SUFFICES ASSUME ~dropped, saved, NEW k \in Ids
               PROVE  /\ \A i \in DOMAIN jobs' : LastFor(k, i)' => jobs'[i].value = intent[k]
                      /\ (\A i \in DOMAIN jobs' : jobs'[i].id # k) => inner'[k] = intent[k]
    BY DEF PersistedInOrder
  <2>1. ASSUME NEW i \in DOMAIN jobs', LastFor(k, i)' PROVE jobs'[i].value = intent[k]
    <3>1. i + 1 \in DOMAIN jobs /\ jobs'[i] = jobs[i + 1] /\ i \in Nat /\ i >= 1
      BY <1>2, <2>1
    <3>2. jobs[i + 1].id = k
      BY <2>1, <3>1 DEF LastFor
    <3>3. ASSUME NEW j \in DOMAIN jobs, j > i + 1 PROVE jobs[j].id # k
      <4>1. j - 1 \in DOMAIN jobs' /\ jobs'[j - 1] = jobs[j] /\ j - 1 > i
        BY <1>1, <1>2, <3>1, <3>3
      <4> QED BY <2>1, <4>1 DEF LastFor
    <3> QED BY <3>1, <3>2, <3>3 DEF IInv, PersistedInOrder, LastFor
  <2>2. ASSUME \A i \in DOMAIN jobs' : jobs'[i].id # k PROVE inner'[k] = intent[k]
    <3>1. \A i \in DOMAIN jobs : i # 1 => jobs[i].id # k
      BY <1>2, <2>2
    <3>2. CASE Oldest.id = k
      <4>1. LastFor(k, 1)
        BY <1>1, <1>2, <3>1, <3>2 DEF LastFor
      <4> QED BY <1>2, <1>3, <3>2, <4>1 DEF IInv, PersistedInOrder
    <3>3. CASE Oldest.id # k
      <4>1. \A i \in DOMAIN jobs : jobs[i].id # k
        BY <1>2, <3>1, <3>3
      <4> QED BY <1>3, <3>3, <4>1 DEF IInv, PersistedInOrder
    <3> QED BY <3>2, <3>3
  <2> QED BY <2>1, <2>2
<1> QED BY <1>4, <1>5, <1>6, <1>7, <1>8, <1>9 DEF IInv

LEMMA NextIInv == IInv /\ [Next]_vars => IInv'
<1> SUFFICES ASSUME IInv, [Next]_vars PROVE IInv'
  OBVIOUS
<1> USE StoreAssumption
<1>1. ASSUME NEW id \in Ids, NEW v \in Values, Set(id, v) PROVE IInv'
  <2>1. v \in Block /\ v # None
    BY DEF Block
  <2> QED BY <1>1, <2>1, AcceptKeeps DEF Set
<1>2. ASSUME NEW id \in Ids, Delete(id) PROVE IInv'
  <2>1. None \in Block
    BY DEF Block
  <2> QED BY <1>2, <2>1, AcceptKeeps DEF Delete
<1>3. ASSUME NEW id \in Ids, GetMiss(id) PROVE IInv'
  <2>1. reading' \in Reading /\ reading'.id = id /\ reading'.raw = inner[id]
    BY <1>3 DEF GetMiss, Reading, IInv, TypeOK
  <2>2. inner[id] # None => id \in removed
    BY <1>3 DEF GetMiss, IInv, AbsentEverywhere, CacheServesWrites
  <2>3. TypeOK'
    BY <1>3, <2>1 DEF GetMiss, IInv, TypeOK, queueVars, flushVars, history
  <2>4. LossStops' /\ OwedQueued' /\ CacheServesWrites'
    BY <1>3 DEF GetMiss, IInv, LossStops, OwedQueued, CacheServesWrites, queueVars, flushVars,
       history
  <2>5. AbsentEverywhere'
    BY <1>3, <2>1, <2>2 DEF GetMiss, IInv, AbsentEverywhere, queueVars, history
  <2>6. PersistedInOrder'
    BY <1>3 DEF GetMiss, IInv, PersistedInOrder, LastFor, queueVars, history
  <2> QED BY <2>3, <2>4, <2>5, <2>6 DEF IInv
<1>4. CASE GetReturns
  <2>1. reading \in Reading /\ reading.id \in Ids /\ reading.raw \in Block
    BY <1>4 DEF GetReturns, IInv, TypeOK, Reading
  <2>2. TypeOK'
    BY <1>4, <2>1 DEF GetReturns, IInv, TypeOK, queueVars, flushVars, history
  <2>3. LossStops' /\ OwedQueued'
    BY <1>4 DEF GetReturns, IInv, LossStops, OwedQueued, queueVars, flushVars, history
  <2>4. AbsentEverywhere'
    BY <1>4 DEF GetReturns, IInv, AbsentEverywhere, queueVars, history
  <2>5. CacheServesWrites'
    BY <1>4, <2>1 DEF GetReturns, IInv, TypeOK, CacheServesWrites, AbsentEverywhere, history
  <2>6. PersistedInOrder'
    BY <1>4 DEF GetReturns, IInv, PersistedInOrder, LastFor, queueVars, history
  <2> QED BY <2>2, <2>3, <2>4, <2>5, <2>6 DEF IInv
<1>5. CASE StartJob \/ Encrypted
  <2>1. UNCHANGED <<cacheVars, inner, jobs, failed, access, flushVars, history>>
        /\ stage' \in {"encrypting", "writing"} /\ (stage = "waiting" => ~failed)
    BY <1>5 DEF StartJob, Encrypted, Writable
  <2>2. TypeOK' /\ LossStops' /\ OwedQueued'
    BY <1>5, <2>1 DEF IInv, TypeOK, LossStops, OwedQueued, Encrypted, StartJob, Writable,
       cacheVars, flushVars, history
  <2>3. AbsentEverywhere' /\ CacheServesWrites' /\ PersistedInOrder'
    BY <2>1 DEF IInv, AbsentEverywhere, CacheServesWrites, PersistedInOrder, LastFor, cacheVars,
       history
  <2> QED BY <2>2, <2>3 DEF IInv
<1>6. CASE JobSaved
  BY <1>6, SettleKeeps DEF JobSaved
<1>7. CASE JobRejects
  <2>1. FALSE \in BOOLEAN /\ inner' \in {inner, Applied} /\ (stage = "writing" \/ inner' = inner)
    BY <1>7 DEF JobRejects
  <2> QED BY <1>7, <2>1, SettleKeeps DEF JobRejects
<1>8. CASE FlushCall \/ FlushDrained \/ FlushSynced \/ SetAccess
  <2>1. UNCHANGED <<cacheVars, inner, jobs, stage, history>> /\ failed' \in {failed, TRUE}
    BY <1>8 DEF FlushCall, FlushDrained, FlushSynced, SetAccess, queueVars
  <2>2. Len(jobs) \in Nat /\ (jobs = <<>> => Len(jobs) = 0)
    BY DEF IInv, TypeOK
  <2>3. TypeOK'
    BY <1>8, <2>1, <2>2 DEF FlushCall, FlushDrained, FlushSynced, SetAccess, IInv, TypeOK, Flushing,
       cacheVars, queueVars, flushVars, history
  <2>4. LossStops'
    BY <1>8, <2>1 DEF FlushCall, FlushDrained, FlushSynced, SetAccess, IInv, LossStops, history,
       queueVars
  <2>5. OwedQueued'
    BY <1>8, <2>1, <2>2 DEF FlushCall, FlushDrained, FlushSynced, SetAccess, IInv, TypeOK,
       OwedQueued,
       Writable, Flushing, flushVars, queueVars
  <2>6. AbsentEverywhere' /\ CacheServesWrites' /\ PersistedInOrder'
    BY <2>1 DEF IInv, AbsentEverywhere, CacheServesWrites, PersistedInOrder, LastFor, cacheVars,
       history
  <2> QED BY <2>3, <2>4, <2>5, <2>6 DEF IInv
<1>9. CASE Remount
  <2> USE <1>9 DEF Remount, Mounted
  <2>1. TypeOK'
    <3>1. jobs' \in Seq(Job) /\ reading' \in Reading \cup {NotReading}
      OBVIOUS
    <3>2. plain' \in [Ids -> Block] /\ inner' \in [Ids -> Block] /\ intent' \in [Ids -> Block]
      BY DEF IInv, TypeOK
    <3> QED BY <3>1, <3>2 DEF IInv, TypeOK
  <2>2. LossStops' /\ OwedQueued' /\ CacheServesWrites'
    BY DEF LossStops, OwedQueued, CacheServesWrites
  <2>3. AbsentEverywhere' /\ PersistedInOrder'
    BY DEF AbsentEverywhere, PersistedInOrder, LastFor, NotReading
  <2> QED BY <2>1, <2>2, <2>3 DEF IInv
<1>10. CASE UNCHANGED vars
  <2> USE <1>10 DEF vars, cacheVars, queueVars, flushVars, history
  <2>1. TypeOK' /\ LossStops' /\ OwedQueued'
    BY DEF IInv, TypeOK, LossStops, OwedQueued
  <2>2. AbsentEverywhere' /\ CacheServesWrites' /\ PersistedInOrder'
    BY DEF IInv, AbsentEverywhere, CacheServesWrites, PersistedInOrder, LastFor
  <2> QED BY <2>1, <2>2 DEF IInv
<1> QED
  BY <1>1, <1>2, <1>3, <1>4, <1>5, <1>6, <1>7, <1>8, <1>9, <1>10 DEF Next, Accept, Step

LEMMA AlwaysIInv == Spec => []IInv
BY InitIInv, NextIInv, PTL DEF Spec

-----------------------------------------------------------------------------

\* Each block is persisted, or queued to be, as its last accepted write left
\* it (enqueue, encrypted-store.ts:180-190).
THEOREM InOrder == Spec => []PersistedInOrder
BY AlwaysIInv, PTL DEF IInv

\* The cache serves accepted writes although reads that missed it return
\* late (set and get, encrypted-store.ts:105-145).
THEOREM CacheServes == Spec => []CacheServesWrites
BY AlwaysIInv, PTL DEF IInv

\* A successful flush has seen every earlier write persisted (sync,
\* encrypted-store.ts:192-207).
THEOREM FlushSaves == Spec => []FlushMeansSaved
<1>1. IInv => FlushMeansSaved
  BY DEF IInv, OwedQueued, FlushMeansSaved
<1> QED BY <1>1, AlwaysIInv, PTL

\* Nothing is persisted after a lost write (enqueue and rememberFailure,
\* encrypted-store.ts:168-190): a remount finds a prefix of the writes.
THEOREM PrefixPersisted == Spec => NoGap
<1>1. ASSUME IInv, [Next]_vars, dropped PROVE inner' = inner
  <2>1. ~JobSaved /\ (JobRejects => inner' = inner)
    BY <1>1 DEF IInv, LossStops, JobSaved, JobRejects
  <2> QED
    BY <1>1, <2>1 DEF Next, Accept, Set, Delete, GetMiss, GetReturns, Step, StartJob, Encrypted,
      FlushCall, FlushDrained, FlushSynced, SetAccess, Remount, vars, queueVars
<1> QED BY <1>1, AlwaysIInv, PTL DEF Spec, NoGap

-----------------------------------------------------------------------------
(* The layers (manager/hydration.ts)                                       *)

Versions == DOMAIN Manifests
Ord(v) == DOMAIN Manifests[v]

\* No manifest lists a layer twice.
Distinct == \A v \in Versions : \A i, j \in Ord(v) : Manifests[v][i] = Manifests[v][j] => i = j

\* An ordinal that a call holds stays good: refs only grow, or pulls run alone.
Steady == Lazy!Grows \/ "pull" \in Alone

Fields == {"op", "pc", "ver", "todo", "at", "got", "lane", "live", "any", "seen"}
LaneSet == {Lazy!Lanes[i] : i \in DOMAIN Lazy!Lanes}

\* A state file names a version and ordinals of it; its layers are in the store.
StateFile(m) == DOMAIN m = {"ver", "done"} /\ m.ver \in Versions /\ m.done \subseteq Ord(m.ver)
Kept(m) == Lazy!LayersOf(m.ver, m.done) \subseteq twins

OwnLayers == \A i \in Ord(view.ver) : view.held[i] \in {None, Manifests[view.ver][i]}
ViewOK == /\ DOMAIN view = {"ver", "held"} /\ view.ver \in Versions
          /\ DOMAIN view.held = Ord(view.ver)
          /\ Lazy!Grows => OwnLayers

\* What a call knows of the state file it works on.
Marked(r) == StateFile(marks) /\ ("pull" \in Alone => r.ver = marks.ver)
Evicting(r) == /\ r.op = "dehydrate" /\ r.ver = marks.ver
               /\ r.got \subseteq Ord(r.ver)
               /\ Lazy!LayersOf(r.ver, marks.done \ r.got) \subseteq twins
Target(r) == r.at \in Ord(r.ver)
AsSeen(r) == r.got \subseteq Ord(r.ver)
    /\ (Kept(marks) \/ (r.ver = marks.ver /\ r.got = marks.done))
Answers(r) == /\ Marked(r) /\ Kept(marks) /\ Target(r) /\ r.op \in {"hydrate", "read"}
              /\ r.todo \subseteq Ord(r.ver)

Pulling(r) == r.op = "pull" /\ r.got \subseteq Ord(r.ver)
    /\ Lazy!LayersOf(r.ver, r.got) \subseteq twins
Mounting(r) == r.op \in {"mount", "hydrate", "dehydrate"} /\ Marked(r) /\ AsSeen(r)
Loading(r) == /\ r.op \in {"hydrate", "dehydrate"} /\ Marked(r) /\ AsSeen(r)
              /\ r.todo \subseteq Ord(r.ver)
              /\ r.op = "dehydrate" => r.ver = marks.ver /\ r.got = marks.done
Picking(r) == /\ Marked(r) /\ r.todo \subseteq Ord(r.ver)
              /\ \/ r.op = "hydrate" /\ Kept(marks)
                 \/ Evicting(r) /\ (~r.any => r.todo = {} /\ r.got = {})
Marking(r) == /\ Answers(r) /\ StateFile(r.seen) /\ Kept(r.seen)
              /\ Manifests[r.ver][r.at] \in twins
              /\ "pull" \in Alone => r.seen.ver = marks.ver
Unmarking(r) == /\ r.op = "dehydrate" /\ Marked(r) /\ StateFile(r.seen) /\ Kept(r.seen)
                /\ r.seen.ver = marks.ver

Live(r) == r.live => r.op = "read" /\ ViewOK /\ r.at \in Ord(view.ver)

Task(r) ==
  /\ DOMAIN r = Fields
  /\ (r.op = "none") <=> (r.pc = "idle")
  /\ r.live \in BOOLEAN /\ Live(r)
  /\ r.pc # "idle" => r.ver \in Versions
  /\ r.lane \in LaneSet
  /\ r.pc = "layer" <=> r.op = "pull"
  /\ r.pc = "layer" => Pulling(r)
  /\ r.pc = "mount" => Mounting(r)
  /\ r.pc = "load" => Loading(r)
  /\ r.pc = "next" => Picking(r)
  /\ r.pc \in {"queued", "fetching", "answer"} => Answers(r)
  /\ r.pc = "mark" => Answers(r) /\ Manifests[r.ver][r.at] \in twins
  /\ r.pc = "markWrite" => Marking(r)
  /\ r.pc = "unmark" => Marked(r) /\ Evicting(r)
  /\ r.pc = "unmarkWrite" => Unmarking(r)
  /\ r.pc = "remount" => r.op \in {"hydrate", "dehydrate"} /\ Marked(r)

\* dehydrate has nobody beside it, and a pull neither where Alone says so.
Exclusive == \A c, d \in Callers :
  c # d /\ call[c].op \in Alone /\ ~Lazy!At(c, "idle") => Lazy!At(d, "idle")

Waits == /\ DOMAIN queues = LaneSet
         /\ \A l \in LaneSet : queues[l] \in Seq(Callers)
         /\ \A l \in LaneSet : \A i \in DOMAIN queues[l] : Lazy!At(queues[l][i], "queued")
         /\ \A k, l \in LaneSet : \A i \in DOMAIN queues[k], j \in DOMAIN queues[l] :
              queues[k][i] = queues[l][j] => k = l /\ i = j

Whole == ~torn /\ (\A c \in Callers : ~Lazy!Deleting(c))

LazyInv ==
        /\ remote \in Versions /\ twins \subseteq Lazy!Layers
        /\ running \in Callers \cup {None}
        /\ DOMAIN call = Callers /\ \A c \in Callers : Task(call[c])
        /\ marks # None => StateFile(marks)
        /\ marks # None /\ Whole => Kept(marks)
        /\ marks # None /\ view # None /\ (\A c \in Callers : ~Lazy!Deleting(c)) => Kept(marks)
        /\ view # None => ViewOK
        /\ Exclusive /\ Waits

\* What the layers rest on.
Hypotheses == "dehydrate" \in Alone /\ Distinct /\ Steady

-----------------------------------------------------------------------------
(* What a step of one call leaves to the others.                           *)

\* A call that does nothing knows nothing.
LEMMA IdleTask == Task(Lazy!Idle) /\ Task(Lazy!Idle)'
BY DEF Task, Lazy!Idle, Fields, Live, LaneSet, Lazy!Lanes

Deletes(r) == r.op = "dehydrate" /\ r.pc \in {"next", "unmark", "unmarkWrite"}

\* Deleting speaks of a caller, Deletes of what it does.
LEMMA DeletingIs == \A c \in Callers : Lazy!Deleting(c) = Deletes(call[c])
BY DEF Lazy!Deleting, Deletes, Lazy!At

\* The state file and the view, as another call r finds them after the step.
MarksGo(r) ==
  \/ marks' = marks
  \/ /\ StateFile(marks)' /\ Kept(marks)' /\ r.op # "dehydrate"
     /\ "pull" \in Alone => r.op \in {"none", "pull"} \/ marks'.ver = marks.ver
ViewGo(r) == view' = view \/ ~r.live \/ (ViewOK' /\ view'.ver = view.ver)

\* Layers in the store stay there unless somebody evicts.
LEMMA KeptGrows ==
  ASSUME twins \subseteq twins', NEW m, Kept(m)
  PROVE  Kept(m)'
BY DEF Kept

\* A call keeps what it knows while others add layers, write a good state file
\* or fill the view.
LEMMA TaskKept ==
  ASSUME NEW r, Task(r), twins \subseteq twins', MarksGo(r), ViewGo(r)
  PROVE  Task(r)'
<1>1. Live(r)'
  BY DEF Task, Live, ViewGo, ViewOK, OwnLayers
<1>2. CASE marks' = marks
  <2>1. Pulling(r) => Pulling(r)'
    BY DEF Pulling
  <2>2. Marked(r) => Marked(r)'
    BY <1>2 DEF Marked, StateFile
  <2>3. Kept(marks) => Kept(marks)'
    BY <1>2 DEF Kept
  <2>4. AsSeen(r) => AsSeen(r)'
    BY <1>2, <2>3 DEF AsSeen
  <2>5. Evicting(r) => Evicting(r)'
    BY <1>2 DEF Evicting
  <2>6. Answers(r) => Answers(r)'
    BY <2>2, <2>3 DEF Answers, Target
  <2>7. Kept(r.seen) => Kept(r.seen)'
    BY DEF Kept
  <2>8. Mounting(r) => Mounting(r)'
    BY <2>2, <2>4 DEF Mounting
  <2>9. Loading(r) => Loading(r)'
    BY <1>2, <2>2, <2>4 DEF Loading
  <2>10. Picking(r) => Picking(r)'
    BY <2>2, <2>3, <2>5 DEF Picking
  <2>11. Marking(r) => Marking(r)'
    BY <1>2, <2>6, <2>7 DEF Marking, StateFile
  <2>12. Unmarking(r) => Unmarking(r)'
    BY <1>2, <2>2, <2>7 DEF Unmarking, StateFile
  <2> QED BY <1>1, <2>1, <2>2, <2>5, <2>6, <2>8, <2>9, <2>10, <2>11, <2>12 DEF Task
<1>3. CASE marks' # marks
  <2>1. /\ StateFile(marks)' /\ Kept(marks)' /\ r.op # "dehydrate"
        /\ "pull" \in Alone => r.op \in {"none", "pull"} \/ marks'.ver = marks.ver
    BY <1>3 DEF MarksGo
  <2>2. Pulling(r) => Pulling(r)'
    BY DEF Pulling
  <2>3. r.op \notin {"none", "pull"} /\ Marked(r) => Marked(r)'
    BY <2>1 DEF Marked
  <2>4. r.op \notin {"none", "pull"} /\ Answers(r) => Answers(r)'
    BY <2>1, <2>3 DEF Answers, Target
  <2>5. r.op \notin {"none", "pull"} /\ Mounting(r) => Mounting(r)'
    BY <2>1, <2>3 DEF Mounting, AsSeen
  <2>6. r.op \notin {"none", "pull"} /\ Loading(r) => Loading(r)'
    BY <2>1, <2>3 DEF Loading, AsSeen
  <2>7. r.op \notin {"none", "pull"} /\ Picking(r) => Picking(r)'
    BY <2>1, <2>3 DEF Picking, Evicting
  <2>8. Kept(r.seen) => Kept(r.seen)'
    BY DEF Kept
  <2>9. r.op \notin {"none", "pull"} /\ Marking(r) => Marking(r)'
    BY <2>1, <2>4, <2>8 DEF Marking, StateFile
  <2> QED BY <1>1, <2>1, <2>2, <2>3, <2>4, <2>5, <2>6, <2>7, <2>9
       DEF Task, Evicting, Unmarking
<1> QED BY <1>2, <1>3

\* Call c goes on as f says.
Turn(c, f) ==
  /\ Lazy!Set(c, f) /\ Task(f)' /\ queues' = queues /\ ~Lazy!At(c, "queued")
  /\ f.pc = "idle" \/ Lazy!MayBegin(c, f.op) \/ (~Lazy!At(c, "idle") /\ f.op = call[c].op)

Others(c) == \A d \in Callers \ {c} : \A r : r = call[d] => Task(r)'

\* With the other calls as they were, the calls as a whole stay consistent.
LEMMA Turned ==
  ASSUME LazyInv, NEW c \in Callers, NEW f, Turn(c, f), Others(c)
  PROVE  /\ DOMAIN call' = Callers /\ (\A d \in Callers : Task(call[d])')
         /\ Exclusive' /\ Waits'
<1>1. /\ DOMAIN call' = Callers /\ call'[c] = f
      /\ \A d \in Callers \ {c} : call'[d] = call[d]
  BY DEF LazyInv, Turn, Lazy!Set
<1>2. \A d \in Callers : Task(call[d])'
  <2>1. Task(call[c])'
    BY <1>1 DEF Turn, Task, Live, Pulling, Mounting, Loading, Picking, Answers, Marking, Marked,
       Evicting, Unmarking, AsSeen, Target, Kept
  <2>2. ASSUME NEW d \in Callers \ {c} PROVE Task(call[d])'
    <3> DEFINE r == call[d]
    <3>1. call'[d] = r
      BY <1>1
    <3>2. PICK x : x = r
      OBVIOUS
    <3>3. Task(x)'
      BY <3>2 DEF Others
    <3>4. call'[d] = x
      BY <3>1, <3>2
    <3> HIDE DEF r
    <3> QED BY <3>3, <3>4 DEF Task, Live, Pulling, Mounting, Loading, Picking, Answers, Marking,
        Marked,
       Evicting, Unmarking, AsSeen, Target, Kept
  <2> QED BY <2>1, <2>2
<1>3. Exclusive'
  BY <1>1 DEF LazyInv, Turn, Exclusive, Lazy!MayBegin, Lazy!At, Task
<1>4. Waits'
  BY <1>1 DEF LazyInv, Turn, Waits, Lazy!At
<1> QED BY <1>1, <1>2, <1>3, <1>4

\* A step that neither deletes nor ends a deletion leaves whole what is whole.
LEMMA StaysWhole ==
  ASSUME LazyInv, NEW c \in Callers, NEW f, Lazy!Set(c, f), Deletes(call[c]) => Deletes(f)
  PROVE  (\A d \in Callers : ~Lazy!Deleting(d))' => \A d \in Callers : ~Lazy!Deleting(d)
BY DEF LazyInv, Lazy!Set, Lazy!Deleting, Deletes, Lazy!At

\* A step that changes neither the state file nor the view, and that adds to
\* the store at most.
LEMMA CalmStep ==
  ASSUME LazyInv, DOMAIN call' = Callers, \A d \in Callers : Task(call[d])', Exclusive', Waits',
         (\A d \in Callers : ~Lazy!Deleting(d))' => \A d \in Callers : ~Lazy!Deleting(d),
         twins \subseteq twins', twins' \subseteq Lazy!Layers, running' \in Callers \cup {None},
         UNCHANGED <<remote, marks, view, torn>>
  PROVE  LazyInv'
<1>1. (marks # None)' /\ (Whole \/ (view # None /\ \A d \in Callers : ~Lazy!Deleting(d)))'
      => Kept(marks)'
  BY DEF LazyInv, Whole, Kept
<1>2. (marks # None => StateFile(marks))' /\ (view # None => ViewOK)'
  BY DEF LazyInv, StateFile, ViewOK, OwnLayers
<1> QED BY <1>1, <1>2 DEF LazyInv

\* The same for a call that goes on by itself.
LEMMA CalmTurn ==
  ASSUME LazyInv, NEW c \in Callers, NEW f, Turn(c, f), Deletes(call[c]) => Deletes(f),
         twins \subseteq twins', twins' \subseteq Lazy!Layers, running' \in Callers \cup {None},
         UNCHANGED <<remote, marks, view, torn>>
  PROVE  LazyInv'
<1>1. Others(c)
  <2> SUFFICES ASSUME NEW d \in Callers \ {c}, NEW r, r = call[d] PROVE Task(r)'
    BY DEF Others
  <2> QED BY TaskKept DEF LazyInv, MarksGo, ViewGo
<1>2. /\ DOMAIN call' = Callers /\ (\A d \in Callers : Task(call[d])')
      /\ Exclusive' /\ Waits'
  BY <1>1, Turned
<1>3. (\A d \in Callers : ~Lazy!Deleting(d))' => \A d \in Callers : ~Lazy!Deleting(d)
  BY StaysWhole DEF Turn
<1> QED BY <1>2, <1>3, CalmStep

\* While a call is under way, no other call evicts, or none pulls.
LEMMA NobodyBeside ==
  ASSUME LazyInv, NEW c \in Callers, NEW d \in Callers \ {c}, ~Lazy!At(c, "idle"), NEW op \in Alone,
         op # "none"
  PROVE  call[d].op # op /\ (call[c].op = op => call[d].op = "none")
BY DEF LazyInv, Exclusive, Lazy!At, Task

\* A step of c that writes the state file.
LEMMA WriteStep ==
  ASSUME LazyInv, "dehydrate" \in Alone, NEW c \in Callers, NEW f, Turn(c, f), ~Lazy!At(c, "idle"),
         StateFile(marks)', Kept(marks)',
         "pull" \in Alone => call[c].op = "pull" \/ marks'.ver = marks.ver,
         UNCHANGED <<remote, twins, view, running>>
  PROVE  LazyInv'
<1>1. Others(c)
  <2> SUFFICES ASSUME NEW d \in Callers \ {c}, NEW r, r = call[d] PROVE Task(r)'
    BY DEF Others
  <2>1. r.op # "dehydrate"
    BY NobodyBeside
  <2>2. "pull" \in Alone => r.op \in {"none", "pull"} \/ marks'.ver = marks.ver
    BY NobodyBeside
  <2>3. MarksGo(r) /\ ViewGo(r)
    BY <2>1, <2>2 DEF MarksGo, ViewGo
  <2> QED BY <2>3, TaskKept DEF LazyInv
<1>2. /\ DOMAIN call' = Callers /\ (\A d \in Callers : Task(call[d])')
      /\ Exclusive' /\ Waits'
  BY <1>1, Turned
<1>3. (view # None => ViewOK)'
  BY DEF LazyInv, ViewOK, OwnLayers
<1> QED BY <1>2, <1>3 DEF LazyInv

-----------------------------------------------------------------------------
(* pullIndex                                                               *)

\* A pull writes the state file for the layers that it found or fetched.
LEMMA PullKeeps ==
  ASSUME LazyInv, Hypotheses, NEW c \in Callers, Lazy!PullBegin(c) \/ Lazy!PullLayer(c)
         \/ Lazy!PullSave(c)
  PROVE  LazyInv'
<1>1. CASE Lazy!PullBegin(c)
  <2> DEFINE f == [Lazy!Idle EXCEPT !.op = "pull", !.pc = "layer", !.ver = remote, !.at = 1]
  <2>1. Task(f)'
    BY <1>1 DEF Lazy!PullBegin, LazyInv, Task, Lazy!Idle, Fields, Live, LaneSet, Lazy!Lanes,
       Pulling, Lazy!LayersOf
  <2>2. Turn(c, f) /\ ~Deletes(call[c])
    BY <1>1, <2>1 DEF Lazy!PullBegin, Turn, Lazy!MayBegin, Lazy!At, Deletes
  <2> HIDE DEF f
  <2> QED BY <1>1, <2>2, CalmTurn DEF Lazy!PullBegin, LazyInv
<1>2. CASE Lazy!PullLayer(c)
  <2>0. PICK r : r = call[c]
    OBVIOUS
  <2> DEFINE l == Manifests[r.ver][r.at]
             here == l \in Eager \/ l \in twins
             f == [r EXCEPT !.at = @ + 1, !.got = IF here THEN @ \cup {r.at} ELSE @]
  <2>1. /\ twins' = IF l \in Eager THEN twins \cup {l} ELSE twins
        /\ r = call[c] /\ Lazy!Set(c, f) /\ UNCHANGED <<remote, marks, view, queues, running, torn>>
        /\ r.pc = "layer" /\ r.at \in Ord(r.ver)
    BY <1>2, <2>0 DEF Lazy!PullLayer, Lazy!At, Ord
  <2>2. Task(r) /\ Pulling(r) /\ r.ver \in Versions
    BY <2>0, <2>1 DEF LazyInv, Task
  <2>3. twins \subseteq twins' /\ twins' \subseteq Lazy!Layers
    BY <2>1, <2>2 DEF LazyInv, Lazy!Layers, Ord, Versions
  <2>4. here => l \in twins'
    BY <2>1
  <2>5. Pulling(f)'
    BY <2>1, <2>2, <2>3, <2>4 DEF Pulling, Lazy!LayersOf, Task, Fields
  <2>6. Task(f)'
    BY <2>1, <2>2, <2>5 DEF Task, Fields, Live
  <2>7. Turn(c, f) /\ ~Deletes(call[c])
    BY <2>0, <2>1, <2>2, <2>6 DEF Turn, Lazy!At, Deletes, Task, Fields
  <2> HIDE DEF f
  <2> QED BY <2>1, <2>3, <2>7, CalmTurn DEF LazyInv
<1>3. CASE Lazy!PullSave(c)
  <2>1. /\ marks' = [ver |-> call[c].ver, done |-> call[c].got] /\ Lazy!Set(c, Lazy!Idle)
        /\ UNCHANGED <<remote, twins, view, queues, running>> /\ call[c].pc = "layer"
    BY <1>3 DEF Lazy!PullSave, Lazy!Throws, Lazy!At
  <2>2. Pulling(call[c]) /\ call[c].ver \in Versions
    BY <2>1 DEF LazyInv, Task
  <2>3. StateFile(marks)' /\ Kept(marks)'
    BY <2>1, <2>2 DEF StateFile, Kept, Pulling
  <2>4. Turn(c, Lazy!Idle) /\ ~Lazy!At(c, "idle") /\ call[c].op = "pull"
    BY <2>1, <2>2, IdleTask DEF Turn, Lazy!At, Lazy!Idle, Pulling
  <2> QED BY <2>1, <2>3, <2>4, WriteStep DEF Hypotheses
<1> QED BY <1>1, <1>2, <1>3

-----------------------------------------------------------------------------
(* Calls that read the state file                                          *)

\* What a call that begins, or mounts again, finds there.
LEMMA ThrowKeeps ==
  ASSUME LazyInv, NEW c \in Callers, Lazy!Throws(c), ~Lazy!At(c, "queued"), ~Deletes(call[c]),
         UNCHANGED <<remote, twins, marks, view, queues, running, torn>>
  PROVE  LazyInv'
<1>1. Turn(c, Lazy!Idle)
  BY IdleTask DEF Lazy!Throws, Turn, Lazy!Idle
<1> QED BY <1>1, CalmTurn DEF LazyInv

\* mount, hydrate and dehydrate begin with what the state file says.
LEMMA BeginKeeps ==
  ASSUME LazyInv, Hypotheses, NEW c \in Callers,
         \/ Lazy!MountBegin(c)
         \/ \E k \in DOMAIN Lazy!Lanes,
               s \in SUBSET Lazy!Ordinals : Lazy!Begin(c, "hydrate", Lazy!Lanes[k], s)
         \/ \E s \in SUBSET Lazy!Ordinals : Lazy!Begin(c, "dehydrate", Lazy!Lanes[1], s)
  PROVE  LazyInv'
<1>1. CASE Lazy!MountBegin(c)
  <2> DEFINE f == [Lazy!Idle EXCEPT !.op = "mount", !.pc = "mount",
                                    !.ver = marks.ver, !.got = marks.done]
  <2>1. Lazy!Set(c, f) /\ UNCHANGED <<remote, twins, marks, view, queues, running, torn>>
        /\ StateFile(marks) /\ Lazy!MayBegin(c, "mount")
    BY <1>1 DEF Lazy!MountBegin, LazyInv
  <2>2. Mounting(f)'
    BY <2>1 DEF Mounting, Marked, AsSeen, StateFile, Lazy!Idle
  <2>3. Task(f)'
    BY <2>1, <2>2 DEF Task, Lazy!Idle, Fields, Live, LaneSet, Lazy!Lanes, StateFile
  <2>4. Turn(c, f) /\ ~Deletes(call[c])
    BY <2>1, <2>3 DEF Turn, Lazy!MayBegin, Lazy!At, Deletes, Lazy!Idle
  <2> HIDE DEF f
  <2> QED BY <2>1, <2>4, CalmTurn DEF LazyInv
<1>2. ASSUME NEW op \in {"hydrate", "dehydrate"}, NEW lane \in LaneSet, NEW s,
      Lazy!Begin(c, op, lane, s)
      PROVE  LazyInv'
  <2> DEFINE want == IF op = "hydrate" THEN DOMAIN Manifests[marks.ver] \ marks.done ELSE marks.done
             f == [Lazy!Idle EXCEPT !.op = op, !.pc = "load", !.lane = lane, !.ver = marks.ver,
                               !.got = marks.done, !.todo = s \cap want]
  <2>1. Lazy!Set(c, f) /\ UNCHANGED <<remote, twins, marks, view, queues, running, torn>>
        /\ StateFile(marks) /\ Lazy!MayBegin(c, op)
    BY <1>2 DEF Lazy!Begin, LazyInv
  <2>2. s \cap want \subseteq Ord(marks.ver)
    BY <2>1 DEF StateFile, Ord
  <2>3. Loading(f)'
    BY <2>1, <2>2 DEF Loading, Marked, AsSeen, StateFile, Lazy!Idle
  <2>4. Task(f)'
    BY <2>1, <2>3 DEF Task, Lazy!Idle, Fields, Live, LaneSet, Lazy!Lanes, StateFile
  <2>5. Turn(c, f) /\ ~Deletes(call[c])
    BY <2>1, <2>4 DEF Turn, Lazy!MayBegin, Lazy!At, Deletes, Lazy!Idle
  <2> HIDE DEF f
  <2> QED BY <2>1, <2>5, CalmTurn DEF LazyInv
<1>3. \A k \in DOMAIN Lazy!Lanes : Lazy!Lanes[k] \in LaneSet
  BY DEF LaneSet
<1>4. 1 \in DOMAIN Lazy!Lanes
  BY DEF Lazy!Lanes
<1> QED BY <1>1, <1>2, <1>3, <1>4

\* A call that could load the view has seen the marked layers in the store.
LEMMA LoadKeeps ==
  ASSUME LazyInv, Hypotheses, NEW c \in Callers, Lazy!Load(c)
  PROVE  LazyInv'
<1>0. PICK r : r = call[c]
  OBVIOUS
<1> DEFINE f == [r EXCEPT !.pc = "next", !.got = {}, !.any = r.todo # {}]
<1>1. /\ r.pc = "load" /\ Task(r) /\ Loading(r) /\ r.ver \in Versions
      /\ UNCHANGED <<remote, twins, marks, view, queues, running, torn>>
  BY <1>0 DEF Lazy!Load, Lazy!At, LazyInv, Task
<1>2. CASE ~(Lazy!LayersOf(r.ver, r.got) \subseteq twins)
  BY <1>0, <1>1, <1>2, ThrowKeeps DEF Lazy!Load, Lazy!At, Deletes
<1>3. CASE Lazy!LayersOf(r.ver, r.got) \subseteq twins
  <2>1. Lazy!Set(c, f)
    BY <1>0, <1>3 DEF Lazy!Load
  <2>2. Kept(marks)
    BY <1>1, <1>3 DEF Loading, AsSeen, Kept
  <2>3. Picking(f)'
    <3>1. CASE r.op = "hydrate"
      BY <1>1, <2>2, <3>1 DEF Picking, Loading, Marked, StateFile, Task, Fields, Kept
    <3>2. CASE r.op = "dehydrate"
      BY <1>1, <2>2, <3>2 DEF Picking, Loading, Marked, StateFile, Task, Fields, Kept, Evicting
    <3> QED BY <1>1, <3>1, <3>2 DEF Loading
  <2>4. Task(f)'
    <3>1. r.op \in {"hydrate", "dehydrate"}
      BY <1>1 DEF Loading
    <3> QED BY <1>1, <2>3, <3>1 DEF Task, Fields, Live
  <2>5. Turn(c, f) /\ ~Deletes(call[c])
    BY <1>0, <1>1, <2>1, <2>4 DEF Turn, Lazy!At, Deletes, Task, Fields
  <2> HIDE DEF f
  <2> QED BY <1>1, <2>5, CalmTurn DEF LazyInv
<1> QED BY <1>2, <1>3

\* The state file is read again for the mount.
LEMMA RemountKeeps ==
  ASSUME LazyInv, Hypotheses, NEW c \in Callers, Lazy!Remount(c)
  PROVE  LazyInv'
<1>0. PICK r : r = call[c]
  OBVIOUS
<1> DEFINE f == [r EXCEPT !.pc = "mount", !.ver = marks.ver, !.got = marks.done]
<1>1. /\ r.pc = "remount" /\ Task(r) /\ r.op \in {"hydrate", "dehydrate"}
      /\ Marked(r) /\ UNCHANGED <<remote, twins, marks, view, queues, running, torn>>
  BY <1>0 DEF Lazy!Remount, Lazy!At, LazyInv, Task
<1>2. CASE marks = None
  BY <1>0, <1>1, <1>2, ThrowKeeps DEF Lazy!Remount, Lazy!At, Deletes
<1>3. CASE marks # None
  <2>1. Lazy!Set(c, f)
    BY <1>0, <1>3 DEF Lazy!Remount
  <2>2. Mounting(f)'
    BY <1>1 DEF Mounting, Marked, AsSeen, StateFile, Task, Fields
  <2>3. Task(f)'
    BY <1>1, <2>2 DEF Task, Fields, Live, Marked, StateFile
  <2>4. Turn(c, f) /\ ~Deletes(call[c])
    BY <1>0, <1>1, <2>1, <2>3 DEF Turn, Lazy!At, Deletes, Task, Fields
  <2> HIDE DEF f
  <2> QED BY <1>1, <2>4, CalmTurn DEF LazyInv
<1> QED BY <1>2, <1>3

-----------------------------------------------------------------------------
(* Marks                                                                   *)

\* The state file is read with the layer in the store ...
LEMMA MarkKeeps ==
  ASSUME LazyInv, Hypotheses, NEW c \in Callers, Lazy!Mark(c)
  PROVE  LazyInv'
<1>0. PICK r, m : r = call[c] /\ m = marks
  OBVIOUS
<1> DEFINE f == [r EXCEPT !.pc = "markWrite", !.seen = m]
<1>1. /\ r.pc = "mark" /\ Task(r) /\ Answers(r) /\ Manifests[r.ver][r.at] \in twins
      /\ Lazy!Set(c, f) /\ UNCHANGED <<remote, twins, marks, view, queues, running, torn>>
  BY <1>0 DEF Lazy!Mark, Lazy!At, LazyInv, Task
<1>2. StateFile(m) /\ Kept(m) /\ ("pull" \in Alone => r.ver = m.ver)
  BY <1>0, <1>1 DEF Answers, Marked, StateFile, Kept
<1>3. Answers(f)'
  BY <1>0, <1>1 DEF Answers, Marked, StateFile, Kept, Target, Task, Fields
<1>4. Marking(f)'
  BY <1>0, <1>1, <1>2, <1>3 DEF Marking, StateFile, Kept, Task, Fields
<1>5. Live(f)'
  BY <1>1 DEF Live, Task, Fields, ViewOK, OwnLayers
<1>6. Task(f)'
  BY <1>1, <1>4, <1>5 DEF Task, Fields, Answers
<1>7. Turn(c, f) /\ ~Deletes(call[c])
  BY <1>0, <1>1, <1>6 DEF Turn, Lazy!At, Deletes, Task, Fields
<1> HIDE DEF f
<1> QED BY <1>1, <1>7, CalmTurn DEF LazyInv

\* ... and written with one more mark: of the same layer, because the ordinal
\* has not changed its meaning.
LEMMA MarkWriteKeeps ==
  ASSUME LazyInv, Hypotheses, NEW c \in Callers, Lazy!MarkWrite(c)
  PROVE  LazyInv'
<1>0. PICK r : r = call[c]
  OBVIOUS
<1> DEFINE f == [r EXCEPT !.pc = IF r.op = "read" THEN "answer" ELSE "next", !.seen = None]
<1>1. /\ r.pc = "markWrite" /\ Task(r) /\ Marking(r)
      /\ UNCHANGED <<remote, twins, view, queues, running, torn>>
  BY <1>0 DEF Lazy!MarkWrite, Lazy!At, LazyInv, Task
<1>2. CASE r.at \notin Ord(r.seen.ver)
  BY <1>0, <1>1, <1>2, ThrowKeeps DEF Lazy!MarkWrite, Lazy!At, Deletes, Ord
<1>3. CASE r.at \in Ord(r.seen.ver)
  <2>1. Lazy!Set(c, f) /\ marks' = [r.seen EXCEPT !.done = @ \cup {r.at}]
    BY <1>0, <1>3 DEF Lazy!MarkWrite, Ord
  <2>2. /\ StateFile(r.seen) /\ Kept(r.seen) /\ Manifests[r.ver][r.at] \in twins
        /\ r.at \in Ord(r.ver) /\ Marked(r) /\ r.ver \in Versions
        /\ "pull" \in Alone => r.seen.ver = marks.ver
    BY <1>1 DEF Marking, Answers, Target, Task
  <2>3. Manifests[r.ver][r.at] = Manifests[r.seen.ver][r.at]
    <3>1. CASE Lazy!Grows
      <4>1. r.ver \in Nat /\ r.seen.ver \in Nat
        BY <2>2, BytesAssumption DEF Lazy!HydrationAssumption, Versions, StateFile
      <4>2. r.ver <= r.seen.ver \/ r.seen.ver <= r.ver
        BY <4>1
      <4> QED BY <1>3, <2>2, <3>1, <4>2 DEF Lazy!Grows, Versions, Ord, StateFile
    <3>2. CASE "pull" \in Alone
      BY <2>2, <3>2 DEF Marked
    <3> QED BY <3>1, <3>2 DEF Hypotheses, Steady
  <2>4. StateFile(marks)' /\ Kept(marks)' /\ marks'.ver = r.seen.ver
    BY <1>1, <1>3, <2>1, <2>2, <2>3 DEF StateFile, Kept, Lazy!LayersOf
  <2>5. Marked(f)' /\ Kept(marks)' /\ f.op = r.op /\ f.todo = r.todo /\ f.ver = r.ver /\ f.at = r.at
    BY <1>1, <2>2, <2>4 DEF Marked, Task, Fields
  <2>6. r.op \in {"hydrate", "read"} /\ r.todo \subseteq Ord(r.ver)
    BY <1>1 DEF Marking, Answers
  <2>7. f.pc = "answer" => Answers(f)'
    BY <2>2, <2>5, <2>6 DEF Answers, Target
  <2>8. f.pc = "next" => Picking(f)'
    BY <1>1, <2>2, <2>5, <2>6 DEF Picking, Task, Fields
  <2>9. Live(f)'
    BY <1>1 DEF Live, Task, Fields, ViewOK, OwnLayers
  <2>10. Task(f)'
    BY <1>1, <2>2, <2>6, <2>7, <2>8, <2>9 DEF Task, Fields
  <2>11. Turn(c, f) /\ ~Lazy!At(c, "idle")
    BY <1>0, <1>1, <2>1, <2>10 DEF Turn, Lazy!At, Task, Fields
  <2> HIDE DEF f
  <2> QED BY <1>1, <2>2, <2>4, <2>11, WriteStep DEF Hypotheses
<1> QED BY <1>2, <1>3

\* dehydrate reads the state file; nobody has changed it since it began.
LEMMA UnmarkKeeps ==
  ASSUME LazyInv, Hypotheses, NEW c \in Callers, Lazy!Unmark(c)
  PROVE  LazyInv'
<1>0. PICK r, m : r = call[c] /\ m = marks
  OBVIOUS
<1> DEFINE f == [r EXCEPT !.pc = "unmarkWrite", !.seen = [m EXCEPT !.done = @ \ r.got]]
<1>1. /\ r.pc = "unmark" /\ Task(r) /\ Marked(r) /\ Evicting(r)
      /\ UNCHANGED <<remote, twins, marks, view, queues, running, torn>>
  BY <1>0 DEF Lazy!Unmark, Lazy!At, LazyInv, Task
<1>2. Lazy!Set(c, f)
  BY <1>0, <1>1 DEF Lazy!Unmark, Evicting, Ord
<1>3. /\ StateFile(m) /\ r.ver = m.ver /\ r.op = "dehydrate"
      /\ Lazy!LayersOf(m.ver, m.done \ r.got) \subseteq twins
  BY <1>0, <1>1 DEF Marked, Evicting
<1>4. StateFile(f.seen) /\ f.seen.ver = m.ver /\ f.seen.done = m.done \ r.got
  BY <1>1, <1>3 DEF StateFile, Task, Fields
<1>5. Unmarking(f)'
  BY <1>0, <1>1, <1>3, <1>4 DEF Unmarking, Marked, StateFile, Kept, Task, Fields
<1>6. Task(f)'
  BY <1>1, <1>3, <1>5 DEF Task, Fields, Live
<1>7. Turn(c, f) /\ Deletes(f)
  BY <1>0, <1>1, <1>2, <1>3, <1>6 DEF Turn, Lazy!At, Deletes, Task, Fields
<1> HIDE DEF f
<1> QED BY <1>1, <1>7, CalmTurn DEF LazyInv

\* The marks of what was evicted are gone.
LEMMA UnmarkWriteKeeps ==
  ASSUME LazyInv, Hypotheses, NEW c \in Callers, Lazy!UnmarkWrite(c)
  PROVE  LazyInv'
<1>0. PICK r : r = call[c]
  OBVIOUS
<1> DEFINE f == [r EXCEPT !.pc = "remount"]
<1>1. /\ r.pc = "unmarkWrite" /\ Task(r) /\ Unmarking(r) /\ marks' = r.seen
      /\ UNCHANGED <<remote, twins, view, queues, running, torn>>
      /\ Lazy!Set(c, f) \/ Lazy!Set(c, Lazy!Idle)
  BY <1>0 DEF Lazy!UnmarkWrite, Lazy!At, LazyInv, Task, Lazy!Goto, Lazy!Set, Lazy!Throws
<1>2. StateFile(marks)' /\ Kept(marks)' /\ marks'.ver = marks.ver /\ r.op = "dehydrate"
  BY <1>1 DEF Unmarking, StateFile, Kept
<1>3. Marked(f)'
  BY <1>1, <1>2 DEF Marked, Unmarking, Task, Fields
<1>4. Task(f)'
  BY <1>1, <1>2, <1>3 DEF Task, Fields, Live
<1>5. ~Lazy!At(c, "idle") /\ (Turn(c, f) \/ Turn(c, Lazy!Idle))
  BY <1>0, <1>1, <1>2, <1>4, IdleTask DEF Turn, Lazy!At, Task, Fields, Lazy!Idle
<1> HIDE DEF f
<1> QED BY <1>1, <1>2, <1>5, WriteStep DEF Hypotheses

-----------------------------------------------------------------------------
(* The view                                                                *)

\* What a read brings is the layer of that ordinal of the view, if refs only grow.
LEMMA AnswerKeeps ==
  ASSUME LazyInv, Hypotheses, NEW c \in Callers, Lazy!Answer(c)
  PROVE  LazyInv'
<1>0. PICK r : r = call[c]
  OBVIOUS
<1> DEFINE l == Manifests[r.ver][r.at]
<1>1. /\ r.pc = "answer" /\ Task(r) /\ Answers(r) /\ Lazy!Set(c, Lazy!Idle)
      /\ view' = IF r.live /\ l \in twins THEN [view EXCEPT !.held[r.at] = l] ELSE view
      /\ UNCHANGED <<remote, twins, marks, queues, running, torn>>
  BY <1>0 DEF Lazy!Answer, Lazy!At, LazyInv, Task, Lazy!Throws
<1>2. Turn(c, Lazy!Idle) /\ ~Deletes(call[c]) /\ ~Lazy!At(c, "idle")
  BY <1>0, <1>1, IdleTask DEF Turn, Lazy!At, Deletes, Lazy!Idle
<1>3. CASE view' = view
  BY <1>1, <1>2, <1>3, CalmTurn DEF LazyInv
<1>4. CASE r.live /\ view' = [view EXCEPT !.held[r.at] = l]
  <2>1. ViewOK /\ r.at \in Ord(view.ver) /\ r.at \in Ord(r.ver) /\ r.ver \in Versions
    BY <1>1, <1>4 DEF Task, Live, Answers, Target
  <2>2. Lazy!Grows => l = Manifests[view.ver][r.at]
    <3>1. r.ver \in Nat /\ view.ver \in Nat
      BY <2>1, BytesAssumption DEF Lazy!HydrationAssumption, Versions, ViewOK
    <3>2. r.ver <= view.ver \/ view.ver <= r.ver
      BY <3>1
    <3> QED BY <2>1, <3>2 DEF Lazy!Grows, Versions, Ord, ViewOK
  <2> HIDE DEF l
  <2>3. ViewOK' /\ view'.ver = view.ver
    BY <1>4, <2>1, <2>2 DEF ViewOK, OwnLayers
  <2>4. Others(c)
    <3> SUFFICES ASSUME NEW d \in Callers \ {c}, NEW q, q = call[d] PROVE Task(q)'
      BY DEF Others
    <3> QED BY <1>1, <2>3, TaskKept DEF LazyInv, MarksGo, ViewGo
  <2>5. /\ DOMAIN call' = Callers /\ (\A d \in Callers : Task(call[d])')
        /\ Exclusive' /\ Waits'
    BY <1>2, <2>4, Turned
  <2>6. \A d \in Callers : ~Lazy!Deleting(d)
    BY <1>0, <1>1, <1>2, NobodyBeside DEF Lazy!Deleting, Answers, Hypotheses
  <2>7. marks # None => Kept(marks)'
    BY <1>1 DEF LazyInv, Answers, Kept
  <2>8. (marks # None => StateFile(marks))'
    BY <1>1 DEF LazyInv, StateFile
  <2> QED BY <1>1, <2>3, <2>5, <2>7, <2>8 DEF LazyInv
<1> QED BY <1>1, <1>3, <1>4

\* The new view holds the layers that were marked, and no pending read fills it.
LEMMA MountKeeps ==
  ASSUME LazyInv, Hypotheses, NEW c \in Callers, Lazy!Mount(c)
  PROVE  LazyInv'
<1>0. PICK r : r = call[c]
  OBVIOUS
<1>1. /\ r.pc = "mount" /\ Task(r) /\ Mounting(r) /\ r.ver \in Versions
      /\ UNCHANGED <<remote, twins, marks, queues, running, torn>>
  BY <1>0 DEF Lazy!Mount, Lazy!At, LazyInv, Task
<1>2. CASE ~(Lazy!LayersOf(r.ver, r.got) \subseteq twins)
  BY <1>0, <1>1, <1>2, ThrowKeeps DEF Lazy!Mount, Lazy!At, Deletes
<1>3. CASE Lazy!LayersOf(r.ver, r.got) \subseteq twins
  <2>1. /\ view' = [ver |-> r.ver, held |-> [i \in Ord(r.ver) |->
                                          IF i \in r.got THEN Manifests[r.ver][i] ELSE None]]
        /\ call' = [d \in Callers |-> IF d = c THEN Lazy!Idle ELSE [call[d] EXCEPT !.live = FALSE]]
    BY <1>0, <1>3 DEF Lazy!Mount, Ord
  <2>2. ViewOK'
    BY <1>1, <2>1 DEF ViewOK, OwnLayers
  <2>3. Kept(marks)'
    BY <1>1, <1>3 DEF Mounting, AsSeen, Kept
  <2>4. \A d \in Callers : Task(call[d])'
    <3>1. Task(call[c])'
      BY <2>1, IdleTask
    <3>2. ASSUME NEW d \in Callers \ {c} PROVE Task(call[d])'
      <4>1. PICK q : q = call[d]
        OBVIOUS
      <4>2. PICK x : x = [q EXCEPT !.live = FALSE]
        OBVIOUS
      <4>3. Task(q)
        BY <4>1 DEF LazyInv
      <4>4. Task(x)
        BY <4>2, <4>3 DEF Task, Fields, Live, Pulling, Mounting, Loading, Picking, Answers,
          Marking, Marked, Evicting, Unmarking, AsSeen, Target
      <4>5. ~x.live
        BY <4>2, <4>3 DEF Task, Fields
      <4>6. Task(x)'
        BY <1>1, <4>4, <4>5, TaskKept DEF MarksGo, ViewGo
      <4>7. call'[d] = x
        BY <2>1, <4>1, <4>2
      <4> QED BY <4>6, <4>7
    <3> QED BY <3>1, <3>2
  <2>5. DOMAIN call' = Callers /\ call'[c] = Lazy!Idle
        /\ \A d \in Callers \ {c} : call'[d].pc = call[d].pc /\ call'[d].op = call[d].op
    BY <2>1 DEF LazyInv, Task, Fields
  <2>6. Exclusive' /\ Waits'
    BY <1>0, <1>1, <2>5 DEF LazyInv, Exclusive, Waits, Lazy!At, Lazy!Idle
  <2>7. (marks # None => StateFile(marks))'
    BY <1>1 DEF LazyInv, StateFile
  <2> QED BY <1>1, <2>2, <2>3, <2>4, <2>5, <2>6, <2>7 DEF LazyInv
<1> QED BY <1>2, <1>3

-----------------------------------------------------------------------------
(* BandwidthScheduler                                                      *)

\* A task that can run or wait.
Ready(task) == /\ DOMAIN task = Fields /\ task.ver \in Versions /\ task.lane \in LaneSet
               /\ task.live \in BOOLEAN /\ Live(task) /\ Answers(task)

\* A task keeps what it knows when it starts or waits.
LEMMA ReadyTask ==
  ASSUME NEW task, Ready(task), NEW pc \in {"queued", "fetching"}
  PROVE  Task([task EXCEPT !.pc = pc])
<1> DEFINE f == [task EXCEPT !.pc = pc]
<1>1. Answers(f)
  BY DEF Ready, Answers, Marked, Target, Fields
<1>2. Live(f)
  BY DEF Ready, Live, Fields
<1> QED BY <1>1, <1>2 DEF Task, Ready, Fields, Answers

\* It starts, or waits behind others that are not itself.
LEMMA ScheduleKeeps ==
  ASSUME LazyInv, NEW c \in Callers, NEW task, Ready(task), Lazy!Schedule(c, task),
         ~Lazy!At(c, "queued"),
         ~Deletes(call[c]), Lazy!MayBegin(c, task.op)
             \/ (~Lazy!At(c, "idle") /\ task.op = call[c].op),
         UNCHANGED <<remote, twins, marks, view, torn>>
  PROVE  LazyInv'
<1>1. ASSUME NEW pc \in {"queued", "fetching"}
      PROVE  /\ Task([task EXCEPT !.pc = pc])'
             /\ [task EXCEPT !.pc = pc].pc = pc /\ [task EXCEPT !.pc = pc].op = task.op
  <2>1. Task([task EXCEPT !.pc = pc])
    BY ReadyTask
  <2>2. Task([task EXCEPT !.pc = pc])'
    BY <2>1, TaskKept DEF MarksGo, ViewGo
  <2> QED BY <2>2 DEF Ready, Fields
<1>2. CASE running = None
  <2>1. running' = c /\ Lazy!Set(c, [task EXCEPT !.pc = "fetching"]) /\ queues' = queues
    BY <1>2 DEF Lazy!Schedule
  <2>2. Turn(c, [task EXCEPT !.pc = "fetching"])
    BY <2>1, <1>1 DEF Turn
  <2> QED BY <2>1, <2>2, CalmTurn DEF LazyInv
<1>3. CASE running # None
  <2> DEFINE f == [task EXCEPT !.pc = "queued"]
  <2>1. /\ queues' = [queues EXCEPT ![task.lane] = Append(@, c)] /\ Lazy!Set(c, f)
        /\ running' = running /\ task.lane \in LaneSet
    BY <1>3 DEF Lazy!Schedule, Ready
  <2>2. f.pc = "queued" /\ f.op = task.op /\ Task(f)'
    BY <1>1
  <2> HIDE DEF f
  <2>3. /\ DOMAIN call' = Callers /\ call'[c] = f
        /\ \A d \in Callers \ {c} : call'[d] = call[d]
    BY <2>1 DEF LazyInv, Lazy!Set
  <2>4. Waits'
    <3> DEFINE q == queues[task.lane]
    <3>1. q \in Seq(Callers) /\ DOMAIN queues = LaneSet
      BY <2>1 DEF LazyInv, Waits
    <3>2. /\ DOMAIN queues' = LaneSet /\ queues'[task.lane] = Append(q, c)
          /\ \A l \in LaneSet \ {task.lane} : queues'[l] = queues[l]
      BY <2>1, <3>1
    <3>3. /\ Append(q, c) \in Seq(Callers) /\ DOMAIN q = 1..Len(q) /\ Len(q) \in Nat
          /\ DOMAIN Append(q, c) = DOMAIN q \cup {Len(q) + 1} /\ Append(q, c)[Len(q) + 1] = c
          /\ \A i \in DOMAIN q : Append(q, c)[i] = q[i]
      BY <3>1
    <3>4. \A l \in LaneSet : \A i \in DOMAIN queues[l] :
            queues[l][i] \in Callers \ {c} /\ call[queues[l][i]].pc = "queued"
      BY DEF LazyInv, Waits, Lazy!At
    <3> HIDE DEF q
    <3>5. \A l \in LaneSet : queues'[l] \in Seq(Callers)
      BY <3>2, <3>3 DEF LazyInv, Waits
    <3>6. \A l \in LaneSet : \A i \in DOMAIN queues'[l] :
            \/ l = task.lane /\ i = Len(q) + 1 /\ queues'[l][i] = c
            \/ i \in DOMAIN queues[l] /\ queues'[l][i] = queues[l][i]
      BY <3>2, <3>3 DEF q
    <3>7. \A l \in LaneSet : \A i \in DOMAIN queues'[l] : call'[queues'[l][i]].pc = "queued"
      <4> SUFFICES ASSUME NEW l \in LaneSet, NEW i \in DOMAIN queues'[l]
                   PROVE  call'[queues'[l][i]].pc = "queued"
        OBVIOUS
      <4>1. CASE queues'[l][i] = c
        BY <2>2, <2>3, <4>1
      <4>2. CASE i \in DOMAIN queues[l] /\ queues'[l][i] = queues[l][i]
        BY <2>3, <3>4, <4>2
      <4> QED BY <3>6, <4>1, <4>2
    <3>8. \A k, l \in LaneSet : \A i \in DOMAIN queues'[k], j \in DOMAIN queues'[l] :
            queues'[k][i] = queues'[l][j] => k = l /\ i = j
      BY <3>4, <3>6 DEF LazyInv, Waits
    <3> QED BY <3>2, <3>5, <3>7, <3>8 DEF Waits, Lazy!At
  <2>5. Exclusive'
    BY <2>2, <2>3 DEF LazyInv, Exclusive, Lazy!MayBegin, Lazy!At, Task
  <2>6. \A d \in Callers : Task(call[d])'
    <3>1. ASSUME NEW d \in Callers \ {c} PROVE Task(call[d])'
      <4>1. PICK x : x = call[d]
        OBVIOUS
      <4>2. Task(x)'
        BY <4>1, TaskKept DEF LazyInv, MarksGo, ViewGo
      <4> QED BY <4>1, <4>2, <2>3
    <3>2. Task(call[c])'
      BY <2>2, <2>3
    <3> QED BY <3>1, <3>2
  <2>7. (\A d \in Callers : ~Lazy!Deleting(d))' => \A d \in Callers : ~Lazy!Deleting(d)
    BY <2>1, StaysWhole
  <2> QED BY <2>1, <2>3, <2>4, <2>5, <2>6, <2>7, CalmStep DEF LazyInv
<1> QED BY <1>2, <1>3

\* A transfer of c ends, and the first call that waits may start its own.
LEMMA EndedKeeps ==
  ASSUME LazyInv, NEW c \in Callers, NEW f, Lazy!Ended(c, f), Lazy!At(c, "fetching"), Task(f)',
         f.pc \in {"idle", "mark"}, f.pc = "idle" \/ f.op = call[c].op,
         twins \subseteq twins', twins' \subseteq Lazy!Layers,
             UNCHANGED <<remote, marks, view, torn>>
  PROVE  LazyInv'
<1>1. ~Deletes(call[c]) /\ ~Lazy!At(c, "idle") /\ ~Lazy!At(c, "queued")
  BY DEF Deletes, Lazy!At
<1>2. CASE \A l \in DOMAIN queues : queues[l] = <<>>
  <2>1. running' = None /\ Lazy!Set(c, f) /\ queues' = queues
    BY <1>2 DEF Lazy!Ended
  <2>2. Turn(c, f)
    BY <2>1, <1>1 DEF Turn
  <2> QED BY <1>1, <2>1, <2>2, CalmTurn
<1>3. CASE ~(\A l \in DOMAIN queues : queues[l] = <<>>)
  <2>1. PICK lane \in LaneSet :
          /\ queues[lane] # <<>> /\ running' = Head(queues[lane])
          /\ queues' = [queues EXCEPT ![lane] = Tail(@)]
          /\ call' = [call EXCEPT ![c] = f, ![Head(queues[lane])].pc = "fetching"]
    BY <1>3 DEF Lazy!Ended, LaneSet
  <2>2. PICK q : q = queues[lane]
    OBVIOUS
  <2>3. PICK h : h = Head(q)
    OBVIOUS
  <2>4. q \in Seq(Callers) /\ q # <<>> /\ DOMAIN queues = LaneSet
    BY <2>1, <2>2 DEF LazyInv, Waits
  <2>5. /\ h \in Callers /\ 1 \in DOMAIN q /\ q[1] = h
        /\ Tail(q) \in Seq(Callers)
        /\ \A i \in DOMAIN Tail(q) : i + 1 \in DOMAIN q /\ Tail(q)[i] = q[i + 1] /\ i \in Nat
              /\ i > 0
    BY <2>3, <2>4
  <2>6. call[h].pc = "queued" /\ h # c
    BY <1>1, <2>2, <2>5 DEF LazyInv, Waits, Lazy!At
  <2>7. PICK x : x = [call[h] EXCEPT !.pc = "fetching"]
    OBVIOUS
  <2>8. /\ DOMAIN call' = Callers /\ call'[c] = f /\ call'[h] = x
        /\ \A d \in Callers \ {c, h} : call'[d] = call[d]
    BY <2>1, <2>2, <2>3, <2>5, <2>6, <2>7 DEF LazyInv
  <2>9. PICK r : r = call[h]
    OBVIOUS
  <2>10. Task(r) /\ Ready(r) /\ x.pc = "fetching" /\ x.op = r.op
         /\ r.op \notin {"none", "dehydrate"}
    BY <2>5, <2>6, <2>7, <2>9 DEF LazyInv, Task, Ready, Answers, Fields
  <2>11. Task(x)'
    <3>1. Task(x)
      BY <2>7, <2>9, <2>10, ReadyTask
    <3> QED BY <3>1, TaskKept DEF MarksGo, ViewGo
  <2>12. \A d \in Callers : Task(call[d])'
    <3>1. ASSUME NEW d \in Callers \ {c, h} PROVE Task(call[d])'
      <4>1. PICK y : y = call[d]
        OBVIOUS
      <4>2. Task(y)'
        BY <4>1, TaskKept DEF LazyInv, MarksGo, ViewGo
      <4> QED BY <4>1, <4>2, <2>8
    <3>2. Task(call[c])' /\ Task(call[h])'
      BY <2>8, <2>11
    <3> QED BY <3>1, <3>2
  <2>13. Exclusive'
    BY <1>1, <2>5, <2>6, <2>8, <2>9, <2>10 DEF LazyInv, Exclusive, Lazy!At
  <2>14. Waits'
    <3>1. /\ DOMAIN queues' = LaneSet /\ queues'[lane] = Tail(q)
          /\ \A l \in LaneSet \ {lane} : queues'[l] = queues[l]
      BY <2>1, <2>2, <2>4
    <3>2. \A l \in LaneSet : queues'[l] \in Seq(Callers)
      BY <2>5, <3>1 DEF LazyInv, Waits
    <3>3. \A l \in LaneSet : \A i \in DOMAIN queues[l] :
            /\ call[queues[l][i]].pc = "queued" /\ queues[l][i] \in Callers
            /\ queues[l][i] = h => l = lane /\ i = 1
      BY <2>1, <2>2, <2>5 DEF LazyInv, Waits, Lazy!At
    <3>4. \A l \in LaneSet : \A i \in DOMAIN queues'[l] :
            \/ l = lane /\ i + 1 \in DOMAIN queues[l] /\ queues'[l][i] = queues[l][i + 1]
                  /\ i \in Nat /\ i > 0
            \/ l # lane /\ i \in DOMAIN queues[l] /\ queues'[l][i] = queues[l][i]
      BY <2>2, <2>5, <3>1
    <3>5. \A l \in LaneSet : \A i \in DOMAIN queues'[l] :
            queues'[l][i] \in Callers \ {c, h} /\ call[queues'[l][i]].pc = "queued"
      <4> SUFFICES ASSUME NEW l \in LaneSet, NEW i \in DOMAIN queues'[l]
                   PROVE  queues'[l][i] \in Callers \ {c, h} /\ call[queues'[l][i]].pc = "queued"
        OBVIOUS
      <4>1. CASE l = lane
        <5>1. i + 1 \in DOMAIN queues[l] /\ queues'[l][i] = queues[l][i + 1] /\ i + 1 # 1
          BY <3>4, <4>1
        <5> QED BY <1>1, <3>3, <5>1 DEF Lazy!At
      <4>2. CASE l # lane
        <5>1. i \in DOMAIN queues[l] /\ queues'[l][i] = queues[l][i]
          BY <3>4, <4>2
        <5> QED BY <1>1, <3>3, <4>2, <5>1 DEF Lazy!At
      <4> QED BY <4>1, <4>2
    <3>6. \A l \in LaneSet : \A i \in DOMAIN queues'[l] : Lazy!At(queues[l][i], "queued")'
      BY <2>8, <3>5 DEF Lazy!At
    <3>7. \A k, l \in LaneSet : \A i \in DOMAIN queues'[k], j \in DOMAIN queues'[l] :
            queues'[k][i] = queues'[l][j] => k = l /\ i = j
      <4> SUFFICES ASSUME NEW k \in LaneSet, NEW l \in LaneSet, NEW i \in DOMAIN queues'[k],
                          NEW j \in DOMAIN queues'[l], queues'[k][i] = queues'[l][j]
                   PROVE  k = l /\ i = j
        OBVIOUS
      <4>1. PICK i2 \in DOMAIN queues[k] : queues'[k][i] = queues[k][i2]
            /\ i2 = IF k = lane THEN i + 1 ELSE i
        BY <3>4
      <4>2. PICK j2 \in DOMAIN queues[l] : queues'[l][j] = queues[l][j2]
            /\ j2 = IF l = lane THEN j + 1 ELSE j
        BY <3>4
      <4>3. k = l /\ i2 = j2
        <5>1. queues[k][i2] = queues[l][j2]
          BY <4>1, <4>2
        <5>2. Waits
          BY DEF LazyInv
        <5> QED BY <5>1, <5>2 DEF Waits
      <4>4. k = lane => i \in Nat /\ j \in Nat
        BY <3>4, <4>3
      <4> QED BY <4>1, <4>2, <4>3, <4>4
    <3> QED BY <3>1, <3>2, <3>6, <3>7 DEF Waits
  <2>15. (\A d \in Callers : ~Lazy!Deleting(d))' => \A d \in Callers : ~Lazy!Deleting(d)
    BY <1>1, <2>6, <2>8 DEF Lazy!Deleting, Deletes, Lazy!At
  <2>16. running' \in Callers
    BY <2>1, <2>2, <2>3, <2>5
  <2> QED BY <2>8, <2>12, <2>13, <2>14, <2>15, <2>16, CalmStep
<1> QED BY <1>2, <1>3

\* A transfer brings the layer, or fails.
LEMMA TransferKeeps ==
  ASSUME LazyInv, NEW c \in Callers, Lazy!Transfer(c)
  PROVE  LazyInv'
<1>1. CASE Lazy!FetchFails(c)
  BY <1>1, IdleTask, EndedKeeps DEF Lazy!FetchFails, Lazy!Idle, LazyInv
<1>2. CASE Lazy!Fetched(c)
  <2>0. PICK r : r = call[c]
    OBVIOUS
  <2> DEFINE f == [r EXCEPT !.pc = "mark"]
  <2>1. /\ r.pc = "fetching" /\ Task(r) /\ Answers(r) /\ Lazy!Ended(c, f)
        /\ twins' = twins \cup {Manifests[r.ver][r.at]}
        /\ UNCHANGED <<remote, marks, view, torn>>
    BY <1>2, <2>0 DEF Lazy!Fetched, Lazy!At, LazyInv, Task
  <2>2. Manifests[r.ver][r.at] \in Lazy!Layers
    BY <2>1 DEF Task, Answers, Target, Ord, Versions, Lazy!Layers
  <2>3. Task(r)'
    BY <2>1, TaskKept DEF MarksGo, ViewGo
  <2>4. Answers(r)' /\ Live(r)'
    BY <2>1, <2>3 DEF Task
  <2>5. Answers(f)' /\ Live(f)'
    BY <2>1, <2>4 DEF Answers, Live, Marked, Target, Task, Fields
  <2>6. Task(f)'
    BY <2>1, <2>5 DEF Task, Fields, Answers
  <2>7. f.pc = "mark" /\ f.op = r.op
    BY <2>1 DEF Task, Fields
  <2> HIDE DEF f
  <2> QED BY <2>0, <2>1, <2>2, <2>6, <2>7, EndedKeeps DEF Lazy!At, LazyInv
<1> QED BY <1>1, <1>2 DEF Lazy!Transfer

\* A read of a placeholder through the view.
LEMMA ReadKeeps ==
  ASSUME LazyInv, Hypotheses, NEW c \in Callers, NEW i \in Lazy!Ordinals, Lazy!Read(c, i)
  PROVE  LazyInv'
<1>0. PICK m : m = marks
  OBVIOUS
<1> DEFINE asked == [Lazy!Idle EXCEPT !.op = "read", !.at = i, !.ver = m.ver, !.live = TRUE]
<1>1. /\ Lazy!MayBegin(c, "read") /\ view # None /\ i \in DOMAIN view.held
      /\ StateFile(m) /\ i \in Ord(m.ver) /\ marks # None
      /\ UNCHANGED <<remote, twins, marks, view, torn>>
  BY <1>0 DEF Lazy!Read, LazyInv, Ord
<1>2. /\ call[c].pc = "idle" /\ call[c].op = "none"
  BY <1>1 DEF Lazy!MayBegin, Lazy!At, LazyInv, Task
<1>3. \A d \in Callers : ~Lazy!Deleting(d)
  BY <1>1, <1>2 DEF Lazy!MayBegin, Lazy!At, Lazy!Deleting, Hypotheses
<1>4. Kept(marks)
  BY <1>1, <1>3 DEF LazyInv
<1>5. asked.live = TRUE /\ DOMAIN asked = Fields /\ asked.op = "read" /\ asked.at = i
      /\ asked.ver = m.ver /\ asked.lane \in LaneSet /\ asked.todo = {}
  BY DEF Lazy!Idle, Fields, LaneSet, Lazy!Lanes
<1>6. ViewOK /\ i \in Ord(view.ver)
  BY <1>1 DEF LazyInv, ViewOK
<1> HIDE DEF asked
<1>7. Ready(asked)
  BY <1>0, <1>1, <1>4, <1>5, <1>6 DEF Ready, Live, Answers, Marked, Target, StateFile
<1>8. CASE i \notin m.done
  BY <1>0, <1>1, <1>2, <1>5, <1>7, <1>8, ScheduleKeeps DEF Lazy!Read, Lazy!At, Deletes, asked
<1>9. CASE i \in m.done
  <2> DEFINE f == [asked EXCEPT !.pc = "answer"]
  <2>1. Lazy!Set(c, f) /\ queues' = queues /\ running' = running
    BY <1>0, <1>9 DEF Lazy!Read, asked
  <2>2. f.pc = "answer" /\ f.op = "read" /\ DOMAIN f = Fields
    BY <1>5 DEF Fields
  <2>3. Answers(f) /\ Live(f)
    BY <1>5, <1>7 DEF Ready, Answers, Live, Marked, Target, Fields
  <2>4. f.ver \in Versions /\ f.lane \in LaneSet /\ f.live \in BOOLEAN
    BY <1>5, <1>7 DEF Ready, Fields
  <2>5. PICK x : x = f
    OBVIOUS
  <2>6. Task(x)
    BY <2>2, <2>3, <2>4, <2>5 DEF Task
  <2>7. Task(x)'
    BY <1>1, <2>6, TaskKept DEF MarksGo, ViewGo
  <2>8. Turn(c, x) /\ ~Deletes(call[c])
    BY <1>1, <1>2, <2>1, <2>2, <2>5, <2>7 DEF Turn, Lazy!MayBegin, Lazy!At, Deletes
  <2> HIDE DEF f
  <2> QED BY <1>1, <2>1, <2>8, CalmTurn DEF LazyInv
<1> QED BY <1>8, <1>9

-----------------------------------------------------------------------------
(* hydrate and dehydrate take their targets in order                       *)

\* The one step that takes layers away has nobody beside it.
LEMMA NextKeeps ==
  ASSUME LazyInv, Hypotheses, NEW c \in Callers, Lazy!Next_(c)
  PROVE  LazyInv'
<1>0. PICK r : r = call[c]
  OBVIOUS
<1>1. /\ r.pc = "next" /\ Task(r) /\ Picking(r) /\ r.ver \in Versions /\ Marked(r)
      /\ r.todo \subseteq Ord(r.ver) /\ UNCHANGED <<remote, marks, view, torn>>
  BY <1>0 DEF Lazy!Next_, Lazy!At, LazyInv, Task, Picking
<1>2. r.op \in {"hydrate", "dehydrate"}
  BY <1>1 DEF Picking, Evicting
<1>3. CASE r.todo # {}
  <2>1. PICK i \in r.todo :
          IF r.op = "hydrate"
          THEN Lazy!Schedule(c, [r EXCEPT !.at = i, !.todo = @ \ {i}]) /\ UNCHANGED twins
          ELSE /\ twins' = twins \ {Manifests[r.ver][i]}
               /\ Lazy!Set(c, [r EXCEPT !.todo = @ \ {i}, !.got = @ \cup {i}])
               /\ UNCHANGED <<queues, running>>
    BY <1>0, <1>3 DEF Lazy!Next_
  <2>3. CASE r.op = "hydrate"
    <3> DEFINE task == [r EXCEPT !.at = i, !.todo = @ \ {i}]
    <3>1. /\ DOMAIN task = Fields /\ task.ver = r.ver /\ task.lane = r.lane /\ task.op = "hydrate"
          /\ task.live = r.live /\ task.at = i /\ task.todo \subseteq Ord(r.ver)
      BY <1>1, <2>3 DEF Task, Fields
    <3>2. Kept(marks) /\ ~r.live /\ r.live \in BOOLEAN /\ r.lane \in LaneSet
      BY <1>1, <2>3 DEF Picking, Evicting, Task, Live
    <3> HIDE DEF task
    <3>3. Ready(task)
      BY <1>1, <2>1, <3>1, <3>2 DEF Ready, Live, Answers, Marked, Target
    <3>4. Lazy!Schedule(c, task) /\ UNCHANGED twins
      BY <2>1, <2>3 DEF task
    <3> QED BY <1>0, <1>1, <2>3, <3>1, <3>3, <3>4, ScheduleKeeps DEF Lazy!At, Deletes
  <2>4. CASE r.op = "dehydrate"
    <3> DEFINE f == [r EXCEPT !.todo = @ \ {i}, !.got = @ \cup {i}]
    <3>1. /\ twins' = twins \ {Manifests[r.ver][i]} /\ Lazy!Set(c, f)
          /\ UNCHANGED <<queues, running>> /\ i \in r.todo
      BY <2>1, <2>4
    <3>2. /\ r.ver = marks.ver /\ r.got \subseteq Ord(r.ver) /\ r.any
          /\ Lazy!LayersOf(r.ver, marks.done \ r.got) \subseteq twins
      BY <1>1, <1>3, <2>4 DEF Picking, Evicting
    <3>3. /\ f.pc = "next" /\ f.op = "dehydrate" /\ DOMAIN f = Fields /\ f.ver = r.ver
          /\ f.todo \subseteq Ord(r.ver) /\ f.got = r.got \cup {i} /\ f.any = r.any
          /\ f.live = r.live /\ f.lane = r.lane
      BY <1>1, <2>4 DEF Task, Fields
    <3>4. Lazy!LayersOf(r.ver, marks.done \ (r.got \cup {i})) \subseteq twins'
      BY <1>1, <3>1, <3>2 DEF Lazy!LayersOf, Hypotheses, Distinct, Marked, StateFile, Ord
    <3>5. Evicting(f)'
      BY <1>1, <3>1, <3>2, <3>3, <3>4 DEF Evicting
    <3>6. Picking(f)'
      BY <1>1, <3>2, <3>3, <3>5 DEF Picking, Marked, StateFile
    <3>7. Task(f)'
      <4>1. ~r.live /\ r.live \in BOOLEAN /\ r.lane \in LaneSet
        BY <1>1, <2>4 DEF Task, Live
      <4> QED BY <1>1, <3>3, <3>6, <4>1 DEF Task, Live
    <3>8. Turn(c, f)
      BY <1>0, <1>1, <2>4, <3>1, <3>3, <3>7 DEF Turn, Lazy!At
    <3>9. \A d \in Callers \ {c} : call[d].op = "none" /\ call[d].pc = "idle" /\ Task(call[d])
      BY <1>0, <1>1, <2>4 DEF LazyInv, Exclusive, Lazy!At, Task, Hypotheses
    <3>10. Others(c)
      <4> SUFFICES ASSUME NEW d \in Callers \ {c}, NEW q, q = call[d] PROVE Task(q)'
        BY DEF Others
      <4>1. Task(q) /\ q.pc = "idle" /\ q.op = "none"
        BY <3>9
      <4>2. Live(q)'
        BY <4>1 DEF Task, Live
      <4> QED BY <4>1, <4>2 DEF Task
    <3> HIDE DEF f
    <3>11. /\ DOMAIN call' = Callers /\ (\A d \in Callers : Task(call[d])')
           /\ Exclusive' /\ Waits'
      BY <3>8, <3>10, Turned
    <3>12. Lazy!Deleting(c)'
      <4>1. call'[c] = f
        BY <3>1 DEF Lazy!Set, LazyInv
      <4> QED BY <3>3, <4>1 DEF Lazy!Deleting, Lazy!At
    <3>13. (marks # None => StateFile(marks))' /\ (view # None => ViewOK)'
      BY <1>1 DEF LazyInv, StateFile, ViewOK, OwnLayers
    <3>14. twins' \subseteq Lazy!Layers
      BY <3>1 DEF LazyInv
    <3> QED BY <1>1, <3>1, <3>11, <3>12, <3>13, <3>14 DEF LazyInv, Whole
  <2> QED BY <1>2, <2>3, <2>4
<1>4. CASE r.todo = {}
  <2>1. UNCHANGED <<remote, twins, marks, view, queues, running, torn>>
    BY <1>0, <1>1, <1>4 DEF Lazy!Next_
  <2>2. CASE r.op = "dehydrate" /\ r.any
    <3> DEFINE f == [r EXCEPT !.pc = "unmark"]
    <3>1. Lazy!Set(c, f)
      BY <1>0, <1>4, <2>2 DEF Lazy!Next_, Lazy!Goto, Lazy!Set
    <3>2. Evicting(r)
      BY <1>1, <2>2 DEF Picking
    <3>3. Evicting(f)' /\ Marked(f)'
      BY <1>1, <2>1, <3>2 DEF Evicting, Marked, StateFile, Task, Fields
    <3>4. Task(f)'
      BY <1>1, <2>2, <3>3 DEF Task, Fields, Live
    <3>5. Turn(c, f) /\ Deletes(f)
      BY <1>0, <1>1, <2>1, <2>2, <3>1, <3>4 DEF Turn, Lazy!At, Deletes, Task, Fields
    <3> HIDE DEF f
    <3> QED BY <2>1, <3>5, CalmTurn DEF LazyInv
  <2>3. CASE r.op = "hydrate" /\ r.any /\ view # None
    <3> DEFINE f == [r EXCEPT !.pc = "remount"]
    <3>1. Lazy!Set(c, f)
      BY <1>0, <1>4, <2>3 DEF Lazy!Next_, Lazy!Goto, Lazy!Set
    <3>2. Marked(f)'
      BY <1>1, <2>1 DEF Marked, StateFile, Task, Fields
    <3>3. Task(f)'
      BY <1>1, <2>3, <3>2 DEF Task, Fields, Live
    <3>4. Turn(c, f) /\ ~Deletes(call[c])
      BY <1>0, <1>1, <2>1, <2>3, <3>1, <3>3 DEF Turn, Lazy!At, Deletes, Task, Fields
    <3> HIDE DEF f
    <3> QED BY <2>1, <3>4, CalmTurn DEF LazyInv
  <2>4. CASE Lazy!Throws(c) /\ r.op = "hydrate"
    BY <1>0, <1>1, <2>1, <2>4, ThrowKeeps DEF Lazy!At, Deletes
  <2>5. CASE Lazy!Throws(c) /\ r.op = "dehydrate" /\ ~r.any
    <3>1. Kept(marks) /\ StateFile(marks)
      BY <1>1, <2>5 DEF Picking, Evicting, Marked, Kept
    <3>2. StateFile(marks)' /\ Kept(marks)'
      BY <2>1, <3>1 DEF StateFile, Kept
    <3>3. Turn(c, Lazy!Idle) /\ ~Lazy!At(c, "idle")
      BY <1>0, <1>1, <2>1, <2>5, IdleTask DEF Turn, Lazy!At, Lazy!Idle, Lazy!Throws
    <3> QED BY <2>1, <3>2, <3>3, WriteStep DEF Hypotheses
  <2>6. Lazy!Throws(c) \/ (r.op = "dehydrate" /\ r.any) \/ (r.any /\ view # None)
    BY <1>0, <1>4 DEF Lazy!Next_
  <2> QED BY <1>0, <1>2, <1>4, <2>2, <2>3, <2>4, <2>5, <2>6 DEF Lazy!Next_
<1> QED BY <1>3, <1>4

-----------------------------------------------------------------------------
(* The steps together, and the beginning                                  *)

\* Nothing is pulled, mounted or under way.
LEMMA LazyStart == Lazy!Init => LazyInv
<1> SUFFICES ASSUME Lazy!Init PROVE LazyInv
  OBVIOUS
<1>1. remote \in Versions
  BY BytesAssumption DEF Lazy!HydrationAssumption, Lazy!Init, Versions
<1>2. \A c \in Callers : Task(call[c])
  BY IdleTask DEF Lazy!Init
<1>3. Waits
  BY DEF Lazy!Init, Waits, LaneSet
<1>4. Exclusive
  BY DEF Lazy!Init, Exclusive, Lazy!At, Lazy!Idle
<1> QED BY <1>1, <1>2, <1>3, <1>4 DEF Lazy!Init, LazyInv

\* The remote moves on; a crash forgets calls and view, and says so in torn.
LEMMA SurroundingsKeep ==
  ASSUME LazyInv, Lazy!Publish \/ Lazy!Crash
  PROVE  LazyInv'
<1>1. (\A c \in Callers : call'[c] = call[c] \/ call'[c] = Lazy!Idle) /\ DOMAIN call' = Callers
  BY DEF Lazy!Publish, Lazy!Crash, LazyInv
<1>2. CASE Lazy!Publish
  <2>1. UNCHANGED <<twins, marks, view, call, queues, running, torn>>
    BY <1>2 DEF Lazy!Publish
  <2>2. remote' \in Versions
    BY <1>2, BytesAssumption DEF Lazy!HydrationAssumption, Lazy!Publish, LazyInv, Versions
  <2>3. \A d \in Callers : Task(call[d])'
    <3> TAKE d \in Callers
    <3>1. PICK x : x = call[d]
      OBVIOUS
    <3>2. Task(x)'
      BY <2>1, <3>1, TaskKept DEF LazyInv, MarksGo, ViewGo
    <3> QED BY <2>1, <3>1, <3>2
  <2>4. Exclusive' /\ Waits'
    BY <2>1 DEF LazyInv, Exclusive, Waits, Lazy!At
  <2>5. (\A d \in Callers : ~Lazy!Deleting(d))' => \A d \in Callers : ~Lazy!Deleting(d)
    BY <2>1 DEF Lazy!Deleting, Lazy!At
  <2>6. Kept(marks) => Kept(marks)'
    BY <2>1 DEF Kept
  <2>7. (marks # None => StateFile(marks))' /\ (view # None => ViewOK)'
    BY <2>1 DEF LazyInv, StateFile, ViewOK, OwnLayers
  <2> QED BY <1>1, <2>1, <2>2, <2>3, <2>4, <2>5, <2>6, <2>7 DEF LazyInv, Whole
<1>3. CASE Lazy!Crash
  <2>1. /\ torn' = (torn \/ \E c \in Callers : Lazy!Deleting(c)) /\ view' = None
        /\ call' = [c \in Callers |-> Lazy!Idle] /\ queues' = [l \in DOMAIN queues |-> <<>>]
        /\ running' = None /\ UNCHANGED <<remote, twins, marks>>
    BY <1>3 DEF Lazy!Crash
  <2>2. \A d \in Callers : Task(call[d])'
    BY <2>1, IdleTask
  <2>3. Exclusive' /\ Waits'
    BY <2>1 DEF LazyInv, Exclusive, Waits, Lazy!At, Lazy!Idle
  <2>4. (marks # None /\ Whole)' => Kept(marks)'
    BY <2>1 DEF LazyInv, Whole, Kept
  <2>5. (marks # None => StateFile(marks))'
    BY <2>1 DEF LazyInv, StateFile
  <2> QED BY <1>1, <2>1, <2>2, <2>3, <2>4, <2>5 DEF LazyInv
<1> QED BY <1>2, <1>3

\* Every step keeps the invariant.
LEMMA LazyStays ==
  ASSUME Hypotheses, LazyInv, [Lazy!Next]_(Lazy!vars)
  PROVE  LazyInv'
<1>1. ASSUME NEW c \in Callers, Lazy!Start(c) \/ Lazy!Work(c) \/ Lazy!Transfer(c) PROVE LazyInv'
  BY <1>1, PullKeeps, BeginKeeps, LoadKeeps, RemountKeeps, MarkKeeps, MarkWriteKeeps, UnmarkKeeps,
     UnmarkWriteKeeps, AnswerKeeps, MountKeeps, TransferKeeps, ReadKeeps, NextKeeps
         DEF Lazy!Start, Lazy!Work
<1>2. CASE UNCHANGED Lazy!vars
  <2>1. \A d \in Callers : Task(call[d])'
    <3> TAKE d \in Callers
    <3>1. PICK x : x = call[d]
      OBVIOUS
    <3>2. Task(x)'
      BY <1>2, <3>1, TaskKept DEF Lazy!vars, LazyInv, MarksGo, ViewGo
    <3> QED BY <1>2, <3>1, <3>2 DEF Lazy!vars
  <2> QED BY <1>2, <2>1 DEF Lazy!vars, LazyInv, Exclusive, Waits, Whole, Lazy!Deleting, Lazy!At,
      Kept, StateFile,
       ViewOK, OwnLayers
<1> QED BY <1>1, <1>2, SurroundingsKeep DEF Lazy!Next

\* A layer marked hydrated is in the store unless a dehydrate is under way or was
\* cut off (hydration.ts:547-579, 598-628), whatever transfers, reads and crashes
\* overlap.
THEOREM MarkedIsPresent ==
  ASSUME Hypotheses
  PROVE  Lazy!Spec => []Lazy!HydratedIsPresent
<1>1. LazyInv /\ [Lazy!Next]_(Lazy!vars) => LazyInv'
  BY LazyStays
<1>2. LazyInv => Lazy!HydratedIsPresent
  BY DEF LazyInv, Lazy!HydratedIsPresent, Whole, Kept
<1> QED BY <1>1, <1>2, LazyStart, PTL DEF Lazy!Spec

\* Where refs only grow, a slot of the view never holds the bytes of another
\* layer either (view.ts:97-102, hydration.ts:582-591).
THEOREM LayersAreHeld ==
  ASSUME Hypotheses, Lazy!Grows
  PROVE  Lazy!Spec => []LayersHeld
<1>1. LazyInv /\ [Lazy!Next]_(Lazy!vars) => LazyInv'
  BY LazyStays
<1>2. LazyInv => LayersHeld
  BY DEF LazyInv, LayersHeld, Lazy!TypeOK, Lazy!HydratedIsPresent, Lazy!ViewHoldsOwnLayers,
     Whole, Kept, StateFile, ViewOK, OwnLayers, Versions, Ord
<1> QED BY <1>1, <1>2, LazyStart, PTL DEF Lazy!Spec
=============================================================================
