--------------------------- MODULE EncryptedStore ---------------------------
(***************************************************************************)
(* The block store under every protected file system: EncryptedStore of    *)
(* src/storage/encrypted-store.ts.  Writes change the plaintext cache at   *)
(* once and are encrypted and persisted later, one after another, by a     *)
(* chain of promises; the first failure is remembered and refuses every    *)
(* later write; flush() waits for the chain.  The lease may come and go at *)
(* any time, and a remount starts again from what was persisted.           *)
(* Encryption is abstracted: the inner store holds what a block decrypts   *)
(* to, and encrypting is an await during which the lease may be lost.      *)
(***************************************************************************)
EXTENDS Naturals, Sequences

CONSTANTS Ids,        \* block identifiers
          Values,     \* plaintext block contents
          None,       \* no block
          MaxPending  \* bound: writes accepted and not yet settled

ASSUME StoreAssumption == None \notin Values /\ MaxPending \in Nat \ {0}

VARIABLES plain,     \* the plaintext cache (its domain is `ids')
          inner,     \* the blocks of the backing store
          jobs,      \* accepted writes not yet settled, oldest first
          stage,     \* how far the oldest one is
          failed,    \* rememberFailure was called in this mount
          access,    \* assertAccess() would return
          reading,   \* the get() that awaits the inner store
          flush,     \* the sync() call: how far, or how it settled
          ahead,     \* jobs of the chain whose end sync() awaits
          intent,    \* history: the block as the last accepted write left it
          removed,   \* history: blocks deleted in this mount
          dropped,   \* history: an accepted write was not persisted
          owed,      \* history: jobs accepted before the flush, unsettled
          owedLost   \* history: one of them was not persisted

cacheVars == <<plain, reading>>
queueVars == <<inner, jobs, stage, failed>>
flushVars == <<flush, ahead, owed, owedLost>>
history == <<intent, removed, dropped>>
vars == <<cacheVars, queueVars, access, flushVars, history>>

Block == Values \cup {None}
Job == [id : Ids, value : Block]      \* value None: a delete
NotReading == [id |-> None, raw |-> None]
Reading == [id : Ids, raw : Block]
Flushing == {"draining", "syncing"}

\* warm(): every persisted block is decrypted into the cache.
Mounted == /\ plain' = inner /\ intent' = inner
           /\ jobs' = <<>> /\ stage' = "waiting" /\ failed' = FALSE
           /\ reading' = NotReading /\ flush' = "none" /\ ahead' = 0
           /\ removed' = {} /\ dropped' = FALSE /\ owed' = 0 /\ owedLost' = FALSE

Init == /\ inner \in [Ids -> Block] /\ plain = inner /\ intent = inner
        /\ jobs = <<>> /\ stage = "waiting" /\ failed = FALSE /\ access = TRUE
        /\ reading = NotReading /\ flush = "none" /\ ahead = 0
        /\ removed = {} /\ dropped = FALSE /\ owed = 0 /\ owedLost = FALSE

Writable == access /\ ~failed   \* assertWritable() returns

-----------------------------------------------------------------------------
(* set, delete, get                                                         *)

Enqueue_Front(id, v) == \* faulty: the latest write overtakes the chain
  Len(jobs) < MaxPending /\ jobs' = <<[id |-> id, value |-> v]>> \o jobs
Enqueue(id, v) == Len(jobs) < MaxPending /\ jobs' = Append(jobs, [id |-> id, value |-> v])

Set(id, v) ==
  /\ Writable /\ Enqueue(id, v)
  /\ plain' = [plain EXCEPT ![id] = v]
  /\ intent' = [intent EXCEPT ![id] = v]
  /\ UNCHANGED <<reading, inner, stage, failed, access, flushVars, removed, dropped>>

Delete(id) ==
  /\ Writable /\ Enqueue(id, None)
  /\ plain' = [plain EXCEPT ![id] = None]
  /\ intent' = [intent EXCEPT ![id] = None]
  /\ removed' = removed \cup {id}
  /\ UNCHANGED <<reading, inner, stage, failed, access, flushVars, dropped>>

\* get() of a block that is not cached reads the inner store ...
GetMiss(id) ==
  /\ access /\ plain[id] = None /\ reading = NotReading
  /\ reading' = [id |-> id, raw |-> inner[id]]
  /\ UNCHANGED <<plain, queueVars, access, flushVars, history>>

\* ... and caches what it read, whatever was set or deleted meanwhile, unless
\* decode() rejects (the lease was lost, or the block does not decrypt).
GetReturns ==
  /\ reading # NotReading
  /\ \/ reading.raw # None /\ plain' = [plain EXCEPT ![reading.id] = reading.raw]
     \/ UNCHANGED plain
  /\ reading' = NotReading
  /\ UNCHANGED <<queueVars, access, flushVars, history>>

-----------------------------------------------------------------------------
(* The persistence chain: the job at its head                               *)

Oldest == Head(jobs)
Applied == [inner EXCEPT ![Oldest.id] = Oldest.value]

\* The job leaves the chain; `saved' says whether it was persisted.
SettleJob(saved) ==
  /\ jobs' = Tail(jobs) /\ stage' = "waiting"
  /\ ahead' = IF ahead > 0 THEN ahead - 1 ELSE 0
  /\ owed' = IF owed > 0 THEN owed - 1 ELSE 0
  /\ owedLost' = (owedLost \/ (~saved /\ owed > 0))
  /\ dropped' = (dropped \/ ~saved)
  /\ UNCHANGED <<cacheVars, access, flush, intent, removed>>

StartJob_Unchecked == \* faulty: a queued job runs whatever failed before it
  /\ jobs # <<>> /\ stage = "waiting"
  /\ stage' = IF Oldest.value = None THEN "writing" ELSE "encrypting"
  /\ UNCHANGED <<cacheVars, inner, jobs, failed, access, flushVars, history>>
StartJob ==
  /\ jobs # <<>> /\ stage = "waiting" /\ Writable
  /\ stage' = IF Oldest.value = None THEN "writing" ELSE "encrypting"
  /\ UNCHANGED <<cacheVars, inner, jobs, failed, access, flushVars, history>>

\* Encrypted, and the lease is still held: the inner write is issued.
Encrypted ==
  /\ jobs # <<>> /\ stage = "encrypting" /\ access
  /\ stage' = "writing"
  /\ UNCHANGED <<cacheVars, inner, jobs, failed, access, flushVars, history>>

JobSaved ==
  /\ jobs # <<>> /\ stage = "writing"
  /\ inner' = Applied /\ UNCHANGED failed
  /\ SettleJob(TRUE)

\* The job rejects: refused at its start, the key or the lease gone while it
\* was encrypted, or an inner write error (which may follow the write).  The
\* chain goes on, and rememberFailure refuses everything after it.
JobRejects_NotSettled == \* faulty: a job refused at its start never settles
  /\ jobs # <<>>
  /\ \/ stage = "encrypting" /\ UNCHANGED inner
     \/ stage = "writing" /\ inner' \in {inner, Applied}
  /\ failed' = TRUE
  /\ SettleJob(FALSE)
JobRejects ==
  /\ jobs # <<>>
  /\ \/ stage = "waiting" /\ ~Writable /\ UNCHANGED inner
     \/ stage = "encrypting" /\ UNCHANGED inner
     \/ stage = "writing" /\ inner' \in {inner, Applied}
  /\ failed' = TRUE
  /\ SettleJob(FALSE)

-----------------------------------------------------------------------------
(* sync(), which flush() calls                                              *)

FlushCall ==
  /\ flush \notin Flushing
  /\ flush' = "draining" /\ ahead' = Len(jobs)
  /\ owed' = Len(jobs) /\ owedLost' = FALSE
  /\ UNCHANGED <<cacheVars, queueVars, access, history>>

\* The awaited end of the chain has settled: drain what was queued since,
\* else check the lease and the remembered failure, in that order.
FlushDrained_IgnoreFailure == \* faulty: a failure of the drained chain is not rethrown
  /\ flush = "draining" /\ ahead = 0
  /\ IF jobs # <<>>
     THEN ahead' = Len(jobs) /\ UNCHANGED flush
     ELSE flush' = (IF access THEN "syncing" ELSE "rejected") /\ UNCHANGED ahead
  /\ UNCHANGED <<cacheVars, queueVars, access, owed, owedLost, history>>
FlushDrained ==
  /\ flush = "draining" /\ ahead = 0
  /\ IF jobs # <<>>
     THEN ahead' = Len(jobs) /\ UNCHANGED flush
     ELSE flush' = (IF Writable THEN "syncing" ELSE "rejected") /\ UNCHANGED ahead
  /\ UNCHANGED <<cacheVars, queueVars, access, owed, owedLost, history>>

\* inner.sync() returns, or fails and is remembered.
FlushSynced ==
  /\ flush = "syncing"
  /\ \/ flush' = "ok" /\ UNCHANGED failed
     \/ flush' = "rejected" /\ failed' = TRUE
  /\ UNCHANGED <<cacheVars, inner, jobs, stage, access, ahead, owed, owedLost, history>>

-----------------------------------------------------------------------------
SetAccess == access' = ~access /\ UNCHANGED <<cacheVars, queueVars, flushVars, history>>

\* The process dies, or the mount is dropped: the next one warms its cache.
Remount == Mounted /\ UNCHANGED <<inner, access>>

Accept == \E id \in Ids : Delete(id) \/ \E v \in Values : Set(id, v)
Step == GetReturns \/ StartJob \/ Encrypted \/ JobSaved \/ JobRejects
        \/ FlushDrained \/ FlushSynced
Next == Accept \/ (\E id \in Ids : GetMiss(id)) \/ Step \/ FlushCall \/ SetAccess \/ Remount

Spec == Init /\ [][Next]_vars

\* The chain of promises and a flush that may go on do go on.
Fairness == /\ WF_vars(StartJob \/ Encrypted \/ JobSaved \/ JobRejects)
            /\ WF_vars(FlushDrained \/ FlushSynced)
FairSpec == Spec /\ Fairness

-----------------------------------------------------------------------------
(* Properties                                                               *)

TypeOK ==
  /\ plain \in [Ids -> Block] /\ inner \in [Ids -> Block] /\ intent \in [Ids -> Block]
  /\ jobs \in Seq(Job) /\ stage \in {"waiting", "encrypting", "writing"}
  /\ failed \in BOOLEAN /\ access \in BOOLEAN
  /\ reading \in Reading \cup {NotReading}
  /\ flush \in Flushing \cup {"none", "ok", "rejected"}
  /\ ahead \in Nat /\ owed \in Nat /\ owedLost \in BOOLEAN
  /\ removed \subseteq Ids /\ dropped \in BOOLEAN

\* Until a write is lost, each block is persisted or will be as its last
\* accepted write left it, although encryption times vary
\* ("Persistence keeps write order", encrypted-store.ts:158).
LastFor(id, i) == jobs[i].id = id /\ \A j \in DOMAIN jobs : j > i => jobs[j].id # id
PersistedInOrder ==
  ~dropped => \A id \in Ids :
    /\ \A i \in DOMAIN jobs : LastFor(id, i) => jobs[i].value = intent[id]
    /\ (\A i \in DOMAIN jobs : jobs[i].id # id) => inner[id] = intent[id]

\* Once an accepted write is lost nothing later is persisted: what a remount
\* finds is a prefix of the accepted writes, never one with a gap
\* (assertWritable in enqueue, encrypted-store.ts:180-190).
NoGap == [][dropped => inner' = inner]_vars

\* A flush that succeeds has seen every write accepted before it persisted
\* (sync, encrypted-store.ts:192-207).
FlushMeansSaved == flush = "ok" => owed = 0 /\ ~owedLost

\* "a caller closing the mount must not release its writer lock while an
\* earlier backing write is still in flight" (encrypted-store.ts:193-194):
\* a flush rejected by a lost lease or an earlier failure drains first.
RejectedFlushDrained ==
  [][flush = "draining" /\ flush' = "rejected" => jobs = <<>>]_vars

\* "the next stat/read must already see it" (encrypted-store.ts:134-135): a
\* block not deleted in this mount is cached as the last write left it, also
\* when a get() that missed the cache returns later.
CacheServesWrites == \A id \in Ids \ removed : plain[id] = intent[id]

\* If writers pause, a flush settles, whatever fails or locks.
FlushSettles == <>[][~Accept]_vars => (flush \in Flushing ~> flush \notin Flushing)
=============================================================================
