------------------------ MODULE StorageSessionProofs ------------------------
(* Proofs about the storage session: what is at work on a vault is at work on  *)
(* the session's own, and recover, reset and close release it only when        *)
(* nothing is.  The inductive invariant says which of the phases of opening    *)
(* and of the one teardown job go together; liveness is left to TLC.           *)
EXTENDS StorageSession, TLAPS

Stage == {"dispose", "ops", "handles", "vault"}

\* Vaults are used in order; only the session's own is open.
Vaults ==
  /\ \E n \in 0..MaxMounts : \A m \in Mounts : vault[m].st = "unused" <=> m > n
  /\ \A m \in Mounts : vault[m].st = "open" <=> m = ses.info
  /\ \A m \in given : vault[m].st # "unused"

\* A mount is the session's from the moment that openBrowserVault returns until
\* clear(), and reaches callers only when the opening has settled.
Present ==
  /\ ses.live \in {NoMount, ses.info}
  /\ ses.info # NoMount <=> ses.opening \in {"mkdir", "persist", "undo", "ready"}
  /\ ses.opening \in {"mkdir", "persist", "undo"} => ses.info \notin given
  /\ ses.opening = "vault" => Unused # {}

\* The tail of an open() that a recovery has overtaken still holds its old mount.
Tails ==
  \A c \in Callers : caller[c].pc \in {"adopt", "flush", "offline"} =>
     /\ caller[c].mount \in Mounts /\ vault[caller[c].mount].st # "unused"
     /\ caller[c].mount = ses.info => ses.opening = "ready"

\* One job at a time owns the teardown; its flags, its step and the opening agree.
Jobs ==
  /\ job.kind = "none" <=> job.pc = "none"
  /\ job.kind = "close" <=> ses.closing
  /\ job.kind = "recover" <=> ses.recovery = "running"
  /\ job.kind = "reset" => ses.resetting
  /\ job.kind \in {"none", "recover"} => job.pc # "opening"
  /\ job.kind = "recover" /\ job.pc \notin {"initialize", "offline"} =>
       ses.opening = "ready" /\ Unused # {}
  /\ job.kind = "recover" /\ job.pc \in Stage => ses.live = NoMount
  /\ job.pc = "initialize" <=> job.kind = "recover" /\ Promised
  /\ job.pc = "offline" => job.kind = "recover" /\ ses.opening = "ready"
  /\ job.pc \in {"keys"} \cup Stage => ~Promised
  /\ job.pc \in {"adopt", "flush"} => job.kind = "recover"
  /\ job.pc = "keys" => job.kind = "reset"

\* What passed the gate works on the session's vault.
Work ==
  /\ \A o \in Ops : op[o].pc # "idle" => op[o].mount \in given /\ op[o].mount = ses.info
  /\ \A h \in Handles : handle[h].st \in {"open", "closing"} => handle[h].mount \in given /\ handle[h].mount = ses.info

\* A teardown waits for all operations, then closes all files, then the vault.
Drained ==
  /\ job.pc = "ops" => \A o \in Ops : op[o].pc # "idle" => o \in job.wait
  /\ job.pc \in {"handles", "vault"} => \A o \in Ops : op[o].pc = "idle"
  /\ job.pc = "handles" =>
       \A h \in Handles : handle[h].st # "open" /\ (handle[h].st = "closing" => h \in job.wait)
  /\ job.pc = "vault" => \A h \in Handles : handle[h].st \notin {"open", "closing"}

IInv == TypeOK /\ Vaults /\ Present /\ Tails /\ Jobs /\ Work /\ Drained

LEMMA InitIInv == ASSUME SessionAssumption, Init PROVE IInv
<1>1. TypeOK
  BY DEF Init, TypeOK, Session, Vault, Caller, Op, Handle, ConsumerState, Job, NoJob, IdleCaller,
         IdleOp, NoHandle, Mount, Mounts, NoMount
<1>2. Vaults
  <2>1. \A m \in Mounts : vault[m].st = "unused" /\ m > 0
    BY DEF Init, Mounts
  <2>2. 0 \in 0..MaxMounts
    BY DEF SessionAssumption
  <2>3. \A m \in Mounts : vault[m].st # "open" /\ m # ses.info
    BY <2>1 DEF Init, NoMount
  <2>4. given = {}
    BY DEF Init
  <2> QED BY <2>1, <2>2, <2>3, <2>4 DEF Vaults
<1>3. Present /\ Jobs
  BY DEF Init, Present, Jobs, Promised, Stage, NoJob, NoMount
<1>4. Tails /\ Work /\ Drained
  BY DEF Init, Tails, Work, Drained, NoJob, IdleCaller, IdleOp, NoHandle
<1> QED BY <1>1, <1>2, <1>3, <1>4 DEF IInv

LEMMA FailedTyped ==
  ASSUME NEW s \in Session, NEW m \in Mount
  PROVE  /\ Failed(s, m) \in Session
         /\ Failed(s, m).live = s.live /\ Failed(s, m).info = s.info /\ Failed(s, m).opening = s.opening
         /\ Failed(s, m).closing = s.closing /\ Failed(s, m).recovery = s.recovery /\ Failed(s, m).resetting = s.resetting
  BY DEF Failed, Session

LEMMA ClearedTyped ==
  ASSUME NEW s \in Session
  PROVE  /\ Cleared(s) \in Session
         /\ Cleared(s).live = NoMount /\ Cleared(s).info = NoMount /\ Cleared(s).opening = "none"
         /\ Cleared(s).closing = s.closing /\ Cleared(s).recovery = s.recovery /\ Cleared(s).resetting = s.resetting
         /\ Cleared(s).failure = s.failure
  BY DEF Cleared, Session, Mount

LEMMA RecoverEndsTyped ==
  ASSUME NEW s \in Session, RecoverEnds(s)
  PROVE  /\ ses' \in Session /\ job' \in Job
         /\ ses'.live = s.live /\ ses'.info = s.info /\ ses'.opening = s.opening
         /\ ses'.recovery = "none" /\ ses'.resetting = s.resetting
         /\ ses'.failure = s.failure
         /\ \/ job' = NoJob /\ ses'.closing = s.closing
            \/ job' = [kind |-> "close", pc |-> "opening", wait |-> {}] /\ ses'.closing
<1> DEFINE t == [s EXCEPT !.recovery = "none", !.barred = NoMount]
<1>1. /\ t \in Session /\ t.live = s.live /\ t.info = s.info /\ t.opening = s.opening
      /\ t.recovery = "none" /\ t.resetting = s.resetting /\ t.failure = s.failure /\ t.closing = s.closing
  BY DEF Session, Mount
<1>2. NoJob \in Job /\ [kind |-> "close", pc |-> "opening", wait |-> {}] \in Job
  BY DEF Job, NoJob
<1>3. CASE s.closeNext
  <2>1. BeginClose(t)
    BY <1>3 DEF RecoverEnds
  <2> HIDE DEF t
  <2>2. ses' = [t EXCEPT !.closing = TRUE, !.closeNext = FALSE] /\ job' = [kind |-> "close", pc |-> "opening", wait |-> {}]
    BY <2>1 DEF BeginClose
  <2> QED BY <1>1, <1>2, <2>2 DEF Session
<1>4. CASE ~s.closeNext
  BY <1>1, <1>2, <1>4 DEF RecoverEnds
<1> QED BY <1>3, <1>4

LEMMA RejectedTyped ==
  ASSUME caller \in [Callers -> Caller]
  PROVE  /\ Rejected \in [Callers -> Caller]
         /\ \A c \in Callers : Rejected[c].pc # "idle" => Rejected[c] = caller[c]
  BY DEF Rejected, Caller, IdleCaller, Mount

LEMMA DisposeTyped ==
  ASSUME consumer \in [Consumers -> ConsumerState], NEW kind \in {"recover", "reset", "close"}, Dispose(kind)
  PROVE  /\ consumer' \in [Consumers -> ConsumerState]
         /\ job' \in Job /\ job'.kind = kind /\ job'.pc = "dispose"
  BY DEF Dispose, Registered, InUse, Job, ConsumerState

LEMMA NextMountFresh ==
  ASSUME SessionAssumption, NEW n \in 0..MaxMounts, \A m \in Mounts : vault[m].st = "unused" <=> m > n, Unused # {}
  PROVE  NextMount = n + 1 /\ n + 1 \in Mounts
<1>1. n + 1 \in Mounts
  BY DEF Unused, Mounts, SessionAssumption
<1>2. n + 1 \in Unused /\ \A k \in Unused : n + 1 <= k
  BY <1>1 DEF Unused, Mounts
<1>3. \A k \in Unused : (\A j \in Unused : k <= j) => k = n + 1
  BY <1>2 DEF Unused, Mounts
<1>4. NextMount \in Unused /\ \A j \in Unused : NextMount <= j
  BY <1>2 DEF NextMount
<1> QED BY <1>1, <1>3, <1>4

LEMMA JobThrowsTyped ==
  ASSUME ses \in Session, job \in Job, job.kind # "none", key \in BOOLEAN, JobThrows
  PROVE  /\ ses' \in Session /\ job' \in Job /\ key' \in BOOLEAN
         /\ ses'.live = ses.live /\ ses'.info = ses.info /\ ses'.opening = ses.opening
         /\ ses'.resetting = ses.resetting /\ ses'.failure = ses.failure
         /\ ses'.recovery = IF job.kind = "recover" THEN "none" ELSE ses.recovery
         /\ \/ job' = NoJob /\ ses'.closing = IF job.kind = "close" THEN FALSE ELSE ses.closing
            \/ job' = [kind |-> "close", pc |-> "opening", wait |-> {}] /\ ses'.closing /\ job.kind = "recover"
<1>1. CASE job.kind = "recover"
  <2> DEFINE t == [ses EXCEPT !.status = "failed"]
  <2>1. /\ t \in Session /\ t.live = ses.live /\ t.info = ses.info /\ t.opening = ses.opening
        /\ t.resetting = ses.resetting /\ t.failure = ses.failure /\ t.closing = ses.closing
    BY DEF Session
  <2>2. RecoverEnds(t) /\ key' = key
    BY <1>1 DEF JobThrows
  <2> HIDE DEF t
  <2> QED BY <1>1, <2>1, <2>2, RecoverEndsTyped
<1>2. CASE job.kind = "reset"
  <2>1. ses' = [ses EXCEPT !.status = "failed"] /\ job' = NoJob /\ key' = FALSE
    BY <1>2 DEF JobThrows
  <2> QED BY <1>2, <2>1 DEF Session, NoJob, Job
<1>3. CASE job.kind = "close"
  <2>1. ses' = [ses EXCEPT !.closing = FALSE] /\ job' = NoJob /\ key' = key
    BY <1>3 DEF JobThrows
  <2> QED BY <1>3, <2>1 DEF Session, NoJob, Job
<1> QED BY <1>1, <1>2, <1>3 DEF Job

-----------------------------------------------------------------------------

\* The fields of the session that the invariant reads.
SameSession == /\ ses'.opening = ses.opening /\ ses'.live = ses.live /\ ses'.info = ses.info
               /\ ses'.closing = ses.closing /\ ses'.recovery = ses.recovery /\ ses'.resetting = ses.resetting

LEMMA FrameKeeps ==
  ASSUME IInv, SameSession, UNCHANGED <<given, job>>, \A m \in Mounts : vault'[m].st = vault[m].st
  PROVE  Vaults' /\ Present' /\ Jobs'
<1>1. Vaults'
  BY DEF IInv, Vaults, SameSession, TypeOK
<1>2. Unused' = Unused /\ Promised' = Promised
  BY DEF Unused, Promised, SameSession
<1>3. Present'
  BY <1>2 DEF IInv, Present, SameSession
<1>4. Jobs'
  BY <1>2 DEF IInv, Jobs, SameSession
<1> QED BY <1>1, <1>3, <1>4

LEMMA TailsStay ==
  ASSUME IInv, ses'.opening = ses.opening, ses'.info = ses.info, \A m \in Mounts : vault'[m].st = vault[m].st,
         \A c \in Callers : caller'[c].pc \in {"adopt", "flush", "offline"} =>
            caller[c].pc \in {"adopt", "flush", "offline"} /\ caller'[c].mount = caller[c].mount
  PROVE  Tails'
  BY DEF IInv, Tails

\* open() and its tail.
LEMMA OpenCallKeeps ==
  ASSUME SessionAssumption, IInv, NEW c \in Callers, OpenCall(c)
  PROVE  IInv'
<1>1. ses \in Session /\ caller \in [Callers -> Caller] /\ vault \in [Mounts -> Vault]
  BY DEF IInv, TypeOK
<1>2. CASE ses.opening = "none"
  <2>1. /\ ses' = [ses EXCEPT !.opening = "vault", !.status = "opening"] /\ Unused # {}
        /\ caller' = [caller EXCEPT ![c].pc = "waiting"] /\ ses.recovery = "none" /\ ~ses.closing /\ ~ses.resetting
        /\ UNCHANGED <<vault, given, op, handle, consumer, job, key, saved>>
    BY <1>2 DEF OpenCall, Promised
  <2>2. /\ ses' \in Session /\ ses'.opening = "vault" /\ ses'.live = ses.live /\ ses'.info = ses.info
        /\ ses'.closing = ses.closing /\ ses'.recovery = ses.recovery /\ ses'.resetting = ses.resetting
    BY <1>1, <2>1 DEF Session
  <2>3. caller' \in [Callers -> Caller]
    BY <1>1, <2>1 DEF Caller
  <2>4. TypeOK'
    BY <2>1, <2>2, <2>3 DEF IInv, TypeOK
  <2>5. Vaults'
    BY <2>1, <2>2 DEF IInv, Vaults
  <2>6. Present'
    BY <2>1, <2>2, <1>2 DEF IInv, Present, Unused
  <2>7. Tails'
    BY <2>1, <2>2, <1>2, <1>1 DEF IInv, Tails, Present, Caller, Mounts, NoMount
  <2>8. job.kind = "none"
    BY <2>1, <1>1 DEF IInv, Jobs, TypeOK, Job
  <2>9. Jobs'
    BY <2>1, <2>2, <2>8 DEF IInv, Jobs, Stage
  <2>10. Work' /\ Drained'
    BY <2>1, <2>2 DEF IInv, Work, Drained
  <2> QED BY <2>4, <2>5, <2>6, <2>7, <2>9, <2>10 DEF IInv
<1>3. CASE ses.opening # "none"
  <2>1. /\ ses' = ses /\ UNCHANGED <<vault, given, op, handle, consumer, job, key, saved>>
        /\ \/ caller' = [caller EXCEPT ![c].pc = "waiting"]
           \/ ses.opening = "ready" /\ caller' = [caller EXCEPT ![c] = [pc |-> "adopt", mount |-> ses.info]]
    BY <1>3 DEF OpenCall
  <2>2. caller' \in [Callers -> Caller]
    BY <1>1, <2>1 DEF Caller, Session
  <2>3. TypeOK'
    BY <2>1, <2>2 DEF IInv, TypeOK
  <2>4. Vaults' /\ Present' /\ Jobs'
    BY <2>1, FrameKeeps DEF SameSession
  <2>5. ses.opening = "ready" => ses.info \in Mounts /\ vault[ses.info].st = "open"
    BY <1>1 DEF IInv, Present, Vaults, Session, Mount
  <2>6. Tails'
    BY <1>1, <2>1, <2>5 DEF IInv, Tails, Caller
  <2>7. Work' /\ Drained'
    BY <2>1 DEF IInv, Work, Drained
  <2> QED BY <2>3, <2>4, <2>6, <2>7 DEF IInv
<1> QED BY <1>2, <1>3

LEMMA TailKeeps ==
  ASSUME SessionAssumption, IInv, NEW c \in Callers, Tail(c)
  PROVE  IInv'
<1>1. ses \in Session /\ caller \in [Callers -> Caller] /\ vault \in [Mounts -> Vault]
  BY DEF IInv, TypeOK
<1>2. /\ caller' \in [Callers -> Caller]
      /\ \A d \in Callers : caller'[d].pc \in {"adopt", "flush", "offline"} =>
            caller[d].pc \in {"adopt", "flush", "offline"} /\ caller'[d].mount = caller[d].mount
  BY <1>1 DEF Tail, AdoptTail, FlushTail, OfflineTail, Leave, Caller, IdleCaller, Mount
<1>3. UNCHANGED <<vault, op, handle, consumer, job, key, saved>>
  BY DEF Tail, AdoptTail, FlushTail, OfflineTail
<1>4. ses.info \in Mount
  BY <1>1 DEF Session
<1>5. ses' \in Session /\ SameSession
  <2>1. ses' = ses \/ ses' = Failed(ses, ses.info) \/ ses' = [ses EXCEPT !.status = "open"]
    BY DEF Tail, AdoptTail, FlushTail, OfflineTail
  <2> QED BY <1>1, <1>4, <2>1, FailedTyped DEF SameSession, Session
<1>6. CASE UNCHANGED given
  <2>1. TypeOK'
    BY <1>2, <1>3, <1>5, <1>6 DEF IInv, TypeOK
  <2>2. Vaults' /\ Present' /\ Jobs'
    BY <1>3, <1>5, <1>6, FrameKeeps
  <2>3. Tails'
    BY <1>2, <1>3, <1>5, TailsStay DEF SameSession
  <2>4. Work' /\ Drained'
    BY <1>3, <1>5, <1>6 DEF IInv, Work, Drained, SameSession
  <2> QED BY <2>1, <2>2, <2>3, <2>4 DEF IInv
<1>7. CASE OfflineTail(c) /\ Owns(c) /\ given' = given \cup {ses.info}
  <2>1. caller[c].pc = "offline" /\ caller[c].mount = ses.info
    BY <1>7 DEF OfflineTail, Owns
  <2>2. ses.opening = "ready" /\ ses.info \in Mounts /\ vault[ses.info].st # "unused"
    BY <2>1 DEF IInv, Tails
  <2>3. TypeOK'
    BY <1>2, <1>3, <1>5, <1>7, <2>2 DEF IInv, TypeOK
  <2>4. Vaults'
    BY <1>3, <1>5, <1>7, <2>2 DEF IInv, Vaults, SameSession
  <2>5. Present'
    BY <1>3, <1>5, <2>2 DEF IInv, Present, SameSession
  <2>6. Jobs'
    BY <1>3, <1>5 DEF IInv, Jobs, SameSession, Promised, Unused
  <2>7. Tails'
    BY <1>2, <1>3, <1>5, TailsStay DEF SameSession
  <2>8. Work' /\ Drained'
    BY <1>3, <1>5, <1>7 DEF IInv, Work, Drained, SameSession
  <2> QED BY <2>3, <2>4, <2>5, <2>6, <2>7, <2>8 DEF IInv
<1> QED BY <1>6, <1>7 DEF Tail, AdoptTail, FlushTail, OfflineTail

-----------------------------------------------------------------------------

\* initialize()
LEMMA InitFailedKeeps ==
  ASSUME SessionAssumption, IInv, InitFailed(ses), Promised,
         vault' \in [Mounts -> Vault], \A m \in Mounts : vault'[m].st = IF m = ses.info THEN "closed" ELSE vault[m].st,
         saved' \in BOOLEAN, UNCHANGED <<given, op, handle, consumer, key>>
  PROVE  IInv'
<1>1. ses \in Session /\ caller \in [Callers -> Caller] /\ vault \in [Mounts -> Vault] /\ job \in Job
  BY DEF IInv, TypeOK
<1> DEFINE t == [Cleared(ses) EXCEPT !.status = "failed"]
<1>2. /\ t \in Session /\ t.live = NoMount /\ t.info = NoMount /\ t.opening = "none"
      /\ t.closing = ses.closing /\ t.recovery = ses.recovery /\ t.resetting = ses.resetting
  BY <1>1, ClearedTyped DEF Session
<1>3. caller' = Rejected /\ IF job.pc = "initialize" THEN RecoverEnds(t) ELSE ses' = t /\ job' = job
  BY DEF InitFailed
<1> HIDE DEF t
<1>4. /\ ses' \in Session /\ ses'.live = NoMount /\ ses'.info = NoMount /\ ses'.opening = "none"
      /\ ses'.resetting = ses.resetting /\ job' \in Job
      /\ \/ job.pc # "initialize" /\ job' = job /\ ses'.recovery = ses.recovery /\ ses'.closing = ses.closing
         \/ job.pc = "initialize" /\ job' = NoJob /\ ses'.recovery = "none" /\ ses'.closing = ses.closing
         \/ job' = [kind |-> "close", pc |-> "opening", wait |-> {}] /\ ses'.recovery = "none" /\ ses'.closing
  BY <1>1, <1>2, <1>3, RecoverEndsTyped
<1>5. caller' \in [Callers -> Caller] /\ \A c \in Callers : caller'[c].pc # "idle" => caller'[c] = caller[c]
  BY <1>1, <1>3, RejectedTyped
<1>6. TypeOK'
  BY <1>4, <1>5 DEF IInv, TypeOK
<1>7. Vaults'
  <2>1. \A m \in Mounts : vault'[m].st = "unused" <=> vault[m].st = "unused"
    BY DEF IInv, Vaults
  <2>2. \A m \in Mounts : vault'[m].st # "open" /\ m # ses'.info
    BY <1>4 DEF IInv, Vaults, Mounts, NoMount
  <2>3. given \subseteq Mounts
    BY DEF IInv, TypeOK
  <2> QED BY <2>1, <2>2, <2>3 DEF IInv, Vaults
<1>8. Present'
  BY <1>4 DEF Present
<1>9. Tails'
  BY <1>1, <1>4, <1>5 DEF IInv, Tails, Mounts, NoMount
<1>10. Jobs'
  BY <1>4 DEF IInv, Jobs, NoJob, Promised, Stage
<1>11. ~(ses.info \in given)
  BY <1>1 DEF IInv, Present, Promised, Vaults, Session, TypeOK, NoMount, Mounts
<1>12. Work'
  BY <1>11 DEF IInv, Work
<1>13. Drained'
  BY <1>4 DEF IInv, Jobs, Drained, NoJob
<1> QED BY <1>6, <1>7, <1>8, <1>9, <1>10, <1>12, <1>13 DEF IInv


LEMMA InitVaultKeeps ==
  ASSUME SessionAssumption, IInv, InitVault
  PROVE  IInv'
<1>1. /\ ses \in Session /\ vault \in [Mounts -> Vault] /\ key \in BOOLEAN /\ saved \in BOOLEAN
      /\ ses.opening = "vault" /\ given \subseteq Mounts
  BY DEF IInv, TypeOK, InitVault
<1>2. ses.info = NoMount /\ Unused # {}
  BY <1>1 DEF IInv, Present
<1>3. CASE InitFailed(ses) /\ UNCHANGED <<vault, saved>>
  <2>1. \A m \in Mounts : m # ses.info
    BY <1>2 DEF Mounts, NoMount
  <2> QED BY <1>1, <1>3, <2>1, InitFailedKeeps DEF InitVault, Promised, IInv, TypeOK
<1>4. CASE ~(InitFailed(ses) /\ UNCHANGED <<vault, saved>>)
  <2> DEFINE new == NextMount
  <2>1. /\ vault' = [vault EXCEPT ![new] = [st |-> "open", enc |-> key, broken |-> FALSE]]
        /\ ses' = [ses EXCEPT !.opening = "mkdir", !.live = new, !.info = new]
        /\ saved' \in BOOLEAN /\ UNCHANGED <<caller, job, given, op, handle, consumer, key>>
    BY <1>1, <1>4 DEF InitVault
  <2>2. PICK n \in 0..MaxMounts : \A m \in Mounts : vault[m].st = "unused" <=> m > n
    BY DEF IInv, Vaults
  <2>3. new = n + 1 /\ new \in Mounts /\ new # NoMount
    BY <1>2, <2>2, NextMountFresh DEF Mounts, NoMount
  <2> HIDE DEF new
  <2>4. /\ vault' \in [Mounts -> Vault] /\ vault'[new].st = "open"
        /\ \A m \in Mounts \ {new} : vault'[m] = vault[m]
    BY <1>1, <2>1, <2>3 DEF Vault
  <2>5. /\ ses' \in Session /\ ses'.opening = "mkdir" /\ ses'.live = new /\ ses'.info = new
        /\ ses'.closing = ses.closing /\ ses'.recovery = ses.recovery /\ ses'.resetting = ses.resetting
    BY <1>1, <2>1, <2>3 DEF Session, Mount
  <2>6. vault[new].st = "unused"
    BY <2>2, <2>3
  <2>7. TypeOK'
    BY <2>1, <2>4, <2>5 DEF IInv, TypeOK
  <2>8. Vaults'
    <3>1. n + 1 \in 0..MaxMounts /\ \A m \in Mounts : vault'[m].st = "unused" <=> m > n + 1
      BY <2>2, <2>3, <2>4 DEF Mounts, SessionAssumption
    <3>2. \A m \in Mounts : vault'[m].st = "open" <=> m = new
      BY <1>2, <2>4 DEF IInv, Vaults, Mounts, NoMount
    <3>3. \A m \in given : vault'[m].st # "unused"
      BY <1>1, <2>4 DEF IInv, Vaults
    <3> QED BY <2>1, <2>5, <3>1, <3>2, <3>3 DEF Vaults
  <2>9. Present'
    BY <2>1, <2>3, <2>5, <2>6 DEF IInv, Vaults, Present
  <2>10. Tails'
    BY <2>1, <2>4, <2>5, <2>6 DEF IInv, Tails
  <2>11. Jobs'
    BY <1>1, <2>1, <2>5 DEF IInv, Jobs, Promised, Stage
  <2>12. Work'
    BY <1>2, <2>1, <2>5 DEF IInv, Work, TypeOK, Mounts, NoMount
  <2>13. Drained'
    BY <2>1 DEF IInv, Drained
  <2> QED BY <2>7, <2>8, <2>9, <2>10, <2>11, <2>12, <2>13 DEF IInv
<1> QED BY <1>3, <1>4

LEMMA InitMkdirKeeps ==
  ASSUME SessionAssumption, IInv, InitMkdir
  PROVE  IInv'
<1>1. ses \in Session /\ ses.opening = "mkdir" /\ ses.info \in Mount
  BY DEF IInv, TypeOK, InitMkdir, Session
<1>2. /\ ses' \in Session /\ ses'.opening \in {"persist", "undo"} /\ ses'.live = ses.live /\ ses'.info = ses.info
      /\ ses'.closing = ses.closing /\ ses'.recovery = ses.recovery /\ ses'.resetting = ses.resetting
  <2>1. PICK s \in {ses, Failed(ses, ses.info)}, w \in {"persist", "undo"} : ses' = [s EXCEPT !.opening = w]
    BY DEF InitMkdir
  <2> QED BY <1>1, <2>1, FailedTyped DEF Session
<1>3. UNCHANGED <<vault, given, caller, op, handle, consumer, job, key, saved>>
  BY DEF InitMkdir
<1>4. TypeOK'
  BY <1>2, <1>3 DEF IInv, TypeOK
<1>5. Vaults' /\ Present' /\ Tails'
  BY <1>1, <1>2, <1>3 DEF IInv, Vaults, Present, Tails, Unused
<1>6. Jobs'
  BY <1>1, <1>2, <1>3 DEF IInv, Jobs, Promised, Stage, Unused
<1>7. Work' /\ Drained'
  BY <1>2, <1>3 DEF IInv, Work, Drained
<1> QED BY <1>4, <1>5, <1>6, <1>7 DEF IInv

LEMMA InitPersistKeeps ==
  ASSUME SessionAssumption, IInv, InitPersist
  PROVE  IInv'
<1>1. /\ ses \in Session /\ ses.opening = "persist" /\ ses.info \in Mount /\ caller \in [Callers -> Caller]
      /\ job \in Job /\ vault \in [Mounts -> Vault]
  BY DEF IInv, TypeOK, InitPersist, Session
<1>2. UNCHANGED <<vault, given, op, handle, consumer, key, saved>>
  BY DEF InitPersist
<1>3. CASE Flushes(ses.info)
  <2>1. /\ ses' = [ses EXCEPT !.opening = "ready"]
        /\ caller' = [c \in Callers |-> IF caller[c].pc = "waiting"
                                        THEN [pc |-> "adopt", mount |-> ses.info] ELSE caller[c]]
        /\ job' = IF job.pc = "initialize" THEN [job EXCEPT !.pc = "offline"] ELSE job
    BY <1>3 DEF InitPersist
  <2>2. /\ ses' \in Session /\ ses'.opening = "ready" /\ ses'.live = ses.live /\ ses'.info = ses.info
        /\ ses'.closing = ses.closing /\ ses'.recovery = ses.recovery /\ ses'.resetting = ses.resetting
    BY <1>1, <2>1 DEF Session
  <2>3. /\ job' \in Job /\ job'.kind = job.kind /\ job'.wait = job.wait
        /\ job'.pc = IF job.pc = "initialize" THEN "offline" ELSE job.pc
    BY <1>1, <2>1 DEF Job
  <2>4. caller' \in [Callers -> Caller]
    BY <1>1, <2>1 DEF Caller
  <2>5. TypeOK'
    BY <1>2, <2>2, <2>3, <2>4 DEF IInv, TypeOK
  <2>6. Vaults' /\ Present'
    BY <1>1, <1>2, <2>2 DEF IInv, Vaults, Present
  <2>7. Tails'
    <3>1. ses.info \in Mounts /\ vault[ses.info].st = "open"
      BY <1>1 DEF IInv, Present, Vaults, Mount
    <3> QED BY <1>1, <1>2, <2>1, <2>2, <3>1 DEF IInv, Tails
  <2>8. Jobs'
    BY <1>1, <1>2, <2>2, <2>3 DEF IInv, Jobs, Promised, Stage, Unused
  <2>9. Work' /\ Drained'
    BY <1>2, <2>2, <2>3 DEF IInv, Work, Drained
  <2> QED BY <2>5, <2>6, <2>7, <2>8, <2>9 DEF IInv
<1>4. CASE ~Flushes(ses.info)
  <2>1. ses' = [Failed(ses, ses.info) EXCEPT !.opening = "undo"] /\ UNCHANGED <<caller, job>>
    BY <1>4 DEF InitPersist
  <2>2. /\ ses' \in Session /\ ses'.opening = "undo" /\ ses'.live = ses.live /\ ses'.info = ses.info
        /\ ses'.closing = ses.closing /\ ses'.recovery = ses.recovery /\ ses'.resetting = ses.resetting
    BY <1>1, <2>1, FailedTyped DEF Session
  <2>3. TypeOK'
    BY <1>2, <2>1, <2>2 DEF IInv, TypeOK
  <2>4. Vaults' /\ Present' /\ Tails'
    BY <1>1, <1>2, <2>1, <2>2 DEF IInv, Vaults, Present, Tails, Unused
  <2>5. Jobs'
    BY <1>1, <1>2, <2>1, <2>2 DEF IInv, Jobs, Promised, Stage, Unused
  <2>6. Work' /\ Drained'
    BY <1>2, <2>1, <2>2 DEF IInv, Work, Drained
  <2> QED BY <2>3, <2>4, <2>5, <2>6 DEF IInv
<1> QED BY <1>3, <1>4

LEMMA InitUndoKeeps ==
  ASSUME SessionAssumption, IInv, InitUndo
  PROVE  IInv'
<1>1. ses \in Session /\ vault \in [Mounts -> Vault] /\ saved \in BOOLEAN /\ ses.opening = "undo"
  BY DEF IInv, TypeOK, InitUndo
<1>2. /\ vault' = [vault EXCEPT ![ses.info].st = "closed"] /\ InitFailed(ses)
      /\ UNCHANGED <<given, op, handle, consumer, key, saved>>
  BY DEF InitUndo
<1>3. vault' \in [Mounts -> Vault] /\ \A m \in Mounts : vault'[m].st = IF m = ses.info THEN "closed" ELSE vault[m].st
  BY <1>1, <1>2 DEF Vault
<1> QED BY <1>1, <1>2, <1>3, InitFailedKeeps DEF Promised

-----------------------------------------------------------------------------

\* The gated file system, file handles and consumers.  While the work before
\* the release is waited for, no mount that was handed out passes the gate.
LEMMA GateShut ==
  ASSUME IInv, job.pc \in Stage, NEW m \in given
  PROVE  ~Gate(m)
<1>1. m # NoMount /\ job \in Job
  BY DEF IInv, TypeOK, Mounts, NoMount
<1> QED BY <1>1 DEF IInv, Jobs, Gate, Stage, Job

LEMMA StartOpKeeps ==
  ASSUME SessionAssumption, IInv, NEW o \in Ops, NEW kind \in {"read", "write", "open"}, StartOp(o, kind)
  PROVE  IInv'
<1>1. PICK m \in given : Gate(m) /\ op' = [op EXCEPT ![o] = [pc |-> "method", kind |-> kind, mount |-> m]]
  BY DEF StartOp
<1>2. UNCHANGED <<ses, vault, given, caller, handle, consumer, job, key, saved>>
  BY DEF StartOp
<1>3. m \in Mounts /\ m # NoMount /\ op \in [Ops -> Op]
  BY DEF IInv, TypeOK, Mounts, NoMount
<1>4. m = ses.info
  BY <1>1, <1>3 DEF Gate, IInv, Present
<1>5. TypeOK'
  BY <1>1, <1>2, <1>3 DEF IInv, TypeOK, Op, Mount
<1>6. Vaults' /\ Present' /\ Jobs' /\ Tails'
  BY <1>2, FrameKeeps, TailsStay DEF SameSession
<1>7. Work'
  BY <1>1, <1>2, <1>3, <1>4 DEF IInv, Work, Op
<1>8. job.pc \notin Stage
  BY <1>1, GateShut
<1>9. Drained'
  BY <1>2, <1>8 DEF Drained, Stage
<1> QED BY <1>5, <1>6, <1>7, <1>9 DEF IInv

LEMMA FinishKeeps ==
  ASSUME SessionAssumption, IInv, NEW o \in Ops, Finish(o)
  PROVE  IInv'
<1>1. /\ ses \in Session /\ op \in [Ops -> Op] /\ handle \in [Handles -> Handle] /\ op[o].mount \in Mount
      /\ op[o].pc # "idle" /\ UNCHANGED <<vault, given, caller, consumer, job, key, saved>>
  BY DEF IInv, TypeOK, Finish, Method, Persist, Op
<1>2. ses' \in Session /\ SameSession
  <2>1. ses' = ses \/ ses' = Failed(ses, op[o].mount)
    BY DEF Finish, Method, Persist
  <2> QED BY <1>1, <2>1, FailedTyped DEF SameSession
<1>3. /\ op' \in [Ops -> Op]
      /\ \A p \in Ops : op'[p].pc # "idle" => op[p].pc # "idle" /\ op'[p].mount = op[p].mount
  BY <1>1 DEF Finish, Method, Persist, Op, IdleOp, Mount, NoMount
<1>4. \/ handle' = handle
      \/ \E h \in Handles : handle' = [handle EXCEPT ![h] = [st |-> "open", mount |-> op[o].mount]]
  BY DEF Finish, Method, Persist
<1>5. handle' \in [Handles -> Handle]
  BY <1>1, <1>4 DEF Handle
<1>6. TypeOK'
  BY <1>1, <1>2, <1>3, <1>5 DEF IInv, TypeOK
<1>7. Vaults' /\ Present' /\ Jobs' /\ Tails'
  BY <1>1, <1>2, FrameKeeps, TailsStay DEF SameSession
<1>8. op[o].mount \in given /\ op[o].mount = ses.info
  BY <1>1 DEF IInv, Work
<1>9. Work'
  BY <1>1, <1>2, <1>3, <1>4, <1>8 DEF IInv, Work, SameSession
<1>10. job.pc \notin {"handles", "vault"}
  BY <1>1 DEF IInv, Drained
<1>11. Drained'
  BY <1>1, <1>3, <1>10 DEF IInv, Drained
<1> QED BY <1>6, <1>7, <1>9, <1>11 DEF IInv

LEMMA HandleKeeps ==
  ASSUME SessionAssumption, IInv, NEW h \in Handles, CloseHandle(h) \/ HandleClosed(h)
  PROVE  IInv'
<1>1. /\ ses \in Session /\ handle \in [Handles -> Handle] /\ handle[h].mount \in Mount
      /\ UNCHANGED <<vault, given, caller, op, consumer, job, key, saved>>
  BY DEF IInv, TypeOK, CloseHandle, HandleClosed, Handle
<1>2. ses' \in Session /\ SameSession
  <2>1. ses' = ses \/ ses' = Failed(ses, handle[h].mount)
    BY DEF CloseHandle, HandleClosed
  <2> QED BY <1>1, <2>1, FailedTyped DEF SameSession
<1>3. handle' \in [Handles -> Handle]
  <2>1. \/ handle' = [handle EXCEPT ![h].st = "closing"]
        \/ handle' = [handle EXCEPT ![h].st = "failed"]
        \/ handle' = [handle EXCEPT ![h] = NoHandle]
    BY DEF CloseHandle, HandleClosed
  <2> QED BY <1>1, <2>1 DEF Handle, NoHandle, Mount
<1>4. /\ \A g \in Handles \ {h} : handle'[g] = handle[g]
      /\ \/ handle[h].st = "open" /\ handle'[h].st = "closing" /\ handle'[h].mount = handle[h].mount
         \/ handle'[h].st \in {"failed", "none"}
  <2>1. CASE CloseHandle(h)
    BY <1>1, <2>1 DEF CloseHandle, Handle
  <2>2. CASE HandleClosed(h)
    BY <1>1, <2>2 DEF HandleClosed, Handle, NoHandle
  <2> QED BY <2>1, <2>2
<1>5. \A g \in Handles : handle'[g].st \in {"open", "closing"} =>
         handle[g].st \in {"open", "closing"} /\ handle'[g].mount = handle[g].mount
  BY <1>4
<1>6. TypeOK'
  BY <1>1, <1>2, <1>3 DEF IInv, TypeOK
<1>7. Vaults' /\ Present' /\ Jobs' /\ Tails'
  BY <1>1, <1>2, FrameKeeps, TailsStay DEF SameSession
<1>8. Work'
  BY <1>1, <1>2, <1>5 DEF IInv, Work, SameSession
<1>9. Drained'
  BY <1>1, <1>4 DEF IInv, Drained
<1> QED BY <1>6, <1>7, <1>8, <1>9 DEF IInv

\* A consumer's teardown, a lost write and the lease of the key.
LEMMA AroundKeeps ==
  ASSUME SessionAssumption, IInv,
         \/ \E k \in Consumers : Register(k) \/ Teardown(k) \/ TornDown(k)
         \/ \E m \in Mounts : LoseWrite(m)
         \/ KeyChanges
         \/ UNCHANGED vars
  PROVE  IInv'
<1>1. UNCHANGED <<ses, given, caller, op, handle, job, saved>>
  BY DEF Register, Teardown, TornDown, LoseWrite, KeyChanges, vars
<1>2. /\ consumer \in [Consumers -> ConsumerState] /\ vault \in [Mounts -> Vault] /\ key \in BOOLEAN
  BY DEF IInv, TypeOK
<1>3. consumer' \in [Consumers -> ConsumerState]
  BY <1>2 DEF Register, Teardown, TornDown, LoseWrite, KeyChanges, vars, ConsumerState
<1>4. vault' \in [Mounts -> Vault] /\ \A m \in Mounts : vault'[m].st = vault[m].st
  <2>1. vault' = vault \/ \E m \in Mounts : vault' = [vault EXCEPT ![m].broken = TRUE]
    BY DEF Register, Teardown, TornDown, LoseWrite, KeyChanges, vars
  <2>2. ASSUME NEW m \in Mounts, vault' = [vault EXCEPT ![m].broken = TRUE]
        PROVE  vault' \in [Mounts -> Vault] /\ \A n \in Mounts : vault'[n].st = vault[n].st
    BY <1>2, <2>2 DEF Vault
  <2> QED BY <1>2, <2>1, <2>2
<1>5. key' \in BOOLEAN
  BY <1>2 DEF Register, Teardown, TornDown, LoseWrite, KeyChanges, vars
<1>6. TypeOK'
  BY <1>1, <1>3, <1>4, <1>5 DEF IInv, TypeOK
<1>7. Vaults' /\ Present' /\ Jobs' /\ Tails'
  BY <1>1, <1>4, FrameKeeps, TailsStay DEF SameSession
<1>8. Work' /\ Drained'
  BY <1>1 DEF IInv, Work, Drained
<1> QED BY <1>6, <1>7, <1>8 DEF IInv


-----------------------------------------------------------------------------

\* The calls of recover(), reset() and close() up to their first await.
LEMMA CallKeeps ==
  ASSUME SessionAssumption, IInv, RecoverCall \/ ResetCall \/ CloseCall
  PROVE  IInv'
<1>1. /\ ses \in Session /\ job \in Job /\ ses.live \in Mount /\ ses.info \in Mount
      /\ UNCHANGED <<vault, given, caller, op, handle, consumer, key, saved>>
  BY DEF IInv, TypeOK, RecoverCall, ResetCall, CloseCall, Session
<1>2. /\ ses' \in Session /\ ses'.opening = ses.opening /\ ses'.live = ses.live /\ ses'.info = ses.info
  BY <1>1 DEF RecoverCall, ResetCall, CloseCall, BeginClose, Session
<1>3. job' \in Job
  BY <1>1 DEF RecoverCall, ResetCall, CloseCall, BeginClose, Job
<1>4. TypeOK'
  BY <1>1, <1>2, <1>3 DEF IInv, TypeOK
<1>5. Vaults' /\ Present'
  BY <1>1, <1>2 DEF IInv, Vaults, Present, Unused
<1>6. Tails'
  BY <1>1, <1>2, TailsStay
<1>7. Work'
  BY <1>1, <1>2 DEF IInv, Work
<1>8. Jobs' /\ Drained'
  <2>1. CASE RecoverCall /\ key
    <3>1. /\ ses.recovery = "none" /\ ~ses.closing /\ ~Promised /\ ses.info # NoMount /\ Unused # {}
          /\ ses'.recovery = "running" /\ ses'.closing = ses.closing /\ ses'.resetting = ses.resetting
          /\ job'.kind = "recover" /\ job'.pc = "adopt"
      <4>1. /\ ~ses.closing /\ ~Promised /\ ses.recovery = "none" /\ ses.info # NoMount /\ Unused # {}
            /\ job' = [kind |-> "recover", pc |-> "adopt", wait |-> {}]
            /\ ses' = [ses EXCEPT !.recovery = "running", !.barred = ses.live, !.status = "recovering"]
        BY <2>1 DEF RecoverCall
      <4> QED BY <1>1, <4>1 DEF Session
    <3>2. ses.opening = "ready"
      BY <1>1, <3>1 DEF IInv, Present, Promised, Session
    <3> QED BY <1>1, <1>2, <3>1, <3>2 DEF Jobs, Drained, Promised, Stage, Unused
  <2>2. CASE RecoverCall /\ ~key
    <3>1. /\ ses.recovery = "none" /\ job' = job
          /\ ses'.recovery = "rejected" /\ ses'.closing = ses.closing /\ ses'.resetting = ses.resetting
      BY <1>1, <2>2 DEF RecoverCall, Session
    <3> QED BY <1>1, <1>2, <3>1 DEF IInv, Jobs, Drained, Promised, Stage, Unused
  <2>3. CASE ResetCall
    <3>1. /\ ses.recovery = "none" /\ ~ses.closing /\ ses'.resetting
          /\ ses'.recovery = ses.recovery /\ ses'.closing = ses.closing
          /\ job'.kind = "reset" /\ job'.pc = "opening"
      BY <1>1, <2>3 DEF ResetCall, Session
    <3> QED BY <1>1, <1>2, <3>1 DEF Jobs, Drained, Promised, Stage, Unused
  <2>4. CASE CloseCall /\ ses.recovery = "none"
    <3>1. /\ ses'.closing /\ ses'.recovery = ses.recovery /\ ses'.resetting = ses.resetting
          /\ job'.kind = "close" /\ job'.pc = "opening"
      <4>1. /\ job' = [kind |-> "close", pc |-> "opening", wait |-> {}]
            /\ ses' = [ses EXCEPT !.closing = TRUE, !.closeNext = FALSE]
        BY <2>4 DEF CloseCall, BeginClose
      <4> QED BY <1>1, <4>1 DEF Session
    <3> QED BY <1>1, <1>2, <2>4, <3>1 DEF Jobs, Drained, Promised, Stage, Unused
  <2>5. CASE CloseCall /\ ses.recovery # "none"
    <3>1. /\ ses'.closing = ses.closing /\ ses'.recovery = ses.recovery /\ ses'.resetting = ses.resetting
          /\ job' = job
      BY <1>1, <2>5 DEF CloseCall, Session
    <3> QED BY <1>1, <1>2, <3>1 DEF IInv, Jobs, Drained, Promised, Stage, Unused
  <2> QED BY <2>1, <2>2, <2>3, <2>4, <2>5
<1> QED BY <1>4, <1>5, <1>6, <1>7, <1>8 DEF IInv

\* A job that ends, or rejects, leaves work and mounts alone; a close() that
\* waited for a recovery begins.
LEMMA EndKeeps ==
  ASSUME IInv, ses' \in Session, job' \in Job, {key', saved'} \subseteq BOOLEAN, given' \subseteq Mounts,
         vault' \in [Mounts -> Vault], consumer' \in [Consumers -> ConsumerState],
         \A m \in Mounts : vault'[m].st = vault[m].st,
         ses'.live = ses.live, ses'.info = ses.info, ses'.opening = ses.opening, ses'.recovery # "running",
         ses.resetting => ses'.resetting, given' \in {given, given \cup {ses.info}}, given' # given => ses.opening = "ready",
         UNCHANGED <<caller, op, handle>>,
         \/ job' = NoJob /\ ~ses'.closing
         \/ job' = [kind |-> "close", pc |-> "opening", wait |-> {}] /\ ses'.closing
  PROVE  IInv'
<1>1. TypeOK'
  BY DEF IInv, TypeOK
<1>2. ses.opening = "ready" => ses.info \in Mounts /\ vault[ses.info].st = "open"
  BY DEF IInv, TypeOK, Present, Vaults, Session, Mount
<1>3. Vaults'
  BY <1>2 DEF IInv, Vaults
<1>4. Present'
  BY DEF IInv, Present, Unused
<1>5. Tails'
  BY TailsStay
<1>6. Jobs'
  BY DEF Jobs, NoJob, Promised, Stage
<1>7. Work'
  BY DEF IInv, Work
<1>8. Drained'
  BY DEF Drained, NoJob
<1> QED BY <1>1, <1>3, <1>4, <1>5, <1>6, <1>7, <1>8 DEF IInv

\* A stage of a job that has begun goes on to the next, with the mounts and
\* the opening left alone.
LEMMA StageKeeps ==
  ASSUME SessionAssumption, IInv, job' \in Job, job'.kind = job.kind, job'.pc \in Stage,
         job.pc # "initialize", job.pc # "offline", job.kind # "none", ~Promised,
         ses' \in Session, consumer' \in [Consumers -> ConsumerState],
         ses'.info = ses.info, ses'.opening = ses.opening, ses'.recovery = ses.recovery,
         ses'.closing = ses.closing, ses'.resetting = ses.resetting,
         ses'.live = NoMount \/ (job.kind # "recover" /\ ses'.live = ses.live),
         UNCHANGED <<vault, given, caller, op, key, saved>>,
         handle' \in [Handles -> Handle],
         \A h \in Handles : handle'[h].st \in {"open", "closing"} =>
             handle[h].st \in {"open", "closing"} /\ handle'[h].mount = handle[h].mount,
         Drained'
  PROVE  IInv'
<1>1. TypeOK'
  BY DEF IInv, TypeOK
<1>2. Vaults' /\ Present' /\ Tails'
  BY TailsStay DEF IInv, Vaults, Present, Unused
<1>3. Jobs'
  BY DEF IInv, Jobs, Promised, Stage, Unused
<1>4. Work'
  BY DEF IInv, Work
<1> QED BY <1>1, <1>2, <1>3, <1>4 DEF IInv

LEMMA RecoverAdoptKeeps == ASSUME SessionAssumption, IInv, RecoverAdopt PROVE IInv'
<1>1. /\ ses \in Session /\ job \in Job /\ job.kind = "recover" /\ job.pc = "adopt"
      /\ UNCHANGED <<vault, given, caller, op, handle, consumer, key, saved>>
      /\ ses.recovery = "running" /\ ses.opening = "ready" /\ Unused # {}
  BY DEF IInv, TypeOK, Jobs, RecoverAdopt
<1>2. CASE RecoverEnds([ses EXCEPT !.status = "failed"])
  <2> DEFINE t == [ses EXCEPT !.status = "failed"]
  <2>1. /\ t \in Session /\ t.live = ses.live /\ t.info = ses.info /\ t.opening = ses.opening
        /\ t.resetting = ses.resetting /\ t.closing = ses.closing
    BY <1>1 DEF Session
  <2> HIDE DEF t
  <2>2. RecoverEnds(t)
    BY <1>2 DEF t
  <2>3. ~ses.closing
    BY <1>1 DEF IInv, Jobs
  <2> QED BY <1>1, <2>1, <2>2, <2>3, RecoverEndsTyped, EndKeeps DEF IInv, TypeOK
<1>3. CASE job' = [job EXCEPT !.pc = "flush"] /\ UNCHANGED ses
  <2>1. job' \in Job /\ job'.kind = "recover" /\ job'.pc = "flush"
    BY <1>1, <1>3 DEF Job
  <2>2. TypeOK'
    BY <1>1, <1>3, <2>1 DEF IInv, TypeOK
  <2>3. Vaults' /\ Present' /\ Tails' /\ Work'
    BY <1>1, <1>3 DEF IInv, Vaults, Present, Tails, Work, Unused
  <2>4. Jobs' /\ Drained'
    BY <1>1, <1>3, <2>1 DEF IInv, Jobs, Drained, Promised, Stage, Unused
  <2> QED BY <2>2, <2>3, <2>4 DEF IInv
<1> QED BY <1>2, <1>3 DEF RecoverAdopt

LEMMA RecoverFlushKeeps == ASSUME SessionAssumption, IInv, RecoverFlush PROVE IInv'
<1>1. /\ ses \in Session /\ job \in Job /\ job.kind = "recover" /\ job.pc = "flush"
      /\ UNCHANGED <<vault, given, caller, op, handle, key, saved>>
      /\ ses.opening = "ready"
  BY DEF IInv, TypeOK, Jobs, RecoverFlush
<1>2. ses' = [ses EXCEPT !.failure = IF Flushes(ses.info) THEN @ ELSE ses.info, !.live = NoMount] /\ Dispose("recover")
  BY DEF RecoverFlush
<1>3. /\ ses' \in Session /\ ses'.info = ses.info /\ ses'.opening = ses.opening /\ ses'.recovery = ses.recovery
      /\ ses'.closing = ses.closing /\ ses'.resetting = ses.resetting /\ ses'.live = NoMount
  BY <1>1, <1>2 DEF Session, Mount
<1>4. /\ consumer' \in [Consumers -> ConsumerState] /\ job' \in Job /\ job'.kind = "recover" /\ job'.pc = "dispose"
  BY <1>2, DisposeTyped DEF IInv, TypeOK
<1>5. Drained'
  BY <1>4 DEF Drained
<1>6. ~Promised
  BY <1>1 DEF Promised
<1>7. handle \in [Handles -> Handle]
  BY DEF IInv, TypeOK
<1>8. job'.kind = job.kind /\ job.kind # "none" /\ job.pc # "initialize" /\ job.pc # "offline" /\ job'.pc \in Stage
  BY <1>1, <1>4 DEF Stage
<1> QED BY <1>1, <1>3, <1>4, <1>5, <1>6, <1>7, <1>8, StageKeeps

LEMMA OpenedKeeps == ASSUME SessionAssumption, IInv, Opened \/ KeysSuspended PROVE IInv'
<1>1. /\ ses \in Session /\ job \in Job /\ job.pc \in {"opening", "keys"} /\ ~Promised
      /\ UNCHANGED <<ses, vault, given, caller, op, handle, key, saved>> /\ job.kind \in {"reset", "close"}
  BY DEF IInv, TypeOK, Jobs, Opened, KeysSuspended, Job
<1>2. CASE Dispose(job.kind)
  <2>1. /\ consumer' \in [Consumers -> ConsumerState] /\ job' \in Job /\ job'.kind = job.kind /\ job'.pc = "dispose"
    BY <1>1, <1>2, DisposeTyped DEF IInv, TypeOK
  <2>2. Drained'
    BY <2>1 DEF Drained
  <2> QED BY <1>1, <2>1, <2>2, StageKeeps DEF Stage, IInv, TypeOK
<1>3. CASE job.kind = "reset" /\ job' = [job EXCEPT !.pc = "keys"] /\ UNCHANGED consumer
  <2>1. job' \in Job /\ job'.kind = "reset" /\ job'.pc = "keys"
    BY <1>1, <1>3 DEF Job
  <2>2. TypeOK'
    BY <1>1, <1>3, <2>1 DEF IInv, TypeOK
  <2>3. Vaults' /\ Present' /\ Tails' /\ Work'
    BY <1>1, <1>3 DEF IInv, Vaults, Present, Tails, Work, Unused
  <2>4. Jobs' /\ Drained'
    BY <1>1, <1>3, <2>1 DEF IInv, Jobs, Drained, Promised, Stage, Unused
  <2> QED BY <2>2, <2>3, <2>4 DEF IInv
<1>4. KeysSuspended => job.kind = "reset"
  BY DEF KeysSuspended, IInv, Jobs
<1> QED BY <1>1, <1>2, <1>3, <1>4 DEF Opened, KeysSuspended

\* A job that rejects.
LEMMA ThrowKeeps ==
  ASSUME SessionAssumption, IInv, job.kind # "none", job.pc \in Stage, JobThrows,
         consumer' \in [Consumers -> ConsumerState], UNCHANGED <<vault, given, caller, op, handle, saved>>
  PROVE  IInv'
<1>1. ses \in Session /\ job \in Job /\ key \in BOOLEAN
  BY DEF IInv, TypeOK
<1>2. ses.recovery = "running" => job.kind = "recover"
  BY DEF IInv, Jobs
<1>3. ses.closing => job.kind = "close"
  BY DEF IInv, Jobs
<1> QED BY <1>1, <1>2, <1>3, JobThrowsTyped, EndKeeps DEF IInv, TypeOK

LEMMA DisposedKeeps == ASSUME SessionAssumption, IInv, Disposed PROVE IInv'
<1>1. /\ ses \in Session /\ job \in Job /\ job.pc = "dispose" /\ consumer \in [Consumers -> ConsumerState]
      /\ UNCHANGED <<vault, given, caller, op, handle, saved>> /\ job.kind # "none" /\ ~Promised
  BY DEF IInv, TypeOK, Jobs, Stage, Disposed
<1>2. consumer' \in [Consumers -> ConsumerState]
  BY <1>1 DEF Disposed, ConsumerState
<1>3. CASE JobThrows
  BY <1>1, <1>2, <1>3, ThrowKeeps DEF Stage
<1>4. CASE job' = [job EXCEPT !.pc = "ops", !.wait = Running] /\ UNCHANGED <<ses, key>>
  <2>1. job' \in Job /\ job'.kind = job.kind /\ job'.pc = "ops" /\ job'.wait = Running
    BY <1>1, <1>4 DEF Job, Running, InUse
  <2>2. Drained'
    BY <1>1, <2>1 DEF Drained, Running, InUse
  <2>3. ses.live = NoMount \/ job.kind # "recover"
    BY <1>1 DEF IInv, Jobs, Stage
  <2> QED BY <1>1, <1>2, <1>4, <2>1, <2>2, <2>3, StageKeeps DEF Stage, IInv, TypeOK
<1> QED BY <1>3, <1>4 DEF Disposed

LEMMA OpsSettledKeeps == ASSUME SessionAssumption, IInv, OpsSettled PROVE IInv'
<1>1. /\ ses \in Session /\ job \in Job /\ job.pc = "ops" /\ handle \in [Handles -> Handle]
      /\ UNCHANGED <<ses, vault, given, caller, op, consumer, key, saved>> /\ job.kind # "none" /\ ~Promised
      /\ job' = [job EXCEPT !.pc = "handles", !.wait = OpenHandles]
      /\ handle' = [h \in Handles |-> IF handle[h].st = "open" THEN [handle[h] EXCEPT !.st = "closing"] ELSE handle[h]]
  BY DEF IInv, TypeOK, Jobs, Stage, OpsSettled
<1>2. job' \in Job /\ job'.kind = job.kind /\ job'.pc = "handles" /\ job'.wait = OpenHandles
  BY <1>1 DEF Job, OpenHandles, InUse
<1>3. /\ handle' \in [Handles -> Handle]
      /\ \A h \in Handles : /\ handle'[h].st # "open"
                           /\ handle'[h].st = "closing" => handle[h].st \in {"open", "closing"} /\ handle'[h].mount = handle[h].mount
  BY <1>1 DEF Handle
<1>4. \A o \in Ops : op[o].pc = "idle"
  BY <1>1 DEF OpsSettled, IInv, Drained
<1>5. \A h \in Handles : handle'[h].st = "closing" => h \in OpenHandles
  BY <1>3 DEF OpenHandles, InUse
<1>6. Drained'
  BY <1>1, <1>2, <1>3, <1>4, <1>5 DEF Drained
<1>7. ses.live = NoMount \/ job.kind # "recover"
  BY <1>1 DEF IInv, Jobs, Stage
<1> QED BY <1>1, <1>2, <1>3, <1>6, <1>7, StageKeeps DEF Stage, IInv, TypeOK

LEMMA HandlesClosedKeeps == ASSUME SessionAssumption, IInv, HandlesClosed PROVE IInv'
<1>1. /\ ses \in Session /\ job \in Job /\ job.pc = "handles" /\ handle \in [Handles -> Handle]
      /\ UNCHANGED <<vault, given, caller, op, consumer, saved>> /\ job.kind # "none" /\ ~Promised
  BY DEF IInv, TypeOK, Jobs, Stage, HandlesClosed
<1>2. CASE JobThrows /\ UNCHANGED handle
  BY <1>1, <1>2, ThrowKeeps DEF Stage, IInv, TypeOK
<1>3. CASE /\ handle' = handle \/ handle' = [h \in Handles |-> NoHandle]
           /\ job' = [job EXCEPT !.pc = "vault", !.wait = {}] /\ UNCHANGED <<ses, key>>
  <2>1. job' \in Job /\ job'.kind = job.kind /\ job'.pc = "vault"
    BY <1>1, <1>3 DEF Job
  <2>2. /\ handle' \in [Handles -> Handle]
        /\ \A h \in Handles : handle'[h] = handle[h] \/ handle'[h].st = "none"
    BY <1>1, <1>3 DEF Handle, NoHandle, Mount
  <2>3. \A h \in Handles : handle[h].st \notin {"open", "closing"}
    <3>1. \A h \in job.wait : handle[h].st # "closing"
      BY DEF HandlesClosed
    <3> QED BY <1>1, <3>1 DEF IInv, Drained
  <2>4. Drained'
    BY <1>1, <2>1, <2>2, <2>3 DEF IInv, Drained
  <2>5. ses.live = NoMount \/ job.kind # "recover"
    BY <1>1 DEF IInv, Jobs, Stage
  <2> QED BY <1>1, <1>3, <2>1, <2>2, <2>4, <2>5, StageKeeps DEF Stage, IInv, TypeOK
<1> QED BY <1>2, <1>3 DEF HandlesClosed

-----------------------------------------------------------------------------

\* The release of the root: no work is left, so no mount need be open.
LEMMA ReleaseKeeps ==
  ASSUME SessionAssumption, IInv, job.pc = "vault", NEW st \in {"closed", "erased"}, Released(st),
         ses' \in Session, ses'.live = NoMount, ses'.info = NoMount, ses'.opening \in {"none", "vault"},
         ses'.opening = "vault" => Unused # {},
         job' \in Job, caller' = Rejected, {key', saved'} \subseteq BOOLEAN,
         \/ /\ job' = NoJob /\ ~ses'.closing /\ ses'.recovery # "running"
         \/ /\ job' = [kind |-> "close", pc |-> "opening", wait |-> {}] /\ ses'.closing /\ ses'.recovery # "running"
         \/ /\ job'.kind = "recover" /\ job'.pc = "initialize" /\ ~ses'.closing
            /\ ses'.recovery = "running" /\ ses'.opening = "vault",
         UNCHANGED <<given, op, handle, consumer>>
  PROVE  IInv'
<1>1. vault \in [Mounts -> Vault] /\ ses.info \in Mount /\ caller \in [Callers -> Caller] /\ given \subseteq Mounts
  BY DEF IInv, TypeOK, Session
<1>2. /\ vault' \in [Mounts -> Vault]
      /\ \A m \in Mounts : vault'[m].st = IF m = ses.info THEN st ELSE vault[m].st
  BY <1>1 DEF Released, Vault, Mount, NoMount, Mounts
<1>3. caller' \in [Callers -> Caller] /\ \A c \in Callers : caller'[c].pc # "idle" => caller'[c] = caller[c]
  BY <1>1, RejectedTyped
<1>4. TypeOK'
  BY <1>2, <1>3 DEF IInv, TypeOK
<1>5. \A m \in Mounts : /\ vault'[m].st = "unused" <=> vault[m].st = "unused"
                        /\ vault'[m].st # "open" /\ m # NoMount
  BY <1>2 DEF IInv, Vaults, Mounts, NoMount
<1>6. Vaults'
  BY <1>1, <1>5 DEF IInv, Vaults
<1>7. Present'
  BY <1>5 DEF Present, Unused
<1>8. Tails'
  BY <1>3, <1>5 DEF IInv, Tails
<1>9. Jobs'
  BY DEF Jobs, NoJob, Promised, Stage
<1>10. Work'
  BY DEF IInv, Work, Drained
<1>11. Drained'
  BY DEF Drained, NoJob
<1> QED BY <1>4, <1>6, <1>7, <1>8, <1>9, <1>10, <1>11 DEF IInv

LEMMA RecoverReleaseKeeps == ASSUME SessionAssumption, IInv, RecoverRelease PROVE IInv'
<1>1. /\ ses \in Session /\ job \in Job /\ job.kind = "recover" /\ job.pc = "vault" /\ {key, saved} \subseteq BOOLEAN
      /\ UNCHANGED <<given, op, handle, consumer, key, saved>> /\ Released("closed") /\ caller' = Rejected
      /\ ses.recovery = "running" /\ ~ses.closing /\ Unused # {}
  BY DEF IInv, TypeOK, Jobs, RecoverRelease
<1>2. CASE RecoverEnds([Cleared(ses) EXCEPT !.status = "failed"])
  <2> DEFINE t == [Cleared(ses) EXCEPT !.status = "failed"]
  <2>1. /\ t \in Session /\ t.live = NoMount /\ t.info = NoMount /\ t.opening = "none" /\ ~t.closing
    BY <1>1, ClearedTyped DEF Session
  <2> HIDE DEF t
  <2>2. RecoverEnds(t)
    BY <1>2 DEF t
  <2> QED BY <1>1, <2>1, <2>2, RecoverEndsTyped, ReleaseKeeps
<1>3. CASE ses' = [Cleared(ses) EXCEPT !.opening = "vault"] /\ job' = [job EXCEPT !.pc = "initialize"]
  <2>1. /\ ses' \in Session /\ ses'.live = NoMount /\ ses'.info = NoMount /\ ses'.opening = "vault" /\ ~ses'.closing
        /\ ses'.recovery = "running"
    BY <1>1, <1>3, ClearedTyped DEF Session
  <2>2. job' \in Job /\ job'.kind = "recover" /\ job'.pc = "initialize"
    BY <1>1, <1>3 DEF Job
  <2> QED BY <1>1, <2>1, <2>2, ReleaseKeeps
<1> QED BY <1>2, <1>3 DEF RecoverRelease

LEMMA RecoverDoneKeeps == ASSUME SessionAssumption, IInv, RecoverDone PROVE IInv'
<1>1. /\ ses \in Session /\ job \in Job /\ job.kind = "recover" /\ job.pc = "offline"
      /\ UNCHANGED <<vault, caller, op, handle, consumer, key, saved>>
      /\ ses.recovery = "running" /\ ~ses.closing /\ ses.opening = "ready" /\ ses.info \in Mounts
      /\ given' \in {given, given \cup {ses.info}} /\ given \subseteq Mounts
  BY DEF IInv, TypeOK, Jobs, Present, RecoverDone, Session, Mount
<1>2. PICK t \in {[ses EXCEPT !.failure = NoMount, !.status = "open"], [ses EXCEPT !.status = "failed"]} : RecoverEnds(t)
  BY DEF RecoverDone
<1>3. /\ t \in Session /\ t.live = ses.live /\ t.info = ses.info /\ t.opening = ses.opening
      /\ t.resetting = ses.resetting /\ t.closing = ses.closing
  BY <1>1, <1>2 DEF Session, Mount
<1> QED BY <1>1, <1>2, <1>3, RecoverEndsTyped, EndKeeps DEF IInv, TypeOK

LEMMA ResetReleaseKeeps == ASSUME SessionAssumption, IInv, ResetRelease PROVE IInv'
<1>1. /\ ses \in Session /\ job.kind = "reset" /\ job.pc = "vault" /\ saved \in BOOLEAN
      /\ UNCHANGED <<given, op, handle, consumer>> /\ caller' = Rejected
      /\ job' = NoJob /\ key' = FALSE /\ saved' \in {FALSE, saved}
      /\ ses.recovery # "running" /\ ~ses.closing
  BY DEF IInv, TypeOK, Jobs, ResetRelease
<1>2. PICK st \in {"closed", "erased"} : Released(st)
  BY DEF ResetRelease
<1>3. ses' = [Cleared(ses) EXCEPT !.failure = NoMount, !.status = "closed"] \/ ses' = [Cleared(ses) EXCEPT !.status = "closed"]
  BY DEF ResetRelease
<1>4. /\ ses' \in Session /\ ses'.live = NoMount /\ ses'.info = NoMount /\ ses'.opening = "none" /\ ~ses'.closing
      /\ ses'.recovery # "running"
  <2> DEFINE t == Cleared(ses)
  <2>1. /\ t \in Session /\ t.live = NoMount /\ t.info = NoMount /\ t.opening = "none" /\ ~t.closing
        /\ t.recovery # "running"
    BY <1>1, ClearedTyped
  <2>2. ses' = [t EXCEPT !.failure = NoMount, !.status = "closed"] \/ ses' = [t EXCEPT !.status = "closed"]
    BY <1>3
  <2> HIDE DEF t
  <2> QED BY <2>1, <2>2 DEF Session, Mount
<1>5. NoJob \in Job
  BY DEF NoJob, Job
<1> QED BY <1>1, <1>2, <1>4, <1>5, ReleaseKeeps

LEMMA CloseReleaseKeeps == ASSUME SessionAssumption, IInv, CloseRelease PROVE IInv'
<1>1. /\ ses \in Session /\ job.kind = "close" /\ job.pc = "vault" /\ {key, saved} \subseteq BOOLEAN
      /\ UNCHANGED <<given, op, handle, consumer, key, saved>> /\ caller' = Rejected
      /\ job' = NoJob /\ Released("closed") /\ ses.recovery # "running"
      /\ ses' = [Cleared(ses) EXCEPT !.status = "closed", !.closing = FALSE]
  BY DEF IInv, TypeOK, Jobs, CloseRelease
<1>2. /\ ses' \in Session /\ ses'.live = NoMount /\ ses'.info = NoMount /\ ses'.opening = "none" /\ ~ses'.closing
      /\ ses'.recovery # "running"
  BY <1>1, ClearedTyped DEF Session
<1>3. NoJob \in Job
  BY DEF NoJob, Job
<1> QED BY <1>1, <1>2, <1>3, ReleaseKeeps

-----------------------------------------------------------------------------

LEMMA NextIInv == ASSUME SessionAssumption, IInv, [Next]_vars PROVE IInv'
<1>1. CASE InitStep
  BY <1>1, InitVaultKeeps, InitMkdirKeeps, InitPersistKeeps, InitUndoKeeps DEF InitStep
<1>2. CASE JobStep
  BY <1>2, RecoverAdoptKeeps, RecoverFlushKeeps, OpenedKeeps, DisposedKeeps, OpsSettledKeeps,
     HandlesClosedKeeps, RecoverReleaseKeeps, RecoverDoneKeeps, ResetReleaseKeeps, CloseReleaseKeeps DEF JobStep
<1>3. CASE RecoverCall \/ ResetCall \/ CloseCall
  BY <1>3, CallKeeps
<1>4. CASE \E c \in Callers : OpenCall(c) \/ Tail(c)
  BY <1>4, OpenCallKeeps, TailKeeps
<1>5. CASE \E o \in Ops : (\E kind \in {"read", "write", "open"} : StartOp(o, kind)) \/ Finish(o)
  BY <1>5, StartOpKeeps, FinishKeeps
<1>6. CASE \E h \in Handles : CloseHandle(h) \/ HandleClosed(h)
  BY <1>6, HandleKeeps
<1>7. CASE \/ KeyChanges \/ UNCHANGED vars
           \/ \E k \in Consumers : Register(k) \/ Teardown(k) \/ TornDown(k)
           \/ \E m \in Mounts : LoseWrite(m)
  BY <1>7, AroundKeeps
<1> QED BY <1>1, <1>2, <1>3, <1>4, <1>5, <1>6, <1>7 DEF Next

\* The inductive invariant, for any number of mounts, callers, operations, open
\* files and consumers, whether or not recovery takes the lock.
THEOREM SessionInvariant == Spec => []IInv
<1>1. Init => IInv
  BY InitIInv, SessionAssumption
<1>2. IInv /\ [Next]_vars => IInv'
  BY NextIInv, SessionAssumption
<1> QED BY <1>1, <1>2, PTL DEF Spec

\* The session's state stays in its types (the fields of StorageSession,
\* session.ts).
THEOREM SessionTypes == Spec => []TypeOK
<1>1. IInv => TypeOK
  BY DEF IInv
<1> QED BY <1>1, SessionInvariant, PTL

\* recover, reset and close never close or erase a vault under an operation that
\* passed the gate or under an open file (session.ts, gate and teardown).
THEOREM NoWorkAfterRelease == Spec => []NoWorkOnReleasedVault
<1>1. IInv => NoWorkOnReleasedVault
  BY DEF IInv, TypeOK, Vaults, Work, NoWorkOnReleasedVault, OpsDone, FilesDone
<1> QED BY <1>1, SessionInvariant, PTL

\* The failure of a write is noted for the mount that the session has.
LEMMA FailureOfPresent ==
  ASSUME IInv, Next, ses'.failure # ses.failure
  PROVE  ses'.failure \in {NoMount, ses.info}
<1> DEFINE Own == ses'.failure \in {ses.failure, NoMount, ses.info}
<1> SUFFICES Own
  OBVIOUS
<1>1. ses \in Session /\ ses.live \in {NoMount, ses.info} /\ job \in Job /\ ses.info \in Mount
  BY DEF IInv, TypeOK, Present, Session
<1>2. \A m \in Mount : Failed(ses, m) \in Session /\ Failed(ses, m).failure \in {ses.failure, NoMount, ses.info}
  <2> SUFFICES ASSUME NEW m \in Mount
               PROVE  Failed(ses, m) \in Session /\ Failed(ses, m).failure \in {ses.failure, NoMount, ses.info}
    OBVIOUS
  <2>1. Failed(ses, m).failure \in {ses.failure, ses.live}
    BY <1>1 DEF Failed, Session
  <2> QED BY <1>1, <2>1, FailedTyped
<1>3. \A t \in Session : RecoverEnds(t) => ses'.failure = t.failure
  BY RecoverEndsTyped
<1>4. CASE InitFailed(ses)
  <2>1. Cleared(ses) \in Session /\ Cleared(ses).failure = ses.failure
    BY <1>1, ClearedTyped
  <2> DEFINE t == [Cleared(ses) EXCEPT !.status = "failed"]
  <2>2. t \in Session /\ t.failure = ses.failure
    BY <2>1 DEF Session
  <2>3. RecoverEnds(t) \/ ses' = t
    BY <1>4 DEF InitFailed
  <2> HIDE DEF t
  <2> QED BY <1>3, <2>2, <2>3
<1>5. CASE InitStep
  <2>1. CASE InitVault \/ InitUndo
    <3>1. CASE InitFailed(ses)
      BY <1>4, <3>1
    <3>2. CASE ses' = [ses EXCEPT !.opening = "mkdir", !.live = NextMount, !.info = NextMount]
      BY <1>1, <3>2 DEF Session
    <3> QED BY <2>1, <3>1, <3>2 DEF InitVault, InitUndo
  <2>2. CASE InitMkdir \/ InitPersist
    <3>1. PICK s \in {ses, Failed(ses, ses.info)}, w \in {"persist", "undo", "ready"} : ses' = [s EXCEPT !.opening = w]
      BY <2>2 DEF InitMkdir, InitPersist
    <3>2. s \in Session /\ s.failure \in {ses.failure, NoMount, ses.info}
      BY <1>1, <1>2, <3>1
    <3> QED BY <3>1, <3>2 DEF Session
  <2> QED BY <1>5, <2>1, <2>2 DEF InitStep
<1>6. ASSUME NEW t \in Session, t.failure \in {ses.failure, NoMount, ses.info}, RecoverEnds(t) \/ ses' = t
      PROVE  Own
  BY <1>3, <1>6
<1>7. CASE job.kind # "none" /\ JobThrows
  <2>1. key \in BOOLEAN
    BY DEF IInv, TypeOK
  <2> QED BY <1>1, <1>7, <2>1, JobThrowsTyped
<1>8. /\ [ses EXCEPT !.status = "failed"] \in Session /\ [ses EXCEPT !.status = "failed"].failure = ses.failure
      /\ [ses EXCEPT !.status = "open"] \in Session /\ [ses EXCEPT !.status = "open"].failure = ses.failure
      /\ [ses EXCEPT !.failure = NoMount, !.status = "open"] \in Session
      /\ [ses EXCEPT !.failure = NoMount, !.status = "open"].failure = NoMount
  BY <1>1 DEF Session, Mount
<1>9. /\ Cleared(ses) \in Session /\ Cleared(ses).failure = ses.failure
  BY <1>1, ClearedTyped
<1>10. CASE JobStep
  <2>1. CASE RecoverAdopt \/ RecoverDone
    BY <1>3, <1>8, <2>1 DEF RecoverAdopt, RecoverDone
  <2>2. CASE RecoverFlush
    <3>1. ses' = [ses EXCEPT !.failure = IF Flushes(ses.info) THEN @ ELSE ses.info, !.live = NoMount]
      BY <2>2 DEF RecoverFlush
    <3> QED BY <1>1, <3>1 DEF Session
  <2>3. CASE Opened \/ KeysSuspended \/ OpsSettled
    BY <2>3 DEF Opened, KeysSuspended, OpsSettled
  <2>4. CASE Disposed \/ HandlesClosed
    <3>1. job.kind # "none"
      BY <2>4 DEF Disposed, HandlesClosed, IInv, Jobs
    <3>2. JobThrows \/ UNCHANGED ses
      BY <2>4 DEF Disposed, HandlesClosed
    <3> QED BY <1>7, <3>1, <3>2
  <2>5. CASE RecoverRelease
    <3>1. RecoverEnds([Cleared(ses) EXCEPT !.status = "failed"]) \/ ses' = [Cleared(ses) EXCEPT !.opening = "vault"]
      BY <2>5 DEF RecoverRelease
    <3>2. /\ [Cleared(ses) EXCEPT !.status = "failed"] \in Session
          /\ [Cleared(ses) EXCEPT !.status = "failed"].failure = ses.failure
          /\ [Cleared(ses) EXCEPT !.opening = "vault"].failure = ses.failure
      BY <1>9 DEF Session
    <3> QED BY <1>3, <3>1, <3>2
  <2>6. CASE ResetRelease \/ CloseRelease
    <3>1. \/ ses' = [Cleared(ses) EXCEPT !.failure = NoMount, !.status = "closed"]
          \/ ses' = [Cleared(ses) EXCEPT !.status = "closed"]
          \/ ses' = [Cleared(ses) EXCEPT !.status = "closed", !.closing = FALSE]
      BY <2>6 DEF ResetRelease, CloseRelease
    <3> QED BY <1>9, <3>1 DEF Session
  <2> QED BY <1>10, <2>1, <2>2, <2>3, <2>4, <2>5, <2>6 DEF JobStep
<1>11. CASE RecoverCall \/ ResetCall \/ CloseCall
  BY <1>1, <1>11 DEF RecoverCall, ResetCall, CloseCall, BeginClose, Session
<1>12. ASSUME NEW c \in Callers, OpenCall(c) \/ Tail(c) PROVE Own
  <2>1. \/ ses' = [ses EXCEPT !.opening = "vault", !.status = "opening"]
        \/ ses' = ses \/ ses' = [ses EXCEPT !.status = "open"] \/ ses' = Failed(ses, ses.info)
    BY <1>12 DEF OpenCall, Tail, AdoptTail, FlushTail, OfflineTail
  <2>2. [ses EXCEPT !.opening = "vault", !.status = "opening"].failure = ses.failure
    BY <1>1 DEF Session
  <2> QED BY <1>1, <1>2, <1>8, <2>1, <2>2
<1>13. ASSUME NEW o \in Ops, (\E kind \in {"read", "write", "open"} : StartOp(o, kind)) \/ Finish(o) PROVE Own
  <2>1. op[o].mount \in Mount
    BY DEF IInv, TypeOK, Op
  <2>2. ses' = ses \/ ses' = Failed(ses, op[o].mount)
    BY <1>13 DEF StartOp, Finish, Method, Persist
  <2> QED BY <1>2, <2>1, <2>2
<1>14. ASSUME NEW h \in Handles, CloseHandle(h) \/ HandleClosed(h) PROVE Own
  <2>1. handle[h].mount \in Mount
    BY DEF IInv, TypeOK, Handle
  <2>2. ses' = ses \/ ses' = Failed(ses, handle[h].mount)
    BY <1>14 DEF CloseHandle, HandleClosed
  <2> QED BY <1>2, <2>1, <2>2
<1>15. CASE \/ KeyChanges
            \/ \E k \in Consumers : Register(k) \/ Teardown(k) \/ TornDown(k)
            \/ \E m \in Mounts : LoseWrite(m)
  BY <1>15 DEF KeyChanges, Register, Teardown, TornDown, LoseWrite
<1> QED BY <1>5, <1>10, <1>11, <1>12, <1>13, <1>14, <1>15 DEF Next

\* A write of an earlier mount that fails late does not mark the session of a
\* later mount as failed: persist() compares epochs (session.ts).
THEOREM LateFailuresIgnored == Spec => LateFailureIgnored
<1>1. IInv /\ [Next]_vars => [ses'.failure # ses.failure => ses'.failure \in {NoMount, ses.info}]_vars
  BY FailureOfPresent
<1> QED BY <1>1, SessionInvariant, PTL DEF Spec, LateFailureIgnored
=============================================================================
