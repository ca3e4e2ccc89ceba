--------------------------- MODULE StorageSession ---------------------------
(***************************************************************************)
(* One protected file system, its consumers and its key: StorageSession of *)
(* src/storage/session.ts.  Open, recover, reset and close overlap with    *)
(* one another, with file operations, with open file handles and with the  *)
(* teardown of consumers; an action runs from one await to the next.       *)
(*                                                                         *)
(* Every initialize() mounts a vault (browser-vault.ts) of its own, here a *)
(* number.  The closures over a mount capture `epoch', which serves only   *)
(* to be compared, so `live' is the mount whose captured epoch is still    *)
(* the present one.  A rejected promise that is kept (a teardown, the      *)
(* close of a handle) keeps what it was rejected with.                     *)
(***************************************************************************)
EXTENDS Naturals

CONSTANTS Callers,    \* concurrent open() calls
          Ops,        \* slots for operations of the gated file system
          Handles,    \* slots for open file handles
          Consumers,  \* consumers that register a teardown
          MaxMounts,  \* bound: how often storage is mounted
          Fallback,   \* policy `broker' and a definitive answer of no broker
          TeardownFails,  \* whether a teardown may fail for a reason of its own
          LockedRecover   \* whether recover() is also called without a key

ASSUME SessionAssumption ==
  /\ MaxMounts \in Nat \ {0}
  /\ {Fallback, TeardownFails, LockedRecover} \subseteq BOOLEAN

VARIABLES ses,       \* the fields of the session
          vault,     \* the mounts, opened one after another
          given,     \* mounts whose info was handed out
          caller, op, handle, consumer,
          job,       \* the running recover, reset or close
          key,       \* keys.getKey() is not null
          saved      \* the bootstrap record of an encrypted vault exists

vars == <<ses, vault, given, caller, op, handle, consumer, job, key, saved>>

Mounts == 1..MaxMounts
NoMount == 0
Mount == Mounts \cup {NoMount}
Session ==
  [status : {"closed", "opening", "open", "recovering", "resetting", "failed"},
   opening : {"none", "vault", "mkdir", "persist", "undo", "ready"},
   live : Mount, info : Mount, failure : Mount, barred : Mount,
   recovery : {"none", "running", "rejected"}, closing : BOOLEAN, resetting : BOOLEAN,
   closeNext : BOOLEAN]
Vault == [st : {"unused", "open", "closed", "erased"}, enc : BOOLEAN, broken : BOOLEAN]
Caller == [pc : {"idle", "waiting", "adopt", "flush", "offline"}, mount : Mount]
Op == [pc : {"idle", "method", "persist", "probe"}, kind : {"read", "write", "open"}, mount : Mount]
Handle == [st : {"none", "open", "closing", "failed"}, mount : Mount]
ConsumerState == {"none", "registered", "closing", "lost", "stuck"}
Job == [kind : {"none", "recover", "reset", "close"},
        pc : {"none", "opening", "keys", "adopt", "flush", "dispose", "ops", "handles", "vault",
              "initialize", "offline"},
        wait : SUBSET (Consumers \cup Ops \cup Handles)]

NoJob == [kind |-> "none", pc |-> "none", wait |-> {}]
IdleCaller == [pc |-> "idle", mount |-> NoMount]
IdleOp == [pc |-> "idle", kind |-> "read", mount |-> NoMount]
NoHandle == [st |-> "none", mount |-> NoMount]

Init ==
  /\ ses = [status |-> "closed", opening |-> "none", live |-> NoMount, info |-> NoMount,
            failure |-> NoMount, barred |-> NoMount, recovery |-> "none", closing |-> FALSE,
            resetting |-> FALSE, closeNext |-> FALSE]
  /\ vault = [m \in Mounts |-> [st |-> "unused", enc |-> FALSE, broken |-> FALSE]]
  /\ given = {} /\ job = NoJob /\ key = TRUE /\ saved = FALSE
  /\ caller = [c \in Callers |-> IdleCaller] /\ op = [o \in Ops |-> IdleOp]
  /\ handle = [h \in Handles |-> NoHandle] /\ consumer = [k \in Consumers |-> "none"]

-----------------------------------------------------------------------------
(* Gates                                                                    *)

\* assertConsumerAccess of the closures over mount m.
Gate(m) ==
  /\ m = ses.live /\ ~ses.resetting /\ ~ses.closing /\ m # ses.barred
  /\ vault[m].enc => key

\* vault.flush() succeeds; a vault that lost a write refuses every flush.
Flushes(m) == vault[m].enc => vault[m].st = "open" /\ key /\ ~vault[m].broken

\* persist() of mount m settled by rejecting.
Failed(s, m) ==
  IF m = s.live /\ vault[m].enc THEN [s EXCEPT !.failure = m, !.status = "failed"] ELSE s

\* clear(); the callers that still wait on the opening are rejected with it.
Cleared(s) == [s EXCEPT !.live = NoMount, !.info = NoMount, !.opening = "none"]
Rejected == [c \in Callers |-> IF caller[c].pc = "waiting" THEN IdleCaller ELSE caller[c]]

Unused == {m \in Mounts : vault[m].st = "unused"}
NextMount == CHOOSE m \in Unused : \A n \in Unused : m <= n
Promised == ses.opening \notin {"none", "ready"}   \* `opening' has not settled

-----------------------------------------------------------------------------
(* open() and initialize()                                                  *)

OpenCall(c) ==
  /\ caller[c].pc = "idle"
  /\ ~ses.resetting /\ ses.recovery = "none" /\ ~ses.closing
  /\ \/ /\ ses.opening = "none" /\ Unused # {}
        /\ ses' = [ses EXCEPT !.opening = "vault", !.status = "opening"]
        /\ caller' = [caller EXCEPT ![c].pc = "waiting"]
     \/ /\ Promised /\ UNCHANGED ses
        /\ caller' = [caller EXCEPT ![c].pc = "waiting"]
     \/ /\ ses.opening = "ready" /\ UNCHANGED ses
        /\ caller' = [caller EXCEPT ![c] = [pc |-> "adopt", mount |-> ses.info]]
  /\ UNCHANGED <<vault, given, op, handle, consumer, job, key, saved>>

\* What close() starts with, also when it is called again after a recovery.
BeginClose(s) ==
  /\ ses' = [s EXCEPT !.closing = TRUE, !.closeNext = FALSE]
  /\ job' = [kind |-> "close", pc |-> "opening", wait |-> {}]

\* The catch and finally blocks of recover(), then a close() that waited.
RecoverEnds(s) ==
  LET t == [s EXCEPT !.recovery = "none", !.barred = NoMount]
  IN IF s.closeNext THEN BeginClose(t) ELSE ses' = t /\ job' = NoJob

\* initialize() failed and its catch block has closed the vault.
InitFailed(s) ==
  /\ caller' = Rejected
  /\ IF job.pc = "initialize"
     THEN RecoverEnds([Cleared(s) EXCEPT !.status = "failed"])
     ELSE ses' = [Cleared(s) EXCEPT !.status = "failed"] /\ UNCHANGED job

\* The choice of a root: an encrypted vault with the key, memory if nothing
\* is saved and there is definitively no broker, otherwise an error.
InitVault ==
  /\ ses.opening = "vault"
  /\ \/ /\ key \/ (Fallback /\ ~saved)
        /\ vault' = [vault EXCEPT ![NextMount] = [st |-> "open", enc |-> key, broken |-> FALSE]]
        /\ ses' = [ses EXCEPT !.opening = "mkdir", !.live = NextMount, !.info = NextMount]
        /\ saved' = (saved \/ key)
        /\ UNCHANGED <<caller, job>>
     \/ InitFailed(ses) /\ UNCHANGED <<vault, saved>>
  /\ UNCHANGED <<given, op, handle, consumer, key>>

\* mkdir('/repo') goes through the gate.
InitMkdir ==
  /\ ses.opening = "mkdir"
  /\ \/ Gate(ses.info) /\ ses' = [ses EXCEPT !.opening = "persist"]
     \/ ses' = [(IF Flushes(ses.info) THEN ses ELSE Failed(ses, ses.info))
                  EXCEPT !.opening = "undo"]
  /\ UNCHANGED <<vault, given, caller, op, handle, consumer, job, key, saved>>

\* The last step of initialize(); the callers of open() go on.
InitPersist ==
  /\ ses.opening = "persist"
  /\ IF Flushes(ses.info)
     THEN /\ ses' = [ses EXCEPT !.opening = "ready"]
          /\ caller' = [c \in Callers |-> IF caller[c].pc = "waiting"
                                          THEN [pc |-> "adopt", mount |-> ses.info] ELSE caller[c]]
          /\ job' = IF job.pc = "initialize" THEN [job EXCEPT !.pc = "offline"] ELSE job
     ELSE /\ ses' = [Failed(ses, ses.info) EXCEPT !.opening = "undo"]
          /\ UNCHANGED <<caller, job>>
  /\ UNCHANGED <<vault, given, op, handle, consumer, key, saved>>

InitUndo ==
  /\ ses.opening = "undo"
  /\ vault' = [vault EXCEPT ![ses.info].st = "closed"]
  /\ InitFailed(ses)
  /\ UNCHANGED <<given, op, handle, consumer, key, saved>>

\* owns() of the open() call c.
Owns(c) == /\ ~ses.resetting /\ ses.recovery = "none" /\ ~ses.closing
           /\ caller[c].mount = ses.live /\ caller[c].mount = ses.info

Leave(c) == caller' = [caller EXCEPT ![c] = IdleCaller]

\* adoptKey(), flush() and flushOfflinePreference() of open().
AdoptTail(c) ==
  /\ caller[c].pc = "adopt"
  /\ IF Owns(c) /\ (vault[ses.info].enc => key)
     THEN caller' = [caller EXCEPT ![c].pc = "flush"]
     ELSE Leave(c)
  /\ UNCHANGED <<ses, vault, given, op, handle, consumer, job, key, saved>>

FlushTail_NotOwned(c) ==  \* faulty: the failure is recorded without owns()
  /\ caller[c].pc = "flush"
  /\ IF Flushes(caller[c].mount)
     THEN caller' = [caller EXCEPT ![c].pc = "offline"] /\ UNCHANGED ses
     ELSE /\ Leave(c)
          /\ ses' = [ses EXCEPT !.failure = caller[c].mount, !.status = "failed"]
  /\ UNCHANGED <<vault, given, op, handle, consumer, job, key, saved>>
FlushTail(c) ==
  /\ caller[c].pc = "flush"
  /\ IF ~Owns(c) THEN Leave(c) /\ UNCHANGED ses
     ELSE IF Flushes(ses.info) THEN caller' = [caller EXCEPT ![c].pc = "offline"] /\ UNCHANGED ses
     ELSE Leave(c) /\ ses' = Failed(ses, ses.info)
  /\ UNCHANGED <<vault, given, op, handle, consumer, job, key, saved>>

OfflineTail(c) ==
  /\ caller[c].pc = "offline" /\ Leave(c)
  /\ \/ Owns(c) /\ ses' = [ses EXCEPT !.status = "open"] /\ given' = given \cup {ses.info}
     \/ UNCHANGED <<ses, given>>
  /\ UNCHANGED <<vault, op, handle, consumer, job, key, saved>>

-----------------------------------------------------------------------------
(* The gated file system, file handles and consumers                        *)

StartOp(o, kind) ==
  /\ op[o].pc = "idle"
  /\ kind = "open" => \* bound: a slot for the handle
       \E h \in Handles : handle[h].st = "none" /\ \A p \in Ops : op[p].kind # "open"
  /\ \E m \in given : Gate(m) /\ op' = [op EXCEPT ![o] = [pc |-> "method", kind |-> kind, mount |-> m]]
  /\ UNCHANGED <<ses, vault, given, caller, handle, consumer, job, key, saved>>

\* The method of the source file system settles; a mutation is then persisted,
\* after an error to learn the real one.
Method(o) ==
  /\ op[o].pc = "method"
  /\ \/ op[o].kind = "read" /\ op' = [op EXCEPT ![o] = IdleOp]
     \/ op[o].kind # "read" /\ \E pc \in {"persist", "probe"} : op' = [op EXCEPT ![o].pc = pc]
  /\ UNCHANGED <<ses, vault, given, caller, handle, consumer, job, key, saved>>

Persist(o) ==
  /\ op[o].pc \in {"persist", "probe"}
  /\ op' = [op EXCEPT ![o] = IdleOp]
  /\ IF ~Flushes(op[o].mount) THEN ses' = Failed(ses, op[o].mount) /\ UNCHANGED handle
     ELSE /\ UNCHANGED ses
          /\ IF op[o].kind = "open" /\ op[o].pc = "persist"
             THEN \E h \in Handles : /\ handle[h].st = "none"
                                     /\ handle' = [handle EXCEPT ![h] = [st |-> "open", mount |-> op[o].mount]]
             ELSE UNCHANGED handle
  /\ UNCHANGED <<vault, given, caller, consumer, job, key, saved>>

\* close() of a handle has no gate; its promise is kept.
CloseHandle(h) ==
  /\ handle[h].st = "open"
  /\ handle' = [handle EXCEPT ![h].st = "closing"]
  /\ UNCHANGED <<ses, vault, given, caller, op, consumer, job, key, saved>>

HandleClosed(h) ==
  /\ handle[h].st = "closing"
  /\ IF Flushes(handle[h].mount)
     THEN handle' = [handle EXCEPT ![h] = NoHandle] /\ UNCHANGED ses
     ELSE /\ handle' = [handle EXCEPT ![h].st = "failed"]
          /\ ses' = Failed(ses, handle[h].mount)
  /\ UNCHANGED <<vault, given, caller, op, consumer, job, key, saved>>

\* registerTeardown(), at any time; the consumer may also call its teardown.
Register(k) ==
  /\ consumer[k] = "none" /\ given # {} /\ k \notin job.wait
  /\ consumer' = [consumer EXCEPT ![k] = "registered"]
  /\ UNCHANGED <<ses, vault, given, caller, op, handle, job, key, saved>>

Teardown(k) ==
  /\ consumer[k] = "registered"
  /\ consumer' = [consumer EXCEPT ![k] = "closing"]
  /\ UNCHANGED <<ses, vault, given, caller, op, handle, job, key, saved>>

\* A teardown settles: done, unable to save, or failed otherwise.
TornDown(k) ==
  /\ consumer[k] = "closing"
  /\ \E r \in {"none", "lost"} \cup (IF TeardownFails THEN {"stuck"} ELSE {}) :
        consumer' = [consumer EXCEPT ![k] = r]
  /\ UNCHANGED <<ses, vault, given, caller, op, handle, job, key, saved>>

\* The environment: a queued block write fails; the lease goes and comes.
LoseWrite(m) ==
  /\ vault[m].st = "open" /\ vault[m].enc /\ ~vault[m].broken
  /\ \/ \E o \in Ops : op[o].mount = m /\ op[o].kind # "read"
     \/ \E h \in Handles : handle[h].mount = m /\ handle[h].st = "closing"
  /\ vault' = [vault EXCEPT ![m].broken = TRUE]
  /\ UNCHANGED <<ses, given, caller, op, handle, consumer, job, key, saved>>

KeyChanges ==
  /\ key' = ~key
  /\ UNCHANGED <<ses, vault, given, caller, op, handle, consumer, job, saved>>

-----------------------------------------------------------------------------
(* recover(), reset() and close()                                           *)

InUse(T, idle(_)) == {x \in T : ~idle(x)}
Registered == InUse(Consumers, LAMBDA k : consumer[k] = "none")
Running == InUse(Ops, LAMBDA o : op[o].pc = "idle")
OpenHandles == InUse(Handles, LAMBDA h : handle[h].st = "none")

\* disposeConsumers() up to its await.
Dispose(kind) ==
  /\ consumer' = [k \in Consumers |-> IF consumer[k] = "registered" THEN "closing" ELSE consumer[k]]
  /\ job' = [kind |-> kind, pc |-> "dispose", wait |-> Registered]

RecoverCall ==
  /\ ~ses.resetting /\ ~ses.closing /\ ses.recovery = "none"
  /\ ~Promised /\ ses.status # "opening" /\ ses.info # NoMount
  /\ Unused # {}
  /\ \/ /\ key
        /\ ses' = [ses EXCEPT !.recovery = "running", !.barred = ses.live, !.status = "recovering"]
        /\ job' = [kind |-> "recover", pc |-> "adopt", wait |-> {}]
     \* requireKey() throws before the first await: the finally block has run
     \* when its caller stores the rejected promise.
     \/ /\ ~key /\ LockedRecover
        /\ ses' = [ses EXCEPT !.recovery = "rejected", !.status = "failed"]
        /\ UNCHANGED job
  /\ UNCHANGED <<vault, given, caller, op, handle, consumer, key, saved>>

RecoverAdopt ==
  /\ job.pc = "adopt"
  /\ IF vault[ses.info].enc /\ ~key
     THEN RecoverEnds([ses EXCEPT !.status = "failed"])
     ELSE job' = [job EXCEPT !.pc = "flush"] /\ UNCHANGED ses
  /\ UNCHANGED <<vault, given, caller, op, handle, consumer, key, saved>>

\* The epoch ends before the consumers are disposed of.
RecoverFlush ==
  /\ job.pc = "flush"
  /\ ses' = [ses EXCEPT !.failure = IF Flushes(ses.info) THEN @ ELSE ses.info, !.live = NoMount]
  /\ Dispose("recover")
  /\ UNCHANGED <<vault, given, caller, op, handle, key, saved>>

ResetCall ==
  /\ job.kind # "reset" /\ ses.recovery = "none" /\ ~ses.closing
  /\ ses' = [ses EXCEPT !.resetting = TRUE, !.status = "resetting"]
  /\ job' = [kind |-> "reset", pc |-> "opening", wait |-> {}]
  /\ UNCHANGED <<vault, given, caller, op, handle, consumer, key, saved>>

CloseCall ==
  /\ job.kind # "reset" /\ ~ses.closing
  /\ IF ses.recovery = "none" THEN BeginClose(ses)
     ELSE ~ses.closeNext /\ ses' = [ses EXCEPT !.closeNext = TRUE] /\ UNCHANGED job
  /\ UNCHANGED <<vault, given, caller, op, handle, consumer, key, saved>>

\* `await opening' of reset and close.
Opened ==
  /\ job.pc = "opening" /\ ~Promised
  /\ IF job.kind = "reset" THEN job' = [job EXCEPT !.pc = "keys"] /\ UNCHANGED consumer
     ELSE Dispose("close")
  /\ UNCHANGED <<ses, vault, given, caller, op, handle, key, saved>>

\* suspendForReset() has drained.
KeysSuspended ==
  /\ job.pc = "keys" /\ Dispose("reset")
  /\ UNCHANGED <<ses, vault, given, caller, op, handle, key, saved>>

\* The job rejects before it has released the root.  A reset that failed
\* leaves `resetting' set; it may be called again.
JobThrows ==
  CASE job.kind = "recover" -> RecoverEnds([ses EXCEPT !.status = "failed"]) /\ UNCHANGED key
    [] job.kind = "reset"   -> /\ ses' = [ses EXCEPT !.status = "failed"]
                               /\ job' = NoJob /\ key' = FALSE
    [] job.kind = "close"   -> ses' = [ses EXCEPT !.closing = FALSE] /\ job' = NoJob /\ UNCHANGED key

\* disposeConsumers(): a teardown that could not save is acknowledged, any
\* other failure is material and stays.
Disposed ==
  /\ job.pc = "dispose"
  /\ \A k \in job.wait : consumer[k] # "closing"
  /\ LET stuck == {k \in job.wait : consumer[k] = "stuck"}
         lost == {k \in job.wait : consumer[k] = "lost"}
         Acknowledge(D) == consumer' = [k \in Consumers |-> IF k \in D THEN "none" ELSE consumer[k]]
     IN IF stuck = {}
        THEN /\ Acknowledge(lost)
             /\ job' = [job EXCEPT !.pc = "ops", !.wait = Running]
             /\ UNCHANGED <<ses, key>>
        ELSE (\E D \in SUBSET lost : Acknowledge(D)) /\ JobThrows
  /\ UNCHANGED <<vault, given, caller, op, handle, saved>>

\* allSettled(operations), then closeHandles() up to its await.
OpsSettled_NoWait ==  \* faulty: the operations are not waited for
  /\ job.pc = "ops"
  /\ handle' = [h \in Handles |-> IF handle[h].st = "open" THEN [handle[h] EXCEPT !.st = "closing"] ELSE handle[h]]
  /\ job' = [job EXCEPT !.pc = "handles", !.wait = OpenHandles]
  /\ UNCHANGED <<ses, vault, given, caller, op, consumer, key, saved>>
OpsSettled ==
  /\ job.pc = "ops" /\ \A o \in job.wait : op[o].pc = "idle"
  /\ handle' = [h \in Handles |-> IF handle[h].st = "open" THEN [handle[h] EXCEPT !.st = "closing"] ELSE handle[h]]
  /\ job' = [job EXCEPT !.pc = "handles", !.wait = OpenHandles]
  /\ UNCHANGED <<ses, vault, given, caller, op, consumer, key, saved>>

\* closeHandles(): a rejection is acknowledged if it is the retained failure.
\* A reset discards what is left.
HandlesClosed_AllGone ==  \* faulty: waits until no handle is registered
  /\ job.pc = "handles" /\ \A h \in job.wait : handle[h].st = "none"
  /\ job' = [job EXCEPT !.pc = "vault", !.wait = {}]
  /\ UNCHANGED <<ses, vault, given, caller, op, handle, consumer, key, saved>>
HandlesClosed ==
  /\ job.pc = "handles" /\ \A h \in job.wait : handle[h].st # "closing"
  /\ LET failed == {h \in job.wait : handle[h].st = "failed"}
     IN IF job.kind # "reset" /\ \E h \in failed : handle[h].mount # ses.failure
        THEN JobThrows /\ UNCHANGED handle
        ELSE /\ handle' = IF job.kind = "reset" /\ failed # {} THEN [h \in Handles |-> NoHandle] ELSE handle
             /\ job' = [job EXCEPT !.pc = "vault", !.wait = {}]
             /\ UNCHANGED <<ses, key>>
  /\ UNCHANGED <<vault, given, caller, op, consumer, saved>>

\* vault.close(), vault.reset() or resetBrowserVault(), then clear().
Released(st) == vault' = IF ses.info = NoMount THEN vault ELSE [vault EXCEPT ![ses.info].st = st]

RecoverRelease ==
  /\ job.kind = "recover" /\ job.pc = "vault"
  /\ Released("closed") /\ caller' = Rejected
  /\ IF vault[ses.info].broken /\ ses.failure # ses.info
     THEN RecoverEnds([Cleared(ses) EXCEPT !.status = "failed"])
     ELSE /\ ses' = [Cleared(ses) EXCEPT !.opening = "vault"]
          /\ job' = [job EXCEPT !.pc = "initialize"]
  /\ UNCHANGED <<given, op, handle, consumer, key, saved>>

RecoverDone ==
  /\ job.kind = "recover" /\ job.pc = "offline"
  /\ \/ /\ given' = given \cup {ses.info}
        /\ RecoverEnds([ses EXCEPT !.failure = NoMount, !.status = "open"])
     \/ RecoverEnds([ses EXCEPT !.status = "failed"]) /\ UNCHANGED given
  /\ UNCHANGED <<vault, caller, op, handle, consumer, key, saved>>

ResetRelease ==
  /\ job.kind = "reset" /\ job.pc = "vault" /\ caller' = Rejected
  /\ \/ /\ Released("erased") /\ saved' = FALSE
        /\ ses' = [Cleared(ses) EXCEPT !.failure = NoMount, !.status = "closed"]
     \/ /\ Released("closed") /\ UNCHANGED saved   \* the erasure failed
        /\ ses' = [Cleared(ses) EXCEPT !.status = "closed"]
  /\ job' = NoJob /\ key' = FALSE
  /\ UNCHANGED <<given, op, handle, consumer>>

CloseRelease ==
  /\ job.kind = "close" /\ job.pc = "vault"
  /\ Released("closed") /\ caller' = Rejected
  /\ ses' = [Cleared(ses) EXCEPT !.status = "closed", !.closing = FALSE]
  /\ job' = NoJob
  /\ UNCHANGED <<given, op, handle, consumer, key, saved>>

InitStep == InitVault \/ InitMkdir \/ InitPersist \/ InitUndo
JobStep == \/ RecoverAdopt \/ RecoverFlush \/ Opened \/ KeysSuspended \/ Disposed \/ OpsSettled
           \/ HandlesClosed \/ RecoverRelease \/ RecoverDone \/ ResetRelease \/ CloseRelease
Tail(c) == AdoptTail(c) \/ FlushTail(c) \/ OfflineTail(c)
Finish(o) == Method(o) \/ Persist(o)

Next ==
  \/ InitStep \/ JobStep \/ RecoverCall \/ ResetCall \/ CloseCall \/ KeyChanges
  \/ \E c \in Callers : OpenCall(c) \/ Tail(c)
  \/ \E o \in Ops : (\E kind \in {"read", "write", "open"} : StartOp(o, kind)) \/ Finish(o)
  \/ \E h \in Handles : CloseHandle(h) \/ HandleClosed(h)
  \/ \E k \in Consumers : Register(k) \/ Teardown(k) \/ TornDown(k)
  \/ \E m \in Mounts : LoseWrite(m)

Spec == Init /\ [][Next]_vars

\* Promises settle: steps of the session, file operations, handles, teardowns.
Fairness == /\ WF_vars(InitStep) /\ WF_vars(JobStep)
            /\ \A o \in Ops : WF_vars(Finish(o))
            /\ \A h \in Handles : WF_vars(HandleClosed(h))
            /\ \A k \in Consumers : WF_vars(TornDown(k))
FairSpec == Spec /\ Fairness

-----------------------------------------------------------------------------
(* Properties                                                               *)

TypeOK ==
  /\ ses \in Session /\ vault \in [Mounts -> Vault] /\ given \subseteq Mounts
  /\ caller \in [Callers -> Caller] /\ op \in [Ops -> Op] /\ handle \in [Handles -> Handle]
  /\ consumer \in [Consumers -> ConsumerState] /\ job \in Job /\ {key, saved} \subseteq BOOLEAN

\* No file operation that passed the gate, and no open file, is still alive on
\* a vault that has been closed or erased: recover, reset and close bar new
\* operations before they wait for the old ones, and close the files after.
OpsDone == \A o \in Ops : op[o].pc # "idle" => vault[op[o].mount].st = "open"
FilesDone == \A h \in Handles : handle[h].st \in {"open", "closing"} => vault[handle[h].mount].st = "open"
NoWorkOnReleasedVault == OpsDone /\ FilesDone

\* A write of an earlier mount that fails late never marks the session of a
\* later mount as failed (persist() and the tail of open() compare epochs).
LateFailureIgnored ==
  [][ses'.failure # ses.failure => ses'.failure \in {NoMount, ses.info}]_vars

\* Recovery, reset and close settle, whatever overlaps with them, if the
\* promises they wait for do.
JobsSettle == job.kind # "none" ~> job.kind = "none"

\* An error message of recover() tells the user to keep the page open and to
\* retry: a recovery that has failed does not stand in the way of the next.
FailedRecoveryEnds == ses.recovery # "none" => job.kind = "recover"
=============================================================================
