----------------------------- MODULE NativeStore ------------------------------
(* Encrypted records in a directory of the native file system:                 *)
(* createNativeStorageAdapters (src/src/storage/node.ts).  A record is written *)
(* to a temporary file, synced, renamed over the old one, and the directory is *)
(* synced.  Losing power keeps what was synced and any part of the rest;       *)
(* killing a process loses nothing that the file system was told.              *)
(*                                                                             *)
(* A process has one write under way at a time, and releases its lock after it *)
(* (StorageSession).  Left out: the layout checks and the temporary files that *)
(* a dead process leaves, which the next writer removes.                       *)
EXTENDS FiniteSets

CONSTANTS Procs, Names, Values,
          None,   \* no record, nobody
          Torn    \* a part of a record

NativeStoreAssumption == None # Torn /\ {None, Torn} \cap (Values \cup Procs) = {}

VARIABLES lock,     \* .writer.lock: whose it is, and whether it is complete
          proc,     \* per process: whether it holds ownedToken, and its write
          visible,  \* per name, what a reader finds
          onDisk,   \* per name, what a reader may find after a loss of power
          acked,    \* history: per name, what a write was acknowledged to be
          tried     \* history: per name, the writes begun since

vars == <<lock, proc, visible, onDisk, acked, tried>>

Idle == [owned |-> FALSE, pc |-> "idle", name |-> None, value |-> None]
NoLock == [by |-> None, full |-> FALSE]

Init ==
    /\ lock = NoLock /\ proc = [p \in Procs |-> Idle]
    /\ visible = [n \in Names |-> None] /\ onDisk = [n \in Names |-> {None}]
    /\ acked = [n \in Names |-> None] /\ tried = [n \in Names |-> {}]

Records == <<visible, onDisk, acked, tried>>
At(p, pc) == proc[p].pc = pc
Goes(p, pc) == proc' = [proc EXCEPT ![p].pc = pc]

-------------------------------------------------------------------------------
(* The lock *)

\* acquireWriter: open with "wx", the only way to own the lock.  Any lock that is
\* there refuses it, also one that a dead process left.
Acquire(p) ==
    /\ At(p, "idle") /\ ~proc[p].owned /\ lock = NoLock
    /\ lock' = [by |-> p, full |-> FALSE]
    /\ proc' = [proc EXCEPT ![p] = [Idle EXCEPT !.owned = TRUE, !.pc = "locking"]]
    /\ UNCHANGED Records

Locked(p) ==
    /\ At(p, "locking") /\ lock' = [lock EXCEPT !.full = TRUE] /\ Goes(p, "idle")
    /\ UNCHANGED Records

\* It cannot be written, and often removed.
LockFails(p) ==
    /\ At(p, "locking") /\ lock' \in {NoLock, lock} /\ proc' = [proc EXCEPT ![p] = Idle]
    /\ UNCHANGED Records

\* assertOwned
Asserts(p) == proc[p].owned /\ lock = [by |-> p, full |-> TRUE]

Release(p) ==
    /\ At(p, "idle") /\ Asserts(p)
    /\ lock' = NoLock /\ proc' = [proc EXCEPT ![p] = Idle]
    /\ UNCHANGED Records

-------------------------------------------------------------------------------
(* Records *)

\* atomicWrite: the temporary file is written.
Begin(p, n, v) ==
    /\ At(p, "idle") /\ Asserts(p)
    /\ proc' = [proc EXCEPT ![p] = [@ EXCEPT !.pc = "written", !.name = n, !.value = v]]
    /\ tried' = [tried EXCEPT ![n] = @ \cup {v}]
    /\ UNCHANGED <<lock, visible, onDisk, acked>>

Sync(p) == At(p, "written") /\ Goes(p, "synced") /\ UNCHANGED <<lock, Records>>

\* A rename that does not wait for the file to be synced.
MayRename_Unsynced(p) == At(p, "written") \/ At(p, "synced")

MayRename(p) == At(p, "synced")

Rename(p) ==
    /\ MayRename(p) /\ Asserts(p) /\ Goes(p, "renamed")
    /\ LET n == proc[p].name
           v == proc[p].value
       IN  /\ visible' = [visible EXCEPT ![n] = v]
           /\ onDisk' = [onDisk EXCEPT ![n] = @ \cup {v} \cup (IF At(p, "synced") THEN {} ELSE {Torn})]
    /\ UNCHANGED <<lock, acked, tried>>

\* delete(id)
Delete(p, n) ==
    /\ At(p, "idle") /\ Asserts(p)
    /\ proc' = [proc EXCEPT ![p] = [@ EXCEPT !.pc = "renamed", !.name = n, !.value = None]]
    /\ visible' = [visible EXCEPT ![n] = None] /\ onDisk' = [onDisk EXCEPT ![n] = @ \cup {None}]
    /\ tried' = [tried EXCEPT ![n] = @ \cup {None}]
    /\ UNCHANGED <<lock, acked>>

\* syncDirectory; the caller has its answer.
Answered(p) ==
    /\ At(p, "renamed")
    /\ LET n == proc[p].name
       IN  /\ acked' = [acked EXCEPT ![n] = proc[p].value] /\ tried' = [tried EXCEPT ![n] = {}]
    /\ onDisk' = [m \in Names |-> {visible[m]}]
    /\ proc' = [proc EXCEPT ![p] = [Idle EXCEPT !.owned = TRUE]]
    /\ UNCHANGED <<lock, visible>>

\* Any of these steps throws; a renamed record stays renamed.
Fails(p) ==
    /\ proc[p].pc \in {"written", "synced", "renamed"}
    /\ proc' = [proc EXCEPT ![p] = [Idle EXCEPT !.owned = TRUE]]
    /\ UNCHANGED <<lock, Records>>

-------------------------------------------------------------------------------
(* Crashes, and the operator *)

Kill(p) ==
    /\ proc[p] # Idle /\ proc' = [proc EXCEPT ![p] = Idle]
    /\ UNCHANGED <<lock, Records>>

PowerLoss ==
    /\ proc' = [p \in Procs |-> Idle]
    /\ visible' \in [Names -> UNION {onDisk[n] : n \in Names}]
    /\ \A n \in Names : visible'[n] \in onDisk[n]
    /\ onDisk' = [n \in Names |-> {visible'[n]}]
    /\ lock' \in {NoLock, lock, [lock EXCEPT !.full = FALSE]}
    /\ UNCHANGED <<acked, tried>>

\* The operator removes a lock after checking that no process owns the directory.
RemoveLock ==
    /\ lock # NoLock /\ \A p \in Procs : ~proc[p].owned
    /\ lock' = NoLock /\ UNCHANGED <<proc, Records>>

Next ==
    \/ \E p \in Procs :
         \/ Acquire(p) \/ Locked(p) \/ LockFails(p) \/ Release(p)
         \/ Sync(p) \/ Rename(p) \/ Answered(p) \/ Fails(p) \/ Kill(p)
         \/ \E n \in Names : Delete(p, n) \/ \E v \in Values : Begin(p, n, v)
    \/ PowerLoss \/ RemoveLock

Spec == Init /\ [][Next]_vars

-------------------------------------------------------------------------------
(* Properties *)

TypeOK ==
    /\ lock \in [by : Procs \cup {None}, full : BOOLEAN]
    /\ proc \in [Procs -> [owned : BOOLEAN, pc : {"idle", "locking", "written", "synced", "renamed"},
                           name : Names \cup {None}, value : Values \cup {None}]]
    /\ visible \in [Names -> Values \cup {None, Torn}] /\ onDisk \in [Names -> SUBSET (Values \cup {None, Torn})]

\* Whoever crashes and whatever is cut off, one process at a time writes, a record
\* is never found in part, and it is what was acknowledged last unless a later
\* write of it was begun.
RecordsKept ==
    /\ \A p, q \in Procs : proc[p].owned /\ proc[q].owned => p = q
    /\ \A n \in Names : {visible[n]} \cup onDisk[n] \subseteq {acked[n]} \cup (tried[n] \ {Torn})
===============================================================================
