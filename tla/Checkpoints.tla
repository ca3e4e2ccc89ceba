------------------------------ MODULE Checkpoints ------------------------------
(* Checkpoints of one workspace directory: the VS Code bridge (src/vscode-     *)
(* extension/checkpoint-bridge.js) over ArtipodWorkspace (src/src/checkpoint-  *)
(* workspace.ts) and its worker processes (src/src/checkpoint-worker.ts).      *)
(* Windows are processes that share the workspace and the mapping directory;   *)
(* each runs one bridge call at a time, as its queues make it.  A window may   *)
(* die at any moment: directories that serve as locks stay, and a worker that  *)
(* it started finishes alone.                                                  *)
(*                                                                             *)
(* What create and restore do to the pod is the module Snapshots; here a       *)
(* snapshot keeps the workspace's content.  Checks of paths, identities and    *)
(* modes, and fork, which does the same to a directory of its own, are left    *)
(* out.                                                                        *)
EXTENDS Naturals, FiniteSets

CONSTANTS Windows, Contexts, Contents,
          MaxSnapshots,  \* bound: snapshots ever created
          MaxCrashes,    \* bound: windows that die
          None

Dead == "dead"           \* the owner of a lock that nobody will remove

CheckpointsAssumption ==
    {None, Dead} \cap Windows = {} /\ None # Dead /\ None \notin Contents /\ MaxSnapshots \in Nat

VARIABLES work,       \* what is in the workspace
          drafts,     \* what an editor has not saved yet, or None
          snaps,      \* the snapshots' contents, or None
          mapping,    \* the mapping file of each context: a snapshot, or 0
          contextLock, workspaceLock, podLock,   \* who made the directory, or None
          call,       \* the bridge call of each window
          orphans,    \* workers whose window died: what each does
          crashes

vars == <<work, drafts, snaps, mapping, contextLock, workspaceLock, podLock, call, orphans, crashes>>

locks == <<contextLock, workspaceLock, podLock>>

Ids == 1..MaxSnapshots
Idle == [pc |-> "idle", op |-> "none", ctx |-> None, snap |-> 0]

Init ==
    /\ work \in Contents
    /\ drafts = None
    /\ snaps = [i \in Ids |-> None]
    /\ mapping = [c \in Contexts |-> 0]
    /\ contextLock = [c \in Contexts |-> None]
    /\ workspaceLock = None
    /\ podLock = None
    /\ call = [w \in Windows |-> Idle]
    /\ orphans = {}
    /\ crashes = 0

At(w, pc) == call[w].pc = pc
Goto(w, pc) == call' = [call EXCEPT ![w].pc = pc]
Return(w) == call' = [call EXCEPT ![w] = Idle]

-----------------------------------------------------------------------------
(* The bridge *)

\* capture: a mapping that is there is the answer; without one, a resumed
\* request, which must have one, throws.
Capture(w, c) ==
    /\ At(w, "idle")
    /\ mapping[c] = 0
    /\ call' = [call EXCEPT ![w] = [pc |-> "context", op |-> "create", ctx |-> c, snap |-> 0]]
    /\ UNCHANGED <<work, drafts, snaps, mapping, locks, orphans, crashes>>

LockContext(w) ==
    /\ At(w, "context")
    /\ LET c == call[w].ctx
       IN  IF contextLock[c] = None
           THEN contextLock' = [contextLock EXCEPT ![c] = w] /\ Goto(w, "reread")
           ELSE UNCHANGED contextLock /\ Return(w)
    /\ UNCHANGED <<work, drafts, snaps, mapping, workspaceLock, podLock, orphans, crashes>>

\* Another window may have finished in between.
Reread(w) ==
    /\ At(w, "reread")
    /\ Goto(w, IF mapping[call[w].ctx] = 0 THEN "save" ELSE "leave")
    /\ UNCHANGED <<work, drafts, snaps, mapping, locks, orphans, crashes>>

\* Open documents are saved before the capture, or the call fails.
SaveDocuments(w) ==
    /\ At(w, "save")
    /\ \/ /\ work' = IF drafts = None THEN work ELSE drafts
          /\ drafts' = None
          /\ Goto(w, "workspace")
       \/ Goto(w, "leave") /\ UNCHANGED <<work, drafts>>
    /\ UNCHANGED <<snaps, mapping, locks, orphans, crashes>>

Map(w) ==
    /\ At(w, "map")
    /\ mapping' = [mapping EXCEPT ![call[w].ctx] = call[w].snap]
    /\ Goto(w, "leave")
    /\ UNCHANGED <<work, drafts, snaps, locks, orphans, crashes>>

\* The finally of capture.
LeaveContext(w) ==
    /\ At(w, "leave")
    /\ contextLock' = [contextLock EXCEPT ![call[w].ctx] = None]
    /\ Return(w)
    /\ UNCHANGED <<work, drafts, snaps, mapping, workspaceLock, podLock, orphans, crashes>>

Restore(w, c) ==
    /\ At(w, "idle")
    /\ mapping[c] # 0
    /\ call' = [call EXCEPT ![w] = [pc |-> "workspace", op |-> "restore", ctx |-> c, snap |-> mapping[c]]]
    /\ UNCHANGED <<work, drafts, snaps, mapping, locks, orphans, crashes>>

-----------------------------------------------------------------------------
(* ArtipodWorkspace *)

\* What follows a failure or the end of a locked operation.
After(w, ok) == IF call[w].op = "restore" THEN "done" ELSE IF ok THEN "map" ELSE "leave"

\* withWorkspaceLock: a directory that exists means busy, its owner dead or not.
LockWorkspace(w) ==
    /\ At(w, "workspace")
    /\ IF workspaceLock = None
       THEN workspaceLock' = w /\ Goto(w, "pod")
       ELSE UNCHANGED workspaceLock /\ Goto(w, After(w, FALSE))
    /\ UNCHANGED <<work, drafts, snaps, mapping, contextLock, podLock, orphans, crashes>>

\* serialized: the lock of older callers, inside the pod.
LockPod(w) ==
    /\ At(w, "pod")
    /\ IF podLock = None
       THEN podLock' = w /\ Goto(w, "worker")
       ELSE UNCHANGED podLock /\ Goto(w, "failed")
    /\ UNCHANGED <<work, drafts, snaps, mapping, contextLock, workspaceLock, orphans, crashes>>

Fresh == {i \in Ids : snaps[i] = None /\ \A j \in 1..(i - 1) : snaps[j] # None}

\* The effect of a worker that creates, or restores snapshot i.
Worked(op, i) ==
    \/ op = "create" /\ snaps' = [snaps EXCEPT ![i] = work] /\ UNCHANGED work
    \/ op = "restore" /\ work' = snaps[i] /\ UNCHANGED snaps

\* The worker answers, or it fails before it changed anything; what one that is
\* cut off leaves is in Snapshots.
Worker(w) ==
    /\ At(w, "worker")
    /\ \/ \E i \in (IF call[w].op = "create" THEN Fresh ELSE {call[w].snap}) :
            /\ Worked(call[w].op, i)
            /\ call' = [call EXCEPT ![w].pc = "unlock", ![w].snap = i]
       \/ Goto(w, "unlockFailed") /\ UNCHANGED <<work, snaps>>
    /\ UNCHANGED <<drafts, mapping, locks, orphans, crashes>>

\* rmdir of the inner lock.
UnlockPod(w) ==
    /\ At(w, "unlock") \/ At(w, "unlockFailed")
    /\ podLock' = None
    /\ Goto(w, IF At(w, "unlock") THEN "release" ELSE "failed")
    /\ UNCHANGED <<work, drafts, snaps, mapping, contextLock, workspaceLock, orphans, crashes>>

\* rmdir of the outer lock, and the call goes on or throws.
UnlockWorkspace(w) ==
    /\ At(w, "release") \/ At(w, "failed")
    /\ workspaceLock' = None
    /\ Goto(w, After(w, At(w, "release")))
    /\ UNCHANGED <<work, drafts, snaps, mapping, contextLock, podLock, orphans, crashes>>

Done(w) ==
    /\ At(w, "done")
    /\ Return(w)
    /\ UNCHANGED <<work, drafts, snaps, mapping, locks, orphans, crashes>>

-----------------------------------------------------------------------------
(* The surroundings *)

\* The turn, or the user, writes the workspace or types into an editor.
Edit ==
    /\ \A w \in Windows : ~At(w, "worker")
    /\ \/ \E t \in Contents \ {work} : work' = t /\ UNCHANGED drafts
       \/ \E t \in Contents : drafts' = t /\ UNCHANGED work
    /\ UNCHANGED <<snaps, mapping, locks, call, orphans, crashes>>

Abandoned_Cleaned(owner, w) == IF owner = w THEN None ELSE owner

\* What was a directory of w's is one of nobody's.
Abandoned(owner, w) == IF owner = w THEN Dead ELSE owner

Crash(w) ==
    /\ ~At(w, "idle")
    /\ crashes < MaxCrashes
    /\ crashes' = crashes + 1
    /\ orphans' = IF At(w, "worker") THEN orphans \cup {<<call[w].op, call[w].snap>>} ELSE orphans
    /\ contextLock' = [c \in Contexts |-> Abandoned(contextLock[c], w)]
    /\ workspaceLock' = Abandoned(workspaceLock, w)
    /\ podLock' = Abandoned(podLock, w)
    /\ Return(w)
    /\ UNCHANGED <<work, drafts, snaps, mapping>>

OrphanEnds ==
    /\ \E o \in orphans :
         /\ orphans' = orphans \ {o}
         /\ \/ \E i \in (IF o[1] = "create" THEN Fresh ELSE {o[2]}) : Worked(o[1], i)
            \/ UNCHANGED <<work, snaps>>
    /\ UNCHANGED <<drafts, mapping, locks, call, crashes>>

\* "stop its owner before removing a stale lock": what users are told.
CleanUp ==
    /\ orphans = {}
    /\ contextLock' = [c \in Contexts |-> IF contextLock[c] = Dead THEN None ELSE contextLock[c]]
    /\ workspaceLock' = IF workspaceLock = Dead THEN None ELSE workspaceLock
    /\ podLock' = IF podLock = Dead THEN None ELSE podLock
    /\ locks' # locks
    /\ UNCHANGED <<work, drafts, snaps, mapping, call, orphans, crashes>>

Step(w) ==
    \/ \E c \in Contexts : Restore(w, c) \/ Capture(w, c)
    \/ LockContext(w) \/ Reread(w) \/ SaveDocuments(w) \/ Map(w) \/ LeaveContext(w)
    \/ LockWorkspace(w) \/ LockPod(w) \/ Worker(w) \/ UnlockPod(w) \/ UnlockWorkspace(w) \/ Done(w)
    \/ Crash(w)

Next == Edit \/ OrphanEnds \/ CleanUp \/ \E w \in Windows : Step(w)

Spec == Init /\ [][Next]_vars

-----------------------------------------------------------------------------
(* Properties *)

Owners == Windows \cup {None, Dead}

TypeOK ==
    /\ work \in Contents
    /\ mapping \in [Contexts -> Ids \cup {0}]
    /\ contextLock \in [Contexts -> Owners]
    /\ {workspaceLock, podLock} \subseteq Owners

\* One worker changes the pod at a time, however windows compete and die, also
\* while a worker whose window died has not finished: what Snapshots relies on.
Working == {w \in Windows : At(w, "worker")}
OneWorker == Cardinality(Working) + Cardinality(orphans) <= 1

\* "The first capture wins, even after extension/window restart"
\* (checkpoint-bridge.js:81): a context is never bound to another snapshot.
BindingsHold == \A c \in Contexts : mapping[c] # 0 => mapping'[c] = mapping[c]
FirstCaptureWins == [][BindingsHold]_mapping

=============================================================================
