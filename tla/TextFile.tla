------------------------------ MODULE TextFile ------------------------------
(***************************************************************************)
(* Crash-safe replacement of one small text file: writeStorageTextFile and *)
(* readStorageTextFile of src/storage/text-file.ts, over a file system     *)
(* whose blocks EncryptedStore (encrypted-store.ts) persists.              *)
(*                                                                         *)
(* `cache' is the directory as the running process sees it and `disk' the  *)
(* directory a restarted process will see.  One file-system call is one or *)
(* more block writes; a block write changes `cache' at once and `disk'     *)
(* when it is persisted, which the call awaits (`dirty').  In between the  *)
(* write may fail, the lease may be lost and the process may crash.        *)
(* Reads and writes of the pair of names are queued behind each other by   *)
(* withFileQueue, and callers exclude every other writer of the two names. *)
(***************************************************************************)
EXTENDS Sequences

CONSTANTS Text,      \* the texts callers write
          ReadCall,  \* the request of a readStorageTextFile call
          NoFile,    \* the name is absent (ENOENT)
          Torn       \* a name whose inode or data is not (any more) there

ASSUME ConstantsDiffer ==
  /\ ReadCall \notin Text /\ NoFile \notin Text /\ Torn \notin Text
  /\ NoFile # Torn /\ ReadCall # NoFile

VARIABLES cache,     \* contents by name, as the running process sees it
          disk,      \* contents by name, as persisted
          dirty,     \* a block write of the running call is not persisted yet
          failed,    \* EncryptedStore has remembered a failed write
          access,    \* the storage context grants access (lease held)
          queue,     \* requests waiting in withFileQueue, oldest first
          request,   \* the request being served
          pc,        \* where the served request stands
          seen,      \* what the last read returned
          acked,     \* history: text of the last acknowledged write
          attempted  \* history: texts of the writes begun since then

fsVars == <<cache, disk, dirty, failed>>
history == <<seen, acked, attempted>>
vars == <<fsVars, access, queue, request, pc, history>>

\* path and previousPath are the two reserved names; temporary and retired
\* are the opaque siblings of the write being served.
Names == {"path", "previous", "temporary", "retired"}
Content == Text \cup {NoFile, Torn}
Requests == Text \cup {ReadCall}
ReadSteps == {"readPath", "readPrevious"}
WriteSteps == {"create", "fill", "look", "recover", "retire", "unlink",
               "keep", "publish", "ack"}

Present(c) == c # NoFile

\* await read(path) ?? await read(previousPath)
Visible(dir) == IF Present(dir["path"]) THEN dir["path"] ELSE dir["previous"]

Init == /\ cache = [n \in Names |-> NoFile]
        /\ disk = cache
        /\ dirty = FALSE /\ failed = FALSE /\ access = TRUE
        /\ queue = <<>> /\ request = ReadCall /\ pc = "idle"
        /\ seen = NoFile /\ acked = NoFile /\ attempted = {}

-----------------------------------------------------------------------------
(* The file system (ZenFS StoreFS over EncryptedStore), as far as one block *)
(* write after another can be told apart from outside.                      *)

\* One block write: refused once a write has failed.
PutBlock(dir) == ~failed /\ cache' = dir /\ dirty' = TRUE /\ UNCHANGED <<disk, failed>>

\* createFile, then write.  The name exists before its text does.
CreateFile(n, next) == PutBlock([cache EXCEPT ![n] = Torn]) /\ pc' = next

WriteFile(n, t, next) == PutBlock([cache EXCEPT ![n] = t]) /\ pc' = next

\* Renaming to an absent name rewrites one directory block.  Overwriting
\* deletes the old inode first and commits the directory afterwards.
Rename(from, to, next) ==
  IF cache[to] \in {NoFile, Torn}
  THEN PutBlock([cache EXCEPT ![to] = cache[from], ![from] = NoFile]) /\ pc' = next
  ELSE PutBlock([cache EXCEPT ![to] = Torn]) /\ pc' = pc

\* Unlinking removes the inode, then the directory entry.
Unlink(n, next) ==
  IF cache[n] = Torn
  THEN PutBlock([cache EXCEPT ![n] = NoFile]) /\ pc' = next
  ELSE PutBlock([cache EXCEPT ![n] = Torn]) /\ pc' = pc

\* The block write in flight reaches the backing store.
Persist == /\ dirty
           /\ disk' = cache /\ dirty' = FALSE
           /\ UNCHANGED <<cache, failed, access, queue, request, pc, history>>

\* It fails: an I/O error, or the lease was lost before it was encrypted.
\* The error may be reported although the block was written.  The awaiting
\* call rejects, leaving the cache ahead of the disk.
PersistFails ==
  /\ dirty
  /\ disk' \in {disk, cache}
  /\ dirty' = FALSE /\ failed' = TRUE /\ pc' = "idle"
  /\ UNCHANGED <<cache, access, queue, request, history>>

-----------------------------------------------------------------------------
(* withFileQueue                                                            *)

\* A caller queues a request.  Bound: a request is outstanding at most once.
Call(r) ==
  /\ \A i \in DOMAIN queue : queue[i] # r
  /\ pc = "idle" \/ request # r
  /\ queue' = Append(queue, r)
  /\ UNCHANGED <<fsVars, access, request, pc, history>>

\* The oldest request runs once its predecessor has settled either way.
\* The siblings it will create have fresh random names: what earlier writes
\* left under theirs are orphans no later step names.
Start ==
  /\ pc = "idle" /\ queue # <<>>
  /\ request' = Head(queue) /\ queue' = Tail(queue)
  /\ IF Head(queue) = ReadCall
     THEN pc' = "readPath" /\ UNCHANGED <<cache, disk, attempted>>
     ELSE /\ pc' = "create"
          /\ cache' = [cache EXCEPT !["temporary"] = NoFile, !["retired"] = NoFile]
          /\ disk' = [disk EXCEPT !["temporary"] = NoFile, !["retired"] = NoFile]
          /\ attempted' = attempted \cup {Head(queue)}
  /\ UNCHANGED <<dirty, failed, access, seen, acked>>

\* assertAccess throws, or the store refuses a write after a failure: the
\* call rejects where it stands and nothing is rolled back.
Abort_Hangs == pc = "stopped" /\ UNCHANGED vars \* faulty: a rejection never settles
Abort ==
  /\ pc # "idle" /\ ~dirty
  /\ ~access \/ (failed /\ pc \notin ReadSteps)
  /\ pc' = "idle"
  /\ UNCHANGED <<fsVars, access, queue, request, history>>

-----------------------------------------------------------------------------
(* writeStorageTextFile.  Every step asserts access and starts only when the *)
(* previous one, with its flush, has been persisted.                         *)

At(step) == pc = step /\ access /\ ~dirty

WriteTemporary ==
  /\ \/ At("create") /\ CreateFile("temporary", "fill")
     \/ At("fill") /\ WriteFile("temporary", request, "look")
  /\ UNCHANGED <<access, queue, request, history>>

\* Where the reads of both names send the write.
Look_NoRecovery == \* faulty: a lone fallback is retired like any other
  /\ At("look")
  /\ pc' = IF Present(cache["previous"]) THEN "retire"
           ELSE IF Present(cache["path"]) THEN "keep" ELSE "publish"
  /\ UNCHANGED <<fsVars, access, queue, request, history>>
Look ==
  /\ At("look")
  /\ pc' = IF Present(cache["previous"])
           THEN IF Present(cache["path"]) THEN "retire" ELSE "recover"
           ELSE IF Present(cache["path"]) THEN "keep" ELSE "publish"
  /\ UNCHANGED <<fsVars, access, queue, request, history>>

Recover == /\ At("recover") /\ Rename("previous", "path", "keep")
           /\ UNCHANGED <<access, queue, request, history>>

Retire == /\ At("retire") /\ Rename("previous", "retired", "unlink")
          /\ UNCHANGED <<access, queue, request, history>>

UnlinkRetired == /\ At("unlink") /\ Unlink("retired", "keep")
                 /\ UNCHANGED <<access, queue, request, history>>

Keep == /\ At("keep") /\ Rename("path", "previous", "publish")
        /\ UNCHANGED <<access, queue, request, history>>

Publish == /\ At("publish") /\ Rename("temporary", "path", "ack")
           /\ UNCHANGED <<access, queue, request, history>>

\* The last flush succeeded and the caller's await returns.
Ack_Unflushed == \* faulty: acknowledged without awaiting the last write
  /\ pc = "ack" /\ access /\ ~failed
  /\ acked' = request /\ attempted' = {} /\ pc' = "idle"
  /\ UNCHANGED <<fsVars, access, queue, request, seen>>
Ack ==
  /\ At("ack") /\ ~failed
  /\ acked' = request /\ attempted' = {} /\ pc' = "idle"
  /\ UNCHANGED <<fsVars, access, queue, request, seen>>

-----------------------------------------------------------------------------
(* readStorageTextFile: the primary name, and the fallback if it is absent.  *)

ReadPath ==
  /\ At("readPath")
  /\ IF Present(cache["path"])
     THEN seen' = cache["path"] /\ pc' = "idle"
     ELSE pc' = "readPrevious" /\ UNCHANGED seen
  /\ UNCHANGED <<fsVars, access, queue, request, acked, attempted>>

ReadPrevious ==
  /\ At("readPrevious")
  /\ seen' = cache["previous"] /\ pc' = "idle"
  /\ UNCHANGED <<fsVars, access, queue, request, acked, attempted>>

-----------------------------------------------------------------------------
(* The environment: the lease comes and goes, the process dies.              *)

SetAccess == /\ access' = ~access
             /\ UNCHANGED <<fsVars, queue, request, pc, history>>

Crash == /\ cache' = disk /\ UNCHANGED disk
         /\ dirty' = FALSE /\ failed' = FALSE
         /\ queue' = <<>> /\ pc' = "idle" /\ request' = ReadCall
         /\ UNCHANGED <<access, history>>

Step == \/ Start \/ Abort \/ Persist \/ PersistFails
        \/ WriteTemporary \/ Look \/ Recover \/ Retire \/ UnlinkRetired
        \/ Keep \/ Publish \/ Ack \/ ReadPath \/ ReadPrevious

Next == (\E r \in Requests : Call(r)) \/ Step \/ SetAccess \/ Crash

Spec == Init /\ [][Next]_vars

\* Promises settle and the backing store answers; nothing makes callers
\* call, locks unlock or processes crash.
FairSpec == Spec /\ WF_vars(Step)

-----------------------------------------------------------------------------
(* Properties                                                                *)

TypeOK ==
  /\ cache \in [Names -> Content] /\ disk \in [Names -> Content]
  /\ dirty \in BOOLEAN /\ failed \in BOOLEAN /\ access \in BOOLEAN
  /\ queue \in Seq(Requests) /\ request \in Requests
  /\ pc \in {"idle"} \cup ReadSteps \cup WriteSteps
  /\ seen \in Content /\ acked \in Text \cup {NoFile}
  /\ attempted \subseteq Text

\* What may be found under the reserved names: the last acknowledged text,
\* or that of a write begun since whose caller has not been told it is saved.
Allowed == {acked} \cup attempted

\* Whatever fails or crashes, and wherever, a restarted reader and a reader
\* in this process find the last acknowledged text or a later attempt's:
\* never nothing once a text was saved, never an older text, never half a
\* write (writeStorageTextFile, text-file.ts:64-107).
SavedTextSurvives == Visible(cache) \in Allowed /\ Visible(disk) \in Allowed

\* "a failed directory commit may leave an opaque orphan, but cannot leave a
\* dangling primary or fallback name" (text-file.ts:85-86).
NoDanglingName ==
  \A n \in {"path", "previous"} : cache[n] # Torn /\ disk[n] # Torn

\* A text is acknowledged only when a restarted reader would find it.
AckIsDurable == [][acked' # acked => Visible(disk') = acked']_vars

\* A read returns the last acknowledged text or a later attempt's.
ReadsSavedText == [][seen' # seen => seen' \in Allowed]_vars

\* The pair of names implements one durable register.
Register == INSTANCE DurableText WITH val <- Visible(disk)
ImplementsDurableText == Register!DSpec

\* Every call settles: a failed, locked or aborted predecessor never leaves
\* a later one waiting in withFileQueue.
Outstanding(r) == (\E i \in DOMAIN queue : queue[i] = r) \/ (pc # "idle" /\ request = r)
CallsSettle == \A r \in Requests : Outstanding(r) ~> ~Outstanding(r)
=============================================================================
