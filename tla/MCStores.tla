------------------------------- MODULE MCStores -------------------------------
(* The stores of the core library, one at a time: `part' says which of them a  *)
(* behaviour is about, while the others rest.                                  *)
EXTENDS Naturals, Sequences, TLC

CONSTANTS Bodies, MaxTaken, MaxImages, MaxFailures,                              \* of the history
          Clients, Uploads, Tags, Sealed, Manifests, MaxChunks,                      \* of the registry
          Filed, Texts, Order, SameSize, MaxTime, MaxHeads, MaxRestarts, MaxEdits, \* of the folder
          Windows, Contexts, Contents, MaxSnapshots, MaxCrashes,                     \* of the bridge
          Replicated, Actors, MaxClock, MaxMinted, Deletes,                          \* of the replicas
          m1, m2, None

VARIABLES part,
          work, manifests, indexes, snapHead, stored, blobs, tag, job, saved, acked, spent,
          sessions, files, held, tags, referrers, request, used, disturbed,
          folder, heads, head, jobs, server, walked, folderClock, restarts, edits, mirrored,
          pod, drafts, snaps, mapping, contextLock, workspaceLock, podLock, call, orphans, crashes,
          minted, tips, clock

\* A process that captures, compacts, restores, commits and sweeps a workspace
\* with a directory, and is cut off once.
History == INSTANCE Snapshots WITH
    Actors <- {1}, Contents <- Bodies, MaxSnapshots <- MaxTaken, MaxCommits <- MaxImages,
    MaxCrashes <- MaxFailures

\* A layer of two chunks, and two manifests: an image and a referrer of it.
Images == m1 :> [refs |-> {<<0, 1>>}, subject |-> None] @@ m2 :> [refs |-> {m1}, subject |-> m1]

\* The requests that move tags come one after another.
Surface == INSTANCE Registry WITH blobs <- held, call <- request, Overlap <- FALSE

\* The order of the names "p" and "q".
ByName == <<"p", "q">>

Mirror == INSTANCE FolderSync WITH clock <- folderClock, Paths <- Filed

Bridge == INSTANCE Checkpoints WITH work <- pod

Joins == INSTANCE Replicas WITH head <- tips, Paths <- Replicated, MaxHeads <- MaxMinted

history == <<work, manifests, indexes, snapHead, stored, blobs, tag, job, saved, acked, spent>>
surface == <<sessions, files, held, tags, referrers, request, used, disturbed>>
mirror == <<folder, heads, head, jobs, server, walked, folderClock, restarts, edits, mirrored>>
bridge == <<pod, drafts, snaps, mapping, contextLock, workspaceLock, podLock, call, orphans, crashes>>
joins == <<minted, tips, clock>>

ASSUME StoresAssumption ==
    /\ History!SnapshotsAssumption /\ Surface!RegistryAssumption /\ Mirror!FolderAssumption
    /\ Bridge!CheckpointsAssumption /\ Joins!ReplicasAssumption

Init ==
    /\ part \in {"history", "surface", "mirror", "bridge", "joins"}
    /\ History!Init /\ Surface!Init /\ Mirror!Init /\ Bridge!Init /\ Joins!Init
    /\ part # "mirror" => folder = [p \in Filed |-> None]   \* one state to rest in
    /\ part # "bridge" => pod = CHOOSE text \in Contents : TRUE

Next ==
    /\ UNCHANGED part
    /\ \/ part = "history" /\ History!Next /\ UNCHANGED <<surface, mirror, bridge, joins>>
       \/ part = "surface" /\ Surface!Next /\ UNCHANGED <<history, mirror, bridge, joins>>
       \/ part = "mirror" /\ Mirror!Next /\ UNCHANGED <<history, surface, bridge, joins>>
       \/ part = "bridge" /\ Bridge!Next /\ UNCHANGED <<history, surface, mirror, joins>>
       \/ part = "joins" /\ Joins!Next /\ UNCHANGED <<history, surface, mirror, bridge>>

Spec == Init /\ [][Next]_<<part, history, surface, mirror, bridge, joins>>

\* The properties of the modules, each with the module's type invariant.
HistorySafe == part = "history" => History!TypeOK /\ History!HistorySafe
RegistryConsistent ==
    part = "surface" => Surface!TypeOK /\ Surface!UploadsInOrder /\ Surface!TagsComplete
FolderMirrorsHead == part = "mirror" => Mirror!TypeOK /\ Mirror!FolderMirrorsHead
OneWorker == part = "bridge" => Bridge!TypeOK /\ Bridge!OneWorker
EditsSurvive == part = "joins" => Joins!TypeOK /\ Joins!EditsSurvive /\ Joins!EditsAssociate
\* What was once established stays: a store's history, a sealed tag, the
\* snapshot of a context.
EstablishedStays == [][Joins!HeadsGrow /\ Surface!SealsHold /\ Bridge!BindingsHold]_<<tips, tags, mapping>>
===============================================================================
