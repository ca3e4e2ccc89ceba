------------------------------ MODULE Snapshots ------------------------------
(* The pod's revision control: SnapshotManager (src/src/oci/snapshot.ts) on    *)
(* the content-addressed store of src/src/oci/store.ts.  A snapshot is a       *)
(* manifest that names its parent and one diff layer, and a cumulative index   *)
(* of the whole tree.  create, compact, restore, commit and gc write several   *)
(* files one after the other; the process may stop after any of them.          *)
(*                                                                             *)
(* A tree gives the entry under two names, one below the other, which is what  *)
(* the whiteout and replacement rules of a layer distinguish.  A layer is the  *)
(* sequence of its tar entries and is its own digest: snapshot layers carry    *)
(* no times.  Modes, symbolic links and excluded paths are left out.  One file *)
(* write is atomic.  Actors is one when the checkpoint locks serialize the     *)
(* operations.                                                                 *)
EXTENDS Naturals, FiniteSets, Sequences, SequencesExt

CONSTANTS Actors,        \* processes that may run an operation
          Contents,      \* contents of a regular file
          MaxSnapshots,  \* bound: snapshot ids ever drawn
          MaxCommits,    \* bound: images committed
          MaxCrashes,    \* bound: operations cut off
          None

Top == "top"             \* a path of the workspace
Nested == "top/nested"   \* a path below it
Paths == {Top, Nested}
Absent == "absent"
Dir == "dir"
Whiteout == "whiteout"

\* Ids are numbered in the order they are drawn; 0 is "no parent" and "no HEAD".
Ids == 1..MaxSnapshots

VARIABLES work,       \* the captured roots
          manifests,  \* snapshots/<id>.json: parent and layer, or None
          indexes,    \* snapshots/<id>.index.json: the whole tree, or None
          snapHead,   \* snapshots/HEAD
          stored,     \* uncompressed twins and layer indexes, by diff id
          blobs,      \* committed images (layer, index, config, manifest), by layer
          tag,        \* the ref of the committed image: its layer, or None
          job,        \* what each actor is doing
          saved,      \* history: the tree each id stands for, None if not drawn
          acked,      \* history: ids that create or compact have returned
          spent       \* how much of the bounds is used up

vars == <<work, manifests, indexes, snapHead, stored, blobs, tag, job, saved, acked, spent>>

-----------------------------------------------------------------------------
(* Trees and layers *)

Trees == {t \in [Paths -> Contents \cup {Absent, Dir}] :
            /\ t[Nested] # Dir
            /\ t[Nested] # Absent => t[Top] = Dir}

EmptyTree == [p \in Paths |-> Absent]

Under(p) == IF p = Top THEN Paths ELSE {p}

Without(tree, p) == [q \in Paths |-> IF q \in Under(p) THEN Absent ELSE tree[q]]

\* mergeLayerEntries, one entry: a whiteout drops the subtree, a file over a
\* directory drops what was underneath, anything else replaces the entry.
Apply(tree, entry) ==
    IF entry.val = Whiteout THEN Without(tree, entry.path)
    ELSE [(IF entry.val # Dir /\ tree[entry.path] = Dir THEN Without(tree, entry.path) ELSE tree)
            EXCEPT ![entry.path] = entry.val]

Over(tree, layer) ==
    LET After[n \in 0..Len(layer)] == IF n = 0 THEN tree ELSE Apply(After[n - 1], layer[n])
    IN  After[Len(layer)]

\* The layers of a chain, oldest first.
Merged(layers) ==
    LET After[n \in 0..Len(layers)] == IF n = 0 THEN EmptyTree ELSE Over(After[n - 1], layers[n])
    IN  After[Len(layers)]

Layers == Seq([path : Paths, val : Contents \cup {Absent, Dir, Whiteout}])

\* The entries of a layer for some paths, parents first.
Entries(paths, tree) ==
    LET Entry(p) == IF p \in paths THEN <<[path |-> p, val |-> tree[p]]>> ELSE <<>>
    IN  Entry(Top) \o Entry(Nested)

Changed(old, new) == {p \in Paths : new[p] # Absent /\ new[p] # old[p]}
Gone(old, new) == {p \in Paths : old[p] # Absent /\ new[p] = Absent}

\* create without whiteouts: a deletion is not recorded.
Diff_NoWhiteouts(old, new) == Entries(Changed(old, new), new)

\* create: the changed entries in walk order, then a whiteout for every path of
\* the parent that is gone.
Diff(old, new) ==
    Entries(Changed(old, new), new) \o Entries(Gone(old, new), [p \in Paths |-> Whiteout])

\* A kind of entry is no content, and None is neither a tree nor a file.
SnapshotsAssumption ==
    /\ Contents \cap {Absent, Dir, Whiteout} = {}
    /\ MaxSnapshots \in Nat
    /\ None \notin Trees \cup Layers \cup [parent : 0..MaxSnapshots, layer : Layers]

-----------------------------------------------------------------------------
(* Chains of snapshots *)

Listed == {i \in Ids : manifests[i] # None}

Chain(id) ==
    LET Up[i \in 0..MaxSnapshots] ==
          IF i \notin Listed THEN <<>> ELSE Append(Up[manifests[i].parent], i)
    IN  Up[id]

\* Every manifest and every layer of the chain can be read.
Intact(id) ==
    LET Readable[i \in 0..MaxSnapshots] ==
          IF i = 0 THEN TRUE
          ELSE /\ manifests[i] # None
               /\ manifests[i].layer \in stored
               /\ Readable[manifests[i].parent]
    IN  Readable[id]

LayersOf(chain) == [i \in DOMAIN chain |-> manifests[chain[i]].layer]
ChainLayers(id) == LayersOf(Chain(id))

\* validatedSnapshot: the merged chain must agree with the cumulative index.
Restorable(id) ==
    /\ manifests[id] # None
    /\ Intact(id)
    /\ indexes[id] # None
    /\ Merged(ChainLayers(id)) = indexes[id]

Idle == [pc |-> "idle", id |-> 0, base |-> 0, tree |-> EmptyTree, todo |-> {}]

Init ==
    /\ work = EmptyTree
    /\ manifests = [i \in Ids |-> None]
    /\ indexes = [i \in Ids |-> None]
    /\ snapHead = 0
    /\ stored = {}
    /\ blobs = {}
    /\ tag = None
    /\ job = [a \in Actors |-> Idle]
    /\ saved = [i \in Ids |-> None]
    /\ acked = {}
    /\ spent = [commits |-> 0, crashes |-> 0]

Fresh == {i \in Ids : saved[i] = None /\ \A j \in 1..(i - 1) : saved[j] # None}

At(a, pc) == job[a].pc = pc

Goto(a, pc) == job' = [job EXCEPT ![a].pc = pc]

Done(a) == job' = [job EXCEPT ![a] = Idle]

-----------------------------------------------------------------------------
(* create and compact *)

\* readHead, the parent's index, walk: nothing is written yet.  A missing
\* index of HEAD throws.  skipIfClean returns without a snapshot.
Create(a, skipIfClean) ==
    /\ At(a, "idle")
    /\ snapHead # 0 => indexes[snapHead] # None
    /\ LET old == IF snapHead = 0 THEN EmptyTree ELSE indexes[snapHead]
       IN  ~(skipIfClean /\ Diff(old, work) = <<>>)
    /\ \E i \in Fresh :
         /\ job' = [job EXCEPT ![a] = [Idle EXCEPT !.pc = "layer", !.id = i, !.base = snapHead, !.tree = work]]
         /\ saved' = [saved EXCEPT ![i] = work]
    /\ UNCHANGED <<work, manifests, indexes, snapHead, stored, blobs, tag, acked, spent>>

\* compact: the chain of HEAD becomes one layer without a parent; todo holds
\* the snapshots it replaces.
Compact(a) ==
    /\ At(a, "idle")
    /\ snapHead # 0
    /\ Intact(snapHead)
    /\ Len(Chain(snapHead)) > 1
    /\ \E i \in Fresh :
         /\ job' = [job EXCEPT ![a] = [Idle EXCEPT !.pc = "layer", !.id = i, !.tree = Merged(ChainLayers(snapHead)),
                                                   !.todo = Range(Chain(snapHead))]]
         /\ saved' = [saved EXCEPT ![i] = saved[snapHead]]
    /\ UNCHANGED <<work, manifests, indexes, snapHead, stored, blobs, tag, acked, spent>>

\* The tree that the new layer is a difference to.
Base(a) == IF job[a].base = 0 THEN EmptyTree ELSE indexes[job[a].base]

PutLayer(a) ==
    /\ At(a, "layer")
    /\ stored' = stored \cup {Diff(Base(a), job[a].tree)}
    /\ Goto(a, "manifest")
    /\ UNCHANGED <<work, manifests, indexes, snapHead, blobs, tag, saved, acked, spent>>

WriteManifest(a) ==
    /\ At(a, "manifest")
    /\ manifests' = [manifests EXCEPT ![job[a].id] =
                       [parent |-> job[a].base, layer |-> Diff(Base(a), job[a].tree)]]
    /\ Goto(a, "index")
    /\ UNCHANGED <<work, indexes, snapHead, stored, blobs, tag, saved, acked, spent>>

WriteIndex(a) ==
    /\ At(a, "index")
    /\ indexes' = [indexes EXCEPT ![job[a].id] = job[a].tree]
    /\ Goto(a, "head")
    /\ UNCHANGED <<work, manifests, snapHead, stored, blobs, tag, saved, acked, spent>>

\* create returns after HEAD; compact goes on to delete the old chain.
WriteHead(a) ==
    /\ At(a, "head")
    /\ snapHead' = job[a].id
    /\ IF job[a].todo = {} THEN acked' = acked \cup {job[a].id} /\ Done(a)
                           ELSE acked' = acked /\ Goto(a, "retire")
    /\ UNCHANGED <<work, manifests, indexes, stored, blobs, tag, saved, spent>>

\* compact removes the manifests and indexes of the old chain, oldest first.
Retire(a) ==
    /\ At(a, "retire")
    /\ LET old == CHOOSE i \in job[a].todo : \A j \in job[a].todo : i <= j
       IN  /\ manifests' = [manifests EXCEPT ![old] = None]
           /\ indexes' = [indexes EXCEPT ![old] = None]
           /\ IF job[a].todo = {old}
              THEN acked' = acked \cup {job[a].id} /\ Done(a)
              ELSE acked' = acked /\ job' = [job EXCEPT ![a].todo = @ \ {old}]
    /\ UNCHANGED <<work, snapHead, stored, blobs, tag, saved, spent>>

-----------------------------------------------------------------------------
(* restore *)

\* Everything is checked before the first live mutation.
Restore(a, i) ==
    /\ At(a, "idle")
    /\ Restorable(i)
    /\ job' = [job EXCEPT ![a] = [Idle EXCEPT !.pc = "remove", !.id = i, !.tree = Merged(ChainLayers(i))]]
    /\ UNCHANGED <<work, manifests, indexes, snapHead, stored, blobs, tag, saved, acked, spent>>

Outdated(a) == {p \in Paths : /\ work[p] # Absent
                              /\ work[p] # job[a].tree[p]}

Unwritten(a) == {p \in Paths : work[p] # job[a].tree[p]}

\* Deepest first: a directory is empty when it is removed.
RestoreRemove(a) ==
    /\ At(a, "remove")
    /\ IF Outdated(a) = {} THEN Goto(a, "write") /\ UNCHANGED work
       ELSE LET p == IF Nested \in Outdated(a) THEN Nested ELSE Top
            IN  work' = [work EXCEPT ![p] = Absent] /\ UNCHANGED job
    /\ UNCHANGED <<manifests, indexes, snapHead, stored, blobs, tag, saved, acked, spent>>

\* Shallowest first: parents exist when a file is written.
RestoreWrite(a) ==
    /\ At(a, "write")
    /\ IF Unwritten(a) = {} THEN Goto(a, "moveHead") /\ UNCHANGED work
       ELSE LET p == IF Top \in Unwritten(a) THEN Top ELSE Nested
            IN  work' = [work EXCEPT ![p] = job[a].tree[p]] /\ UNCHANGED job
    /\ UNCHANGED <<manifests, indexes, snapHead, stored, blobs, tag, saved, acked, spent>>

RestoreHead(a) ==
    /\ At(a, "moveHead")
    /\ snapHead' = job[a].id
    /\ Done(a)
    /\ UNCHANGED <<work, manifests, indexes, stored, blobs, tag, saved, acked, spent>>

-----------------------------------------------------------------------------
(* commit and gc *)

\* The blobs of the image, then its ref; a crash in between leaves garbage.
CommitBlobs(a) ==
    /\ At(a, "idle")
    /\ spent.commits < MaxCommits
    /\ spent' = [spent EXCEPT !.commits = @ + 1]
    /\ blobs' = blobs \cup {Diff(EmptyTree, work)}
    /\ stored' = stored \cup {Diff(EmptyTree, work)}
    /\ job' = [job EXCEPT ![a] = [Idle EXCEPT !.pc = "ref", !.tree = work]]
    /\ UNCHANGED <<work, manifests, indexes, snapHead, tag, saved, acked>>

CommitRef(a) ==
    /\ At(a, "ref")
    /\ tag' = Diff(EmptyTree, job[a].tree)
    /\ Done(a)
    /\ UNCHANGED <<work, manifests, indexes, snapHead, stored, blobs, saved, acked, spent>>

ReachableBlobs == IF tag = None THEN {} ELSE {tag}

\* An incomplete graph makes sweeping unsafe: gc throws.
Collectable ==
    /\ snapHead # 0 => snapHead \in Listed
    /\ \A i \in Listed : manifests[i].parent \in Listed \cup {0}
    /\ ReachableBlobs \subseteq blobs

ReachableLayers == {manifests[i].layer : i \in Listed} \cup (IF tag = None THEN {} ELSE {tag})

\* The whole mark phase, then the deletions one by one.
GcMark(a) ==
    /\ At(a, "idle")
    /\ Collectable
    /\ job' = [job EXCEPT ![a] = [Idle EXCEPT !.pc = "sweep",
                 !.todo = ({"twin"} \X (stored \ ReachableLayers)) \cup ({"blob"} \X (blobs \ ReachableBlobs))]]
    /\ UNCHANGED <<work, manifests, indexes, snapHead, stored, blobs, tag, saved, acked, spent>>

GcSweep(a) ==
    /\ At(a, "sweep")
    /\ IF job[a].todo = {} THEN Done(a) /\ UNCHANGED <<stored, blobs>>
       ELSE LET c == CHOOSE c \in job[a].todo : TRUE
            IN  /\ job' = [job EXCEPT ![a].todo = @ \ {c}]
                /\ stored' = IF c[1] = "twin" THEN stored \ {c[2]} ELSE stored
                /\ blobs' = IF c[1] = "blob" THEN blobs \ {c[2]} ELSE blobs
    /\ UNCHANGED <<work, manifests, indexes, snapHead, tag, saved, acked, spent>>

-----------------------------------------------------------------------------
(* The surroundings *)

\* Writers are quiesced while the tree is captured or restored, as the
\* callers are told to; what they write between two steps would not matter.
Edit ==
    /\ \A a \in Actors : At(a, "idle")
    /\ \E t \in Trees \ {work} : work' = t
    /\ UNCHANGED <<manifests, indexes, snapHead, stored, blobs, tag, job, saved, acked, spent>>

\* The process stops; files stay as they are.
Crash(a) ==
    /\ ~At(a, "idle")
    /\ spent.crashes < MaxCrashes
    /\ spent' = [spent EXCEPT !.crashes = @ + 1]
    /\ Done(a)
    /\ UNCHANGED <<work, manifests, indexes, snapHead, stored, blobs, tag, saved, acked>>

Step(a) ==
    \/ \E clean \in BOOLEAN : Create(a, clean)
    \/ Compact(a)
    \/ PutLayer(a) \/ WriteManifest(a) \/ WriteIndex(a) \/ WriteHead(a) \/ Retire(a)
    \/ \E i \in Ids : Restore(a, i)
    \/ RestoreRemove(a) \/ RestoreWrite(a) \/ RestoreHead(a)
    \/ CommitBlobs(a) \/ CommitRef(a)
    \/ GcMark(a) \/ GcSweep(a)
    \/ Crash(a)

Next == Edit \/ \E a \in Actors : Step(a)

Spec == Init /\ [][Next]_vars

-----------------------------------------------------------------------------
(* Properties *)

\* A manifest or an index names only what the module can write.
TypeOK ==
    /\ work \in Trees
    /\ \A i \in Ids : indexes[i] = None \/ indexes[i] \in Trees
    /\ snapHead \in 0..MaxSnapshots
    /\ acked \subseteq Ids

\* Wherever the process stops, HEAD is a snapshot that restore accepts, so that
\* the newest checkpoint is never lost to create, compact, restore or gc.
HeadRestorable == snapHead # 0 => Restorable(snapHead)

\* Merging the layers of a chain gives the tree that was captured: additions,
\* deletions and files that became directories or the other way round.
SnapshotsFaithful ==
    \A i \in Ids : manifests[i] # None /\ Intact(i) => Merged(ChainLayers(i)) = saved[i]

\* gc and its crashes never leave a listed snapshot or a tag without its bytes.
NothingReachableSwept ==
    /\ ReachableLayers \subseteq stored
    /\ ReachableBlobs \subseteq blobs

\* The three together: what a reader of the history relies on.
HistorySafe == HeadRestorable /\ SnapshotsFaithful /\ NothingReachableSwept

\* checkpoint-workspace.ts:196 lists "Persisted snapshot metadata, oldest first;
\* includes history retained after restore": a listed snapshot that create has
\* returned can be restored, on HEAD's branch or another.
BranchesSurvive ==
    (\A a \in Actors : At(a, "idle")) => \A i \in acked : manifests[i] # None => Restorable(i)

=============================================================================
