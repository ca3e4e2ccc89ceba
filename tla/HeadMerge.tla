------------------------------ MODULE HeadMerge ------------------------------
(***************************************************************************)
(* The parents DAG of head manifests and its join: isAncestor and          *)
(* mergeHeads of src/manager/merge.ts.                                     *)
(*                                                                         *)
(* A manifest is content-addressed.  Here all the manifests ever minted    *)
(* are a sequence m without repetitions and a digest is a position in it;  *)
(* `held' is the set of digests whose manifest the store at hand can load. *)
(* Layers are abstracted to what the join looks at: per path, the winning  *)
(* register (mtime and actor, the layer's LWW clock) and, in the whiteout  *)
(* layer of each actor, the stamp of its deletion, 0 when there is none.   *)
(***************************************************************************)
EXTENDS Integers, Sequences

CONSTANTS Paths,    \* file paths
          Actors,   \* who writes; numbers, since actor names are ordered
          None      \* no file, no digest

ASSUME HeadMergeAssumption == Actors \subseteq Nat \ {0} /\ None \notin Nat

Publisher == 0      \* the actor of the head everything starts from
MergeActor == -1    \* org.artipod.actor of a merged manifest

Digests(m) == 1..Len(m)

Register == [mtime : Nat, actor : Actors \cup {Publisher}]
ManifestOver(digests) ==
    [by : Actors \cup {Publisher, MergeActor}, parents : Seq(digests),
     files : [Paths -> Register \cup {None}], gone : [Actors -> [Paths -> Nat]]]

NoWhiteouts == [q \in Actors |-> [path \in Paths |-> 0]]
DeletionStamp(manifest, path) == {manifest.gone[q][path] : q \in Actors}

\* putBlob: bytes that are already there get the digest they have.
DigestOf(m, manifest) ==
    IF \E d \in Digests(m) : m[d] = manifest
    THEN CHOOSE d \in Digests(m) : m[d] = manifest
    ELSE Len(m) + 1
Put(m, manifest) ==
    IF \E d \in Digests(m) : m[d] = manifest THEN m ELSE Append(m, manifest)

(***************************************************************************)
(* isAncestor walks from head through the parents; a manifest that cannot  *)
(* be loaded ends its branch.  `ancestor' is found unless some set that    *)
(* holds the head and is closed under the walk leaves it out.              *)
(***************************************************************************)
ParentsIn(m, digest, S) == \A i \in DOMAIN m[digest].parents : m[digest].parents[i] \in S

IsAncestor(m, held, ancestor, head) ==
    \A S \in SUBSET (Digests(m) \ {ancestor}) :
        head \in S => \E d \in S \cap held : ~ParentsIn(m, d, S)

(***************************************************************************)
(* reach() of commonAncestor: breadth first, the digests in the order they *)
(* are met, each with its depth.  A manifest has at most two parents, so   *)
(* 2 * Len(m) + 1 turns empty the queue.                                   *)
(***************************************************************************)
Meet(m, held, next, rest, met) ==
    IF \E i \in DOMAIN met : met[i].digest = next.digest THEN [queue |-> rest, met |-> met]
    ELSE [met |-> Append(met, next),
          queue |-> IF next.digest \notin held THEN rest
                    ELSE rest \o [i \in DOMAIN m[next.digest].parents |->
                                     [digest |-> m[next.digest].parents[i], depth |-> next.depth + 1]]]
Walk(m, held, w) ==
    IF w.queue = <<>> THEN w ELSE Meet(m, held, Head(w.queue), Tail(w.queue), w.met)
Reach(m, held, head) ==
    LET turn[n \in 0..(2 * Len(m) + 1)] ==
            IF n = 0 THEN [queue |-> <<[digest |-> head, depth |-> 0]>>, met |-> <<>>]
            ELSE Walk(m, held, turn[n - 1])
    IN  turn[2 * Len(m) + 1].met

(***************************************************************************)
(* commonAncestor: the least of max(depth from a, depth from b); of equal  *)
(* ones, the first that the walk from a met.                               *)
(***************************************************************************)
Larger(x, y) == IF x > y THEN x ELSE y
Nearest(fromA, fromB, shared, worst) ==
    IF shared = {} THEN None
    ELSE fromA[(CHOOSE p \in shared : \A q \in shared :
                    worst[p] < worst[q] \/ (worst[p] = worst[q] /\ p[1] <= q[1]))[1]].digest
Shared(fromA, fromB) ==
    {p \in (DOMAIN fromA) \X (DOMAIN fromB) : fromA[p[1]].digest = fromB[p[2]].digest}
NearestShared(fromA, fromB, shared) ==
    Nearest(fromA, fromB, shared,
            [p \in shared |-> Larger(fromA[p[1]].depth, fromB[p[2]].depth)])
NearestOf(fromA, fromB) == NearestShared(fromA, fromB, Shared(fromA, fromB))
CommonAncestor(m, held, a, b) == NearestOf(Reach(m, held, a), Reach(m, held, b))

\* newerOf: the symmetric total order on registers.
NewerOf_NoActor(p, q) == IF p.mtime >= q.mtime THEN p ELSE q
NewerOf(p, q) ==
    IF p.mtime > q.mtime \/ (p.mtime = q.mtime /\ p.actor >= q.actor) THEN p ELSE q

(***************************************************************************)
(* One path of mergeHeads.  Present in both: the newer register.  Present  *)
(* in one: an addition unless the base has the path; then the other side   *)
(* deleted it, which wins over a file untouched since the base and over an *)
(* edit no newer than the whiteout.                                        *)
(***************************************************************************)
Winner_NoClock(present, other, base, path) ==
    IF base # None THEN None ELSE present.files[path]
Winner_Union(present, other, base, path) == present.files[path]
Winner(present, other, base, path) ==
    LET file == present.files[path]
        was == IF base = None THEN None ELSE base.files[path]
        deletedLater == \E stamp \in DeletionStamp(other, path) : stamp >= file.mtime
    IN  IF was # None /\ (file = was \/ deletedLater) THEN None ELSE file

JoinPath_First(a, b, base, path) ==
    IF a.files[path] # None THEN a.files[path] ELSE b.files[path]
JoinPath(a, b, base, path) ==
    IF a.files[path] # None /\ b.files[path] # None THEN NewerOf(a.files[path], b.files[path])
    ELSE IF a.files[path] # None THEN Winner(a, b, base, path)
    ELSE IF b.files[path] # None THEN Winner(b, a, base, path)
    ELSE None

Join_OneParent(a, b, base, parents) ==
    [by |-> MergeActor, parents |-> <<parents[1]>>,
     files |-> [path \in Paths |-> JoinPath(a, b, base, path)],
     gone |-> NoWhiteouts]
\* The merged manifest: file layers only, so that it carries no whiteout.
Join(a, b, base, parents) ==
    [by |-> MergeActor, parents |-> parents,
     files |-> [path \in Paths |-> JoinPath(a, b, base, path)],
     gone |-> NoWhiteouts]

(***************************************************************************)
(* mergeHeads: fast-forward when one head contains the other, otherwise    *)
(* the three-way join against the nearest common ancestor.  Result: the    *)
(* manifests with the joined head among them, and that head's digest.      *)
(***************************************************************************)
JoinOver(m, a, b, base) ==
    Join(m[a], m[b], IF base = None THEN None ELSE m[base], IF a < b THEN <<a, b>> ELSE <<b, a>>)
Added(m, manifest) == [all |-> Put(m, manifest), head |-> DigestOf(m, manifest)]
MergeHeads(m, held, a, b) ==
    IF IsAncestor(m, held, b, a) THEN [all |-> m, head |-> a]
    ELSE IF IsAncestor(m, held, a, b) THEN [all |-> m, head |-> b]
    ELSE Added(m, JoinOver(m, a, b, CommonAncestor(m, held, a, b)))
==============================================================================
