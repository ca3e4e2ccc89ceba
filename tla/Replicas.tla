------------------------------ MODULE Replicas ------------------------------
(***************************************************************************)
(* Stores that edit a ref and join each other's heads with mergeHeads      *)
(* (src/manager/merge.ts) in any order.  Blobs and manifests reach every   *)
(* store (anti-entropy, src/manager/sync.ts), so that only the heads       *)
(* differ.  Edits are the ones buildOverlayHead mints: a file register or  *)
(* a clocked whiteout on top of the store's head.                          *)
(***************************************************************************)
EXTENDS HeadMerge

CONSTANTS MaxClock,    \* bound: ticks of the common clock
          MaxHeads,    \* bound: manifests minted
          Deletes      \* whether files are deleted too

ReplicasAssumption ==
    /\ {MaxClock, MaxHeads} \subseteq Nat /\ Deletes \in BOOLEAN
    /\ Actors \subseteq Nat \ {0} /\ None \notin Register

VARIABLES minted,   \* every manifest there is
          head,     \* the head of each store's ref
          clock     \* the time

vars == <<minted, head, clock>>

Start == [by |-> Publisher, parents |-> <<>>,
          files |-> [path \in Paths |-> [mtime |-> 0, actor |-> Publisher]],
          gone |-> NoWhiteouts]

Init == minted = <<Start>> /\ head = [s \in Actors |-> 1] /\ clock = 0

Everything == Digests(minted)
Heads == {head[s] : s \in Actors}

\* A new head on top of the store's own, stamped with the present or a later time.
Commit(s, manifest, time) ==
    /\ minted' = Put(minted, manifest)
    /\ head' = [head EXCEPT ![s] = DigestOf(minted, manifest)]
    /\ clock' = time

Now == {clock, clock + 1} \cap 1..MaxClock

\* buildOverlayHead with one file in the upper.
Write(s, path) ==
    /\ Len(minted) < MaxHeads
    /\ \E time \in Now :
         LET last == minted[head[s]]
             file == [mtime |-> time, actor |-> s]
         IN  /\ last.files[path] # None => last.files[path].mtime < time
             /\ Commit(s, [last EXCEPT !.by = s, !.parents = <<head[s]>>, !.files[path] = file], time)

\* buildOverlayHead with one deletion.
Remove(s, path) ==
    /\ Deletes /\ Len(minted) < MaxHeads
    /\ \E time \in Now :
         LET last == minted[head[s]]
         IN  /\ last.files[path] # None
             /\ Commit(s, [last EXCEPT !.by = s, !.parents = <<head[s]>>, !.files[path] = None,
                                       !.gone[s][path] = time], time)

\* mergeHeads of two heads that are present everywhere.
Joined(a, b) == MergeHeads(minted, Everything, a, b)

\* Store s joins the head of store t.
Adopt(s, result) ==
    /\ Len(result.all) <= MaxHeads
    /\ minted' = result.all /\ head' = [head EXCEPT ![s] = result.head]
Merge(s, t) == Adopt(s, Joined(head[s], head[t])) /\ UNCHANGED clock

Next == \/ \E s \in Actors, path \in Paths : Write(s, path) \/ Remove(s, path)
        \/ \E s, t \in Actors : s # t /\ Merge(s, t)

Spec == Init /\ [][Next]_vars

-----------------------------------------------------------------------------
TypeOK == /\ \A d \in Everything : minted[d] \in ManifestOver(1..(d - 1))
          /\ head \in [Actors -> Everything] /\ clock \in 0..MaxClock

\* Digest equality is the convergence test: mergeHeads gives the same head
\* for the same two heads in either order, unless several ancestors are
\* equally near and the two walks pick different ones (a criss-cross).
JoinCommutes ==
    \A a, b \in Heads :
        a < b /\ CommonAncestor(minted, Everything, a, b) = CommonAncestor(minted, Everything, b, a)
          => Joined(a, b) = Joined(b, a)

TreeOf(result) == result.all[result.head].files

\* "Pod state is a join-semilattice" (merge.ts:3): three heads end up as
\* the same tree in any order of merging.
JoinTo(result, a, b) == TreeOf(MergeHeads(result.all, Digests(result.all), a, b))
JoinAssociates ==
    \A a, b, c \in Heads : \A ab \in {Joined(a, b)}, bc \in {Joined(b, c)} :
        a < c => JoinTo(ab, ab.head, c) = JoinTo(bc, a, bc.head)

\* As long as nothing was deleted, merging is associative ("three actors
\* converge to the same tree in any merge order", merge.test.ts:162).
EditsAssociate ==
    (\A d \in Everything : minted[d].gone = NoWhiteouts) => JoinAssociates

\* mergeHeads and its three-way rule drop no work: a head that shows neither
\* an edit, though it is newer than every deletion of its path, nor a newer
\* one, does not descend from it.
EditsSurvive ==
    \A s \in Actors, path \in Paths : \A d \in Everything :
        LET edit == minted[d].files[path]
            shown == minted[head[s]].files[path]
        IN  /\ edit # None /\ \A e \in Everything : \A stamp \in DeletionStamp(minted[e], path) : stamp < edit.mtime
            /\ shown = None \/ NewerOf(shown, edit) # shown
            => ~IsAncestor(minted, Everything, d, head[s])

\* A store's history is never rewound: its new head descends from the old
\* one, by an edit, a fast-forward or a merge.
HeadsGrow ==
    \A s \in Actors : head'[s] # head[s] => IsAncestor(minted', Digests(minted'), head[s], head'[s])
HeadsOnlyGrow == [][HeadsGrow]_vars
=============================================================================
