------------------------------- MODULE RefPush -------------------------------
(***************************************************************************)
(* Write-back of pods to one manager.  A pod keeps its changes in an       *)
(* overlay, mints a head from them (buildOverlayHead and pushOverlay of    *)
(* src/manager/overlay-sync.ts), moves its blobs (syncRef of sync.ts) and  *)
(* puts the ref through the HTTP handler (src/server/pod-store-handler.ts),*)
(* which joins diverged heads and stores the result in the index.json of   *)
(* an OciLayoutPodStore (src/manager/pod-store.ts).  Every await between   *)
(* two accesses to shared state ends an action.  `artipod open' of a ref   *)
(* that is already open pushes and then pulls the manager's head.          *)
(***************************************************************************)
EXTENDS HeadMerge

CONSTANTS Refs,        \* the refs of the manager
          Basis,       \* Basis[p]: the ref that pod p has open
          Torn,        \* index.json is empty or not JSON
          MaxClock,    \* bound: ticks of the common clock
          MaxHeads,    \* bound: pods mint while there are fewer manifests
          MaxCrashes,  \* bound: restarts of the manager
          Deletes,     \* whether files are deleted too
          Reopens,     \* whether pods re-open their ref
          NetFails,    \* whether a transfer may fail
          Overlap      \* whether the manager handles several ref puts at once

ASSUME RefPushAssumption ==
    /\ Basis \in [Actors -> Refs]
    /\ MaxClock \in Nat \ {0} /\ {MaxHeads, MaxCrashes} \subseteq Nat
    /\ {Deletes, Reopens, NetFails, Overlap} \subseteq BOOLEAN
    /\ Torn \notin [Refs -> Nat \cup {None}] /\ None \notin Register \cup ManifestOver(Nat)

VARIABLES minted,   \* every manifest there is
          clock,    \* the time
          pod,      \* the pods
          req,      \* the ref put of each pod, as the manager handles it
          held,     \* manifests in the manager's store
          full,     \* ... whose config and layers are there too
          index,    \* index.json: the head of each ref, or Torn
          crashes,  \* restarts so far
          acked     \* history: ref puts answered with 201

podVars == <<minted, clock, pod>>
storeVars == <<held, full, index>>
vars == <<podVars, req, storeVars, crashes, acked>>

Blank == [path \in Paths |-> 0]
Unstamped == -1     \* deleted, and not yet seen by overlayDeletions
Start == [by |-> Publisher, parents |-> <<>>,
          files |-> [path \in Paths |-> [mtime |-> 0, actor |-> Publisher]], gone |-> NoWhiteouts]

Idle == [at |-> "none", want |-> None, cur |-> None, final |-> None, snap |-> None]

Init == /\ minted = <<Start>> /\ clock = 1 /\ crashes = 0 /\ acked = {}
        /\ pod = [p \in Actors |-> [head |-> 1, base |-> 1, has |-> {1}, at |-> "idle", opening |-> FALSE,
                                    upper |-> Blank, deleted |-> Blank]]
        /\ req = [p \in Actors |-> Idle]
        /\ held = {1} /\ full = {1} /\ index = [r \in Refs |-> 1]

\* readIndex: what cannot be read or parsed is an empty index.
ReadIndex == IF index = Torn THEN [r \in Refs |-> None] ELSE index
GetRef(p) == ReadIndex[Basis[p]]

Now == {clock, clock + 1} \cap 1..MaxClock

(***************************************************************************)
(* The user writes or deletes a file of the overlay.                       *)
(***************************************************************************)
Write(p, path) ==
    \E time \in Now :
        /\ pod[p].upper[path] < time /\ pod[p].deleted[path] < time
        /\ pod' = [pod EXCEPT ![p].upper[path] = time, ![p].deleted[path] = 0]
        /\ clock' = time /\ UNCHANGED <<minted, req, storeVars, crashes, acked>>

Delete(p, path) ==
    \E time \in Now :
        /\ Deletes /\ pod[p].deleted[path] = 0
        /\ pod[p].upper[path] # 0 \/ minted[pod[p].base].files[path] # None
        /\ pod' = [pod EXCEPT ![p].upper[path] = 0, ![p].deleted[path] = Unstamped]
        /\ clock' = time /\ UNCHANGED <<minted, req, storeVars, crashes, acked>>

(***************************************************************************)
(* overlayDeletions stamps a deletion when a push first sees it;           *)
(* buildOverlayHead puts the upper and the deletions on the local head;    *)
(* when there are deletions, their layer replaces the pod's former one.    *)
(***************************************************************************)
OverlayDeletions(p) ==
    [path \in Paths |-> IF pod[p].deleted[path] = Unstamped THEN clock ELSE pod[p].deleted[path]]

Overlaid(p, last, deletions) ==
    [by |-> p, parents |-> <<pod[p].head>>,
     files |-> [path \in Paths |->
                   IF pod[p].upper[path] # 0 THEN [mtime |-> pod[p].upper[path], actor |-> p]
                   ELSE IF deletions[path] # 0 THEN None
                   ELSE last.files[path]],
     gone |-> IF deletions = Blank THEN last.gone ELSE [last.gone EXCEPT ![p] = deletions]]
OverlayHead(p) == Overlaid(p, minted[pod[p].head], OverlayDeletions(p))

Untouched(p) == pod[p].upper = Blank /\ pod[p].deleted = Blank

\* The layers and the config come out as those of the local head.
SameAsHead(p) ==
    LET last == minted[pod[p].head]
    IN  last.by = p /\ last.files = OverlayHead(p).files /\ last.gone = OverlayHead(p).gone

\* pushOverlay up to its first request; `opening' remembers who called it.
Build(p, opening) ==
    /\ pod[p].at = "idle" /\ ~pod[p].opening /\ req[p] = Idle
    /\ IF Untouched(p) \/ SameAsHead(p)
       THEN /\ pod' = [pod EXCEPT ![p].at = "ask", ![p].opening = opening,
                                  ![p].deleted = OverlayDeletions(p)]
            /\ UNCHANGED minted
       ELSE LET new == DigestOf(minted, OverlayHead(p))
            IN  /\ Len(minted) < MaxHeads
                /\ minted' = Put(minted, OverlayHead(p))
                /\ pod' = [pod EXCEPT ![p].at = "manifest", ![p].head = new,
                                      ![p].has = @ \cup {new}, ![p].opening = opening,
                                      ![p].deleted = OverlayDeletions(p)]
    /\ UNCHANGED <<clock, req, storeVars, crashes, acked>>

Push(p) == Build(p, FALSE)
Reopen(p) == Reopens /\ Build(p, TRUE)

\* Nothing new locally: go on only when the manager is missing the head or behind it.
Ask(p) ==
    /\ pod[p].at = "ask"
    /\ LET remote == GetRef(p)
           behind == remote = None \/ IsAncestor(minted, pod[p].has, remote, pod[p].head)
       IN  pod' = [pod EXCEPT ![p].at = IF remote # pod[p].head /\ behind THEN "manifest" ELSE "idle"]
    /\ UNCHANGED <<minted, clock, req, storeVars, crashes, acked>>

\* syncRef: the manifest moves first, then the rest, then the ref is put.
SendManifest(p) ==
    /\ pod[p].at = "manifest"
    /\ held' = held \cup {pod[p].head}
    /\ pod' = [pod EXCEPT ![p].at = "layers"]
    /\ UNCHANGED <<minted, clock, req, full, index, crashes, acked>>

SendLayers_OverBudget(p) ==
    /\ pod[p].at = "layers"
    /\ pod' = [pod EXCEPT ![p].at = "idle"]
    /\ req' = [req EXCEPT ![p] = [Idle EXCEPT !.at = "sent", !.want = pod[p].head]]
    /\ UNCHANGED <<minted, clock, storeVars, crashes, acked>>
SendLayers(p) ==
    /\ pod[p].at = "layers"
    /\ full' = full \cup {pod[p].head}
    /\ pod' = [pod EXCEPT ![p].at = "idle"]
    /\ req' = [req EXCEPT ![p] = [Idle EXCEPT !.at = "sent", !.want = pod[p].head]]
    /\ UNCHANGED <<minted, clock, held, index, crashes, acked>>

\* A request fails: pushBasis reports it and leaves everything as it is.
TransferFails(p) ==
    /\ NetFails /\ pod[p].at \in {"ask", "manifest", "layers"}
    /\ pod' = [pod EXCEPT ![p].at = "idle"]
    /\ UNCHANGED <<minted, clock, req, storeVars, crashes, acked>>

(***************************************************************************)
(* The handler of PUT refs, and putRef of the layout store.                *)
(***************************************************************************)
Handling(p) == req[p].at \notin {"none", "sent"}

Receive(p) ==
    /\ req[p].at = "sent" /\ (Overlap \/ \A q \in Actors : ~Handling(q))
    /\ req[p].want \in held       \* otherwise 409
    /\ req' = [req EXCEPT ![p].at = "decide", ![p].cur = GetRef(p)]
    /\ UNCHANGED <<podVars, storeVars, crashes, acked>>

Settled_Overwrite(p) ==
    IF req[p].cur # None /\ IsAncestor(minted, held, req[p].want, req[p].cur) THEN req[p].cur ELSE req[p].want
\* Create or repeat, stale push, fast-forward: no new manifest.
Settled(p) ==
    LET want == req[p].want
        cur == req[p].cur
    IN  IF cur \in {None, want} THEN want
        ELSE IF IsAncestor(minted, held, want, cur) THEN cur
        ELSE IF IsAncestor(minted, held, cur, want) THEN want
        ELSE None

Keep(p) ==
    /\ req[p].at = "decide" /\ Settled(p) # None
    /\ req' = [req EXCEPT ![p].at = "index", ![p].final = Settled(p)]
    /\ UNCHANGED <<podVars, storeVars, crashes, acked>>

\* Merge-on-push.  A base whose layers are missing makes mergeHeads throw.
Store(p, result) ==
    /\ minted' = result.all
    /\ held' = held \cup {result.head} /\ full' = full \cup {result.head}
    /\ req' = [req EXCEPT ![p].at = "index", ![p].final = result.head]
JoinHeads(p) ==
    /\ req[p].at = "decide" /\ Settled(p) = None
    /\ IF CommonAncestor(minted, held, req[p].cur, req[p].want) \in full \cup {None}
       THEN Store(p, MergeHeads(minted, held, req[p].cur, req[p].want))
       ELSE /\ req' = [req EXCEPT ![p] = Idle]
            /\ UNCHANGED <<minted, held, full>>
    /\ UNCHANGED <<clock, pod, index, crashes, acked>>

LoadIndex(p) ==
    /\ req[p].at = "index"
    /\ req' = [req EXCEPT ![p].at = "truncate", ![p].snap = [ReadIndex EXCEPT ![Basis[p]] = req[p].final]]
    /\ UNCHANGED <<podVars, storeVars, crashes, acked>>

\* writeFile opens the file, which empties it, and then writes.
Truncate(p) ==
    /\ req[p].at = "truncate"
    /\ index' = Torn /\ req' = [req EXCEPT ![p].at = "fill"]
    /\ UNCHANGED <<podVars, held, full, crashes, acked>>

\* Over what another writer put there meanwhile, the text may end up mixed.
Fill(p) ==
    /\ req[p].at = "fill"
    /\ index' \in {req[p].snap} \cup (IF index = Torn THEN {} ELSE {Torn})
    /\ req' = [req EXCEPT ![p] = Idle]
    /\ acked' = acked \cup {[ref |-> Basis[p], head |-> req[p].want]}
    /\ UNCHANGED <<podVars, held, full, crashes>>

\* The manager restarts; its requests fail, its directory stays.
Crash ==
    /\ crashes < MaxCrashes /\ crashes' = crashes + 1
    /\ req' = [p \in Actors |-> Idle]
    /\ UNCHANGED <<podVars, storeVars, acked>>

\* The end of `artipod open': adopt the manager's head when it moved.  The
\* upper and the deletions stay, over the new basis.
Pull(p) ==
    /\ pod[p].at = "idle" /\ pod[p].opening /\ req[p] = Idle
    /\ LET remote == GetRef(p)
       IN  pod' = IF remote \in {None, pod[p].base} THEN [pod EXCEPT ![p].opening = FALSE]
                  ELSE [pod EXCEPT ![p].opening = FALSE, ![p].head = remote, ![p].base = remote,
                                   ![p].has = @ \cup {remote}]
    /\ UNCHANGED <<minted, clock, req, storeVars, crashes, acked>>

PodStep(p) == Push(p) \/ Reopen(p) \/ Ask(p) \/ SendManifest(p) \/ SendLayers(p) \/ TransferFails(p) \/ Pull(p)
HandlerStep(p) == Receive(p) \/ Keep(p) \/ JoinHeads(p) \/ LoadIndex(p) \/ Truncate(p) \/ Fill(p)

Next == \/ \E p \in Actors, path \in Paths : Write(p, path) \/ Delete(p, path)
        \/ \E p \in Actors : PodStep(p) \/ HandlerStep(p)
        \/ Crash

Spec == Init /\ [][Next]_vars

-----------------------------------------------------------------------------
PodOver(digests) ==
    [head : digests, base : digests, has : SUBSET digests,
     at : {"idle", "ask", "manifest", "layers"}, opening : BOOLEAN,
     upper : [Paths -> 0..MaxClock], deleted : [Paths -> Unstamped..MaxClock]]
IndexOver(digests) == [Refs -> digests \cup {None}]
RequestOver(digests) ==
    [at : {"none", "sent", "decide", "index", "truncate", "fill"},
     want : digests \cup {None}, cur : digests \cup {None}, final : digests \cup {None},
     snap : IndexOver(digests) \cup {None}]

TypeOK ==
    /\ \A d \in Digests(minted) : minted[d] \in ManifestOver(1..(d - 1))
    /\ clock \in 1..MaxClock /\ crashes \in 0..MaxCrashes
    /\ pod \in [Actors -> PodOver(Digests(minted))]
    /\ req \in [Actors -> RequestOver(Digests(minted))]
    /\ held \subseteq Digests(minted) /\ full \subseteq Digests(minted)
    /\ index \in IndexOver(Digests(minted)) \cup {Torn}
    /\ acked \subseteq [ref : Refs, head : Digests(minted)]

\* A ref names a head that can be opened: the manager holds its manifest,
\* its config and its layers, whatever fails, overlaps or restarts.
HeadComplete ==
    index # Torn => \A r \in Refs : index[r] # None => index[r] \in held \cap full

\* Nothing pushed is lost while the manager is up: every head whose put was
\* answered with 201 is an ancestor of the ref's head, along manifests that
\* the manager holds.
HistoryKept ==
    index # Torn /\ crashes = 0 =>
        \A a \in acked : index[a.ref] # None /\ IsAncestor(minted, held, a.head, index[a.ref])

\* Merge-on-push can load what it joins: the manager has the layers of both
\* heads and of their base, so that mergeHeads never fails a push.
MergesCanLoad ==
    \A p \in Actors : req[p].at = "decide" /\ Settled(p) = None =>
        {req[p].cur, req[p].want, CommonAncestor(minted, held, req[p].cur, req[p].want)} \subseteq full \cup {None}

\* As long as the manager stays up and no pod has taken up a head that another
\* pod or the manager made: what is in its overlay was made on its own heads.
Undisturbed == crashes = 0 /\ \A p \in Actors : \A d \in pod[p].has : minted[d].by \in {p, Publisher}
Shown(a, path) == minted[index[a.ref]].files[path]
Visible == IF index = Torn THEN {} ELSE {a \in acked : index[a.ref] # None}
Within(head) == {d \in Digests(minted) : IsAncestor(minted, Digests(minted), d, head)}

\* "the newer (mtime, actor) bytes win everywhere" (docs/sync.md:20): of the
\* versions of a file that were pushed, the ref's head shows the newest,
\* unless a deletion in the head's history is not older.
NewestWins ==
    Undisturbed =>
        \A a \in Visible, path \in Paths :
            LET pushed == minted[a.head].files[path]
            IN  pushed # None =>
                    \/ Shown(a, path) # None /\ NewerOf(Shown(a, path), pushed) = Shown(a, path)
                    \/ \E d \in Within(index[a.ref]) : \E stamp \in DeletionStamp(minted[d], path) :
                           stamp >= pushed.mtime

\* A file whose deletion was pushed shows up again only with an edit not older
\* than it, until heads were merged twice: a merged head carries no whiteouts.
\* A push that failed may leave a parent out, and with it the base of a merge.
DeletionsHold ==
    /\ Undisturbed /\ \A d \in held : ParentsIn(minted, d, held)
    /\ \A d, e \in held : minted[d].by = MergeActor /\ minted[e].by = MergeActor => d = e
    => \A a \in Visible, path \in Paths :
           minted[a.head].files[path] = None =>
               \/ Shown(a, path) = None
               \/ \A stamp \in DeletionStamp(minted[a.head], path) : Shown(a, path).mtime >= stamp
==============================================================================
