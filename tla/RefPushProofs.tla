---------------------------- MODULE RefPushProofs ----------------------------
(***************************************************************************)
(* A ref of the manager always names a complete head, for any pods, refs   *)
(* and paths, however the puts overlap, fail or are cut off by a restart;  *)
(* and while puts are handled one at a time, what was acknowledged stays   *)
(* in the history of the head.                                             *)
(*                                                                         *)
(* HeadComplete alone is not inductive: what Fill writes was read from the *)
(* index, decided and merged several awaits before.  RequestState carries  *)
(* completeness through those steps, and SendState from the transfer of    *)
(* the manifest to that of the layers.  In the same way HandlerKeeps, of   *)
(* HInv, carries the history from the head that was read to the index that *)
(* is written; that the same head is still there is OneHandler.            *)
(*                                                                         *)
(* That the newest edit is shown rests on Monotone: a manifest shows what  *)
(* any manifest of its history shows, or something newer.  A merge keeps   *)
(* it because its base is in both histories (CommonIsShared, about the     *)
(* breadth-first walk), a pod because its overlay is newer than its own    *)
(* heads (OwnFiles).                                                       *)
(*                                                                         *)
(* That a deletion holds rests on Provenance: a pod's later manifests      *)
(* cover its earlier deletions (OwnStamps, along Lineage), what is put and *)
(* stored of a pod is in its head's history (Tieds), and the one merge     *)
(* either joined two pods' heads against the published one, so that it     *)
(* kept no file that either deleted later (Sound), or has a parent that    *)
(* never reached the manager and never will (Hole).                        *)
(***************************************************************************)
EXTENDS RefPush, SequenceTheorems, WellFoundedInduction, TLAPS

-----------------------------------------------------------------------------
(* The parents DAG and its join keep manifests well formed.                *)

WellFormed(m) == /\ m \in Seq(ManifestOver(Nat))
                 /\ \A d \in Digests(m) : m[d] \in ManifestOver(1..(d - 1))

\* m2 is m with more manifests.
Extends(m2, m) == Len(m) <= Len(m2) /\ \A d \in Digests(m) : m2[d] = m[d]

\* A manifest whose parents are known is one whose parents are digests.
LEMMA ManifestWiden ==
  ASSUME NEW S, NEW T, S \subseteq T, NEW x \in ManifestOver(S)
  PROVE  x \in ManifestOver(T)
BY DEF ManifestOver

\* putBlob of a manifest: its digest is known afterwards, the others stay.
LEMMA PutManifest ==
  ASSUME NEW m, WellFormed(m), NEW new \in ManifestOver(Digests(m))
  PROVE  /\ WellFormed(Put(m, new)) /\ Extends(Put(m, new), m)
         /\ DigestOf(m, new) \in Digests(Put(m, new))
<1>1. CASE \E d \in Digests(m) : m[d] = new
  BY <1>1 DEF Put, DigestOf, Extends, WellFormed
<1>2. CASE ~\E d \in Digests(m) : m[d] = new
  <2> DEFINE m2 == Append(m, new)
  <2>1. Len(m) \in Nat /\ Digests(m) = 1..Len(m) /\ Digests(m) \subseteq Nat
    BY DEF WellFormed, Digests
  <2>2. new \in ManifestOver(Nat)
    BY <2>1, ManifestWiden
  <2>3. /\ m2 \in Seq(ManifestOver(Nat)) /\ Len(m2) = Len(m) + 1
        /\ m2[Len(m) + 1] = new /\ \A d \in 1..Len(m) : m2[d] = m[d]
    BY <2>2 DEF WellFormed
  <2>4. \A d \in Digests(m2) : m2[d] \in ManifestOver(1..(d - 1))
    <3> TAKE d \in Digests(m2)
    <3>1. CASE d \in Digests(m)
      BY <3>1, <2>1, <2>3 DEF WellFormed
    <3>2. CASE d = Len(m) + 1
      <4>1. 1..(d - 1) = Digests(m)
        BY <3>2, <2>1
      <4> QED BY <4>1, <3>2, <2>3
    <3> QED BY <3>1, <3>2, <2>1, <2>3 DEF Digests
  <2>5. Put(m, new) = m2 /\ DigestOf(m, new) = Len(m) + 1
    BY <1>2 DEF Put, DigestOf
  <2> HIDE DEF m2
  <2> QED BY <2>1, <2>3, <2>4, <2>5 DEF WellFormed, Extends, Digests
<1> QED BY <1>1, <1>2

\* mergeHeads picks registers of its two heads and makes none up.
LEMMA JoinedFile ==
  ASSUME NEW S, NEW T, NEW a \in ManifestOver(S), NEW b \in ManifestOver(T), NEW base,
         NEW path \in Paths
  PROVE  JoinPath(a, b, base, path) \in Register \cup {None}
<1>1. a.files[path] \in Register \cup {None} /\ b.files[path] \in Register \cup {None}
  BY DEF ManifestOver
<1>2. NewerOf(a.files[path], b.files[path]) \in {a.files[path], b.files[path]}
  BY DEF NewerOf
<1>3. /\ Winner(a, b, base, path) \in {None, a.files[path]}
      /\ Winner(b, a, base, path) \in {None, b.files[path]}
  BY DEF Winner
<1> QED BY <1>1, <1>2, <1>3 DEF JoinPath

\* The result of mergeHeads is one of its heads or a new, well-formed one.
LEMMA MergedHead ==
  ASSUME NEW m, WellFormed(m), NEW have, NEW a \in Digests(m), NEW b \in Digests(m)
  PROVE  LET result == MergeHeads(m, have, a, b)
         IN  /\ WellFormed(result.all) /\ Extends(result.all, m)
             /\ result.head \in Digests(result.all)
<1> DEFINE base == CommonAncestor(m, have, a, b)
           old == IF base = None THEN None ELSE m[base]
           parents == IF a < b THEN <<a, b>> ELSE <<b, a>>
           joined == Join(m[a], m[b], old, parents)
<1>1. joined \in ManifestOver(Digests(m))
  <2>1. m[a] \in ManifestOver(1..(a - 1)) /\ m[b] \in ManifestOver(1..(b - 1))
    BY DEF WellFormed
  <2>2. [path \in Paths |-> JoinPath(m[a], m[b], old, path)] \in [Paths -> Register \cup {None}]
    BY <2>1, JoinedFile
  <2>3. parents \in Seq(Digests(m))
    OBVIOUS
  <2>4. NoWhiteouts \in [Actors -> [Paths -> Nat]]
    BY DEF NoWhiteouts
  <2> HIDE DEF parents, old
  <2> QED BY <2>2, <2>3, <2>4 DEF Join, ManifestOver
<1>2. /\ WellFormed(Put(m, joined)) /\ Extends(Put(m, joined), m)
      /\ DigestOf(m, joined) \in Digests(Put(m, joined))
  BY <1>1, PutManifest
<1>3. Extends(m, m)
  BY DEF Extends, WellFormed
<1>4. MergeHeads(m, have, a, b) \in
        {[all |-> m, head |-> a], [all |-> m, head |-> b],
         [all |-> Put(m, joined), head |-> DigestOf(m, joined)]}
  BY DEF MergeHeads, Added, JoinOver
<1> HIDE DEF joined
<1> QED BY <1>2, <1>3, <1>4

-----------------------------------------------------------------------------
(* The inductive invariant.                                                *)

Known == Digests(minted)
Complete == held \cap full

\* syncRef: when the layers move, the manifest is already there.
SendState == \A p \in Actors : pod[p].at = "layers" => pod[p].head \in held

\* What a put works on, from its arrival to its last write, is complete.
RequestState ==
  \A p \in Actors :
    /\ req[p].at # "none" => req[p].want \in Complete
    /\ req[p].at = "decide" => req[p].cur \in Complete \cup {None}
    /\ req[p].at = "index" => req[p].final \in Complete
    /\ req[p].at \in {"truncate", "fill"} => req[p].snap \in IndexOver(Complete)

IInv == WellFormed(minted) /\ TypeOK /\ SendState /\ RequestState /\ HeadComplete

\* Manifests, pods, requests and indexes stay typed when manifests are added.
LEMMA Widen ==
  ASSUME WellFormed(minted), WellFormed(minted'), Extends(minted', minted)
  PROVE  /\ Known \subseteq Known'
         /\ PodOver(Known) \subseteq PodOver(Known')
         /\ RequestOver(Known) \subseteq RequestOver(Known')
         /\ IndexOver(Known) \subseteq IndexOver(Known')
         /\ [ref : Refs, head : Known] \subseteq [ref : Refs, head : Known']
<1>1. Known \subseteq Known'
  BY DEF Known, Digests, Extends, WellFormed
<1>2. IndexOver(Known) \subseteq IndexOver(Known')
  BY <1>1 DEF IndexOver
<1>3. PodOver(Known) \subseteq PodOver(Known')
  BY <1>1 DEF PodOver
<1>4. RequestOver(Known) \subseteq RequestOver(Known')
  BY <1>1, <1>2 DEF RequestOver
<1> QED BY <1>1, <1>2, <1>3, <1>4

\* A readable index lists complete heads; one that is not lists none.
LEMMA ReadComplete ==
  ASSUME IInv
  PROVE  /\ ReadIndex \in IndexOver(Complete) /\ ReadIndex \in IndexOver(Known)
         /\ \A p \in Actors : GetRef(p) \in Complete \cup {None} /\ GetRef(p) \in Known \cup {None}
<1>1. index # Torn => index \in IndexOver(Known)
  BY DEF IInv, TypeOK, Known
<1>2. ReadIndex \in IndexOver(Complete)
  BY <1>1 DEF ReadIndex, IndexOver, IInv, HeadComplete, Complete
<1>3. Complete \subseteq Known
  BY DEF IInv, TypeOK, Complete, Known
<1> QED BY <1>2, <1>3, RefPushAssumption DEF IndexOver, GetRef

\* The times of a user's next operation.
LEMMA NowTyped ==
  ASSUME clock \in 1..MaxClock, NEW time \in Now PROVE time \in 1..MaxClock
BY DEF Now

LEMMA InitIInv == Init => IInv
<1> SUFFICES ASSUME Init PROVE IInv
  OBVIOUS
<1>1. Start \in ManifestOver({}) /\ Start \in ManifestOver(Nat)
  BY DEF Start, ManifestOver, Register, NoWhiteouts
<1>2. Len(minted) = 1 /\ minted[1] = Start /\ minted \in Seq(ManifestOver(Nat))
  BY <1>1 DEF Init
<1>3. Digests(minted) = {1}
  BY <1>2 DEF Digests
<1>4. WellFormed(minted)
  <2>1. 1..(1 - 1) = {}
    OBVIOUS
  <2> QED BY <2>1, <1>1, <1>2, <1>3 DEF WellFormed
<1>5. pod \in [Actors -> PodOver({1})]
  BY RefPushAssumption DEF Init, PodOver, Blank, Unstamped
<1>6. req \in [Actors -> RequestOver({1})]
  BY DEF Init, Idle, RequestOver
<1>7. index \in IndexOver({1})
  BY DEF Init, IndexOver
<1>8. TypeOK
  <2>1. \A d \in Digests(minted) : minted[d] \in ManifestOver(1..(d - 1))
    BY <1>4 DEF WellFormed
  <2>2. clock \in 1..MaxClock /\ crashes \in 0..MaxCrashes
    BY RefPushAssumption DEF Init
  <2>3. held = {1} /\ full = {1} /\ acked = {}
    BY DEF Init
  <2> QED BY <1>3, <1>5, <1>6, <1>7, <2>1, <2>2, <2>3 DEF TypeOK
<1>9. SendState /\ RequestState
  BY DEF SendState, RequestState, Init, Idle
<1>10. HeadComplete
  BY DEF HeadComplete, Init
<1> QED BY <1>4, <1>8, <1>9, <1>10 DEF IInv

-----------------------------------------------------------------------------
(* Steps of a pod.                                                         *)

\* A step that changes pods and time only.
LEMMA PodChange ==
  ASSUME IInv, UNCHANGED <<minted, req, storeVars, crashes, acked>>,
         clock' \in 1..MaxClock, pod' \in [Actors -> PodOver(Known)], SendState'
  PROVE  IInv'
<1>1. WellFormed(minted)' /\ HeadComplete' /\ RequestState'
  BY DEF IInv, HeadComplete, RequestState, Complete, storeVars, WellFormed, Digests
<1>2. TypeOK'
  BY DEF IInv, TypeOK, Known, storeVars
<1> QED BY <1>1, <1>2 DEF IInv

\* A user writes or deletes a file.
LEMMA UserStep ==
  ASSUME IInv, NEW p \in Actors, NEW path \in Paths, Write(p, path) \/ Delete(p, path)
  PROVE  IInv'
<1>1. pod \in [Actors -> PodOver(Known)] /\ clock \in 1..MaxClock /\ MaxClock \in Nat
  BY RefPushAssumption DEF IInv, TypeOK, Known
<1>2. UNCHANGED <<minted, req, storeVars, crashes, acked>> /\ clock' \in 1..MaxClock
  BY <1>1, NowTyped DEF Write, Delete
<1>3. pod' \in [Actors -> PodOver(Known)] /\ \A q \in Actors : pod'[q].at = pod[q].at
      /\ pod'[q].head = pod[q].head
  <2>1. PICK time \in 0..MaxClock, del \in {0, Unstamped} :
          pod' = [pod EXCEPT ![p].upper[path] = time, ![p].deleted[path] = del]
    <3>1. CASE Write(p, path)
      <4>1. PICK time \in Now : pod' = [pod EXCEPT ![p].upper[path] = time, ![p].deleted[path] = 0]
        BY <3>1 DEF Write
      <4>2. time \in 0..MaxClock
        BY <1>1, NowTyped
      <4> QED BY <4>1, <4>2
    <3>2. CASE Delete(p, path)
      <4>1. pod' = [pod EXCEPT ![p].upper[path] = 0, ![p].deleted[path] = Unstamped]
        BY <3>2 DEF Delete
      <4>2. 0 \in 0..MaxClock
        BY <1>1
      <4> QED BY <4>1, <4>2
    <3> QED BY <3>1, <3>2
  <2> DEFINE new == [pod[p] EXCEPT !.upper = [pod[p].upper EXCEPT ![path] = time],
                                   !.deleted = [pod[p].deleted EXCEPT ![path] = del]]
  <2>2. [pod[p].upper EXCEPT ![path] = time] \in [Paths -> 0..MaxClock]
    BY <1>1 DEF PodOver
  <2>3. del \in Unstamped..MaxClock
    BY <1>1 DEF Unstamped
  <2>4. [pod[p].deleted EXCEPT ![path] = del] \in [Paths -> Unstamped..MaxClock]
    BY <1>1, <2>3 DEF PodOver
  <2>5. new \in PodOver(Known) /\ new.at = pod[p].at /\ new.head = pod[p].head
    BY <1>1, <2>2, <2>4 DEF PodOver
  <2>6. pod' = [pod EXCEPT ![p] = new]
    BY <1>1, <2>1 DEF PodOver
  <2> HIDE DEF new
  <2> QED BY <1>1, <2>5, <2>6
<1>4. SendState'
  BY <1>2, <1>3 DEF IInv, SendState, storeVars
<1> QED BY <1>2, <1>3, <1>4, PodChange

\* overlayDeletions gives every deletion a time.
LEMMA DeletionsTyped ==
  ASSUME IInv, NEW p \in Actors
  PROVE  OverlayDeletions(p) \in [Paths -> 0..MaxClock]
<1>1. pod[p].deleted \in [Paths -> Unstamped..MaxClock] /\ clock \in 1..MaxClock /\ MaxClock \in Nat
  BY RefPushAssumption DEF IInv, TypeOK, PodOver
<1> QED BY <1>1 DEF OverlayDeletions, Unstamped

\* buildOverlayHead makes a manifest on top of a known head.
LEMMA OverlayTyped ==
  ASSUME IInv, NEW p \in Actors
  PROVE  OverlayHead(p) \in ManifestOver(Known)
<1>1. pod[p] \in PodOver(Known) /\ MaxClock \in Nat
  BY RefPushAssumption DEF IInv, TypeOK, Known
<1>2. pod[p].head \in Known /\ pod[p].upper \in [Paths -> 0..MaxClock]
  BY <1>1 DEF PodOver
<1> DEFINE last == minted[pod[p].head]
           deletions == OverlayDeletions(p)
           file(path) == IF pod[p].upper[path] # 0 THEN [mtime |-> pod[p].upper[path], actor |-> p]
                         ELSE IF deletions[path] # 0 THEN None
                         ELSE last.files[path]
           gone == IF deletions = Blank THEN last.gone ELSE [last.gone EXCEPT ![p] = deletions]
<1>3. last.files \in [Paths -> Register \cup {None}] /\ last.gone \in [Actors -> [Paths -> Nat]]
  BY <1>2 DEF IInv, TypeOK, Known, ManifestOver
<1>4. deletions \in [Paths -> Nat]
  <2>1. deletions \in [Paths -> 0..MaxClock]
    BY DeletionsTyped
  <2> HIDE DEF deletions
  <2> QED BY <2>1, <1>1
<1>5. ASSUME NEW path \in Paths PROVE file(path) \in Register \cup {None}
  <2> HIDE DEF deletions, last
  <2>1. pod[p].upper[path] \in Nat
    BY <1>1, <1>2
  <2> QED BY <2>1, <1>3 DEF Register
<1>6. gone \in [Actors -> [Paths -> Nat]]
  <2> HIDE DEF deletions, last
  <2> QED BY <1>3, <1>4
<1>7. <<pod[p].head>> \in Seq(Known)
  BY <1>2
<1>8. OverlayHead(p) = [by |-> p, parents |-> <<pod[p].head>>, files |-> [path \in Paths |-> file(path)],
                        gone |-> gone]
  BY DEF OverlayHead, Overlaid
<1> HIDE DEF file, gone
<1> QED BY <1>5, <1>6, <1>7, <1>8 DEF ManifestOver

\* pushOverlay mints a head, or finds that there is nothing to mint.
LEMMA BuildStep ==
  ASSUME IInv, NEW p \in Actors, Push(p) \/ Reopen(p)
  PROVE  IInv'
<1> PICK opening \in BOOLEAN : Build(p, opening)
  BY DEF Push, Reopen
<1> DEFINE deletions == OverlayDeletions(p)
<1>1. /\ pod \in [Actors -> PodOver(Known)] /\ UNCHANGED <<clock, req, storeVars, crashes, acked>>
      /\ clock' \in 1..MaxClock /\ MaxClock \in Nat
  BY RefPushAssumption DEF IInv, TypeOK, Known, Build
<1>2. deletions \in [Paths -> Unstamped..MaxClock]
  <2>1. deletions \in [Paths -> 0..MaxClock]
    BY DeletionsTyped
  <2> HIDE DEF deletions
  <2> QED BY <1>1, <2>1 DEF Unstamped
<1>3. CASE Untouched(p) \/ SameAsHead(p)
  <2>1. pod' = [pod EXCEPT ![p].at = "ask", ![p].opening = opening, ![p].deleted = deletions]
        /\ UNCHANGED minted
    BY <1>3 DEF Build
  <2> DEFINE mine == [pod[p] EXCEPT !.at = "ask", !.opening = opening, !.deleted = deletions]
  <2> HIDE DEF deletions
  <2>2. pod' \in [Actors -> PodOver(Known)]
    <3>1. mine \in PodOver(Known)
      BY <1>1, <1>2 DEF PodOver
    <3>2. pod' = [pod EXCEPT ![p] = mine]
      BY <1>1, <2>1 DEF PodOver
    <3> HIDE DEF mine
    <3> QED BY <1>1, <3>1, <3>2
  <2>3. SendState'
    BY <1>1, <2>1 DEF IInv, SendState, storeVars
  <2> QED BY <1>1, <2>1, <2>2, <2>3, PodChange
<1>4. CASE ~(Untouched(p) \/ SameAsHead(p))
  <2> DEFINE new == DigestOf(minted, OverlayHead(p))
  <2>1. /\ minted' = Put(minted, OverlayHead(p))
        /\ pod' = [pod EXCEPT ![p].at = "manifest", ![p].head = new, ![p].has = @ \cup {new},
                              ![p].opening = opening, ![p].deleted = deletions]
    BY <1>4 DEF Build
  <2>2. WellFormed(minted') /\ Extends(minted', minted) /\ new \in Known'
    BY <2>1, OverlayTyped, PutManifest DEF IInv, Known
  <2> HIDE DEF deletions, new
  <2>3. /\ Known \subseteq Known' /\ pod \in [Actors -> PodOver(Known')]
        /\ req' \in [Actors -> RequestOver(Known')] /\ index' \in IndexOver(Known') \cup {Torn}
        /\ acked' \subseteq [ref : Refs, head : Known']
    BY <1>1, <2>2, Widen DEF IInv, TypeOK, Known, storeVars
  <2>4. pod' \in [Actors -> PodOver(Known')]
    <3> DEFINE mine == [pod[p] EXCEPT !.at = "manifest", !.head = new, !.has = @ \cup {new},
                                      !.opening = opening, !.deleted = deletions]
    <3>1. mine \in PodOver(Known')
      BY <1>2, <2>2, <2>3 DEF PodOver
    <3>2. pod' = [pod EXCEPT ![p] = mine]
      BY <1>1, <2>1 DEF PodOver
    <3> HIDE DEF mine
    <3> QED BY <2>3, <3>1, <3>2
  <2>5. TypeOK'
    BY <1>1, <2>2, <2>3, <2>4 DEF IInv, TypeOK, Known, storeVars, WellFormed
  <2>6. SendState'
    BY <1>1, <2>1 DEF IInv, SendState, storeVars
  <2>7. HeadComplete' /\ RequestState'
    BY <1>1 DEF IInv, HeadComplete, RequestState, Complete, storeVars
  <2> QED BY <2>2, <2>5, <2>6, <2>7 DEF IInv
<1> QED BY <1>3, <1>4

\* A pod asks for the ref, gives up, or adopts the manager's head.
LEMMA PodTurn ==
  ASSUME IInv, NEW p \in Actors, Ask(p) \/ TransferFails(p) \/ Pull(p)
  PROVE  IInv'
<1>1. /\ pod \in [Actors -> PodOver(Known)] /\ clock' = clock /\ clock \in 1..MaxClock
      /\ UNCHANGED <<minted, req, storeVars, crashes, acked>>
  BY DEF IInv, TypeOK, Known, Ask, TransferFails, Pull
<1>2. CASE Ask(p)
  <2>1. PICK at \in {"manifest", "idle"} : pod' = [pod EXCEPT ![p].at = at]
    BY <1>2 DEF Ask
  <2>2. pod' \in [Actors -> PodOver(Known)]
    BY <1>1, <2>1 DEF PodOver
  <2>3. SendState'
    BY <1>1, <2>1 DEF IInv, SendState, storeVars
  <2> QED BY <1>1, <2>2, <2>3, PodChange
<1>3. CASE TransferFails(p)
  <2>1. pod' = [pod EXCEPT ![p].at = "idle"]
    BY <1>3 DEF TransferFails
  <2>2. pod' \in [Actors -> PodOver(Known)]
    BY <1>1, <2>1 DEF PodOver
  <2>3. SendState'
    BY <1>1, <2>1 DEF IInv, SendState, storeVars
  <2> QED BY <1>1, <2>2, <2>3, PodChange
<1>4. CASE Pull(p)
  <2>1. pod[p].at = "idle" /\ GetRef(p) \in Known \cup {None}
    BY <1>4, ReadComplete DEF Pull
  <2> DEFINE same == [pod[p] EXCEPT !.opening = FALSE]
             moved == [pod[p] EXCEPT !.opening = FALSE, !.head = GetRef(p), !.base = GetRef(p),
                                     !.has = @ \cup {GetRef(p)}]
  <2>2. PICK mine \in {same, moved} : pod' = [pod EXCEPT ![p] = mine]
        /\ (mine = same \/ GetRef(p) \in Known)
    <3>1. CASE GetRef(p) \in {None, pod[p].base}
      <4>1. pod' = [pod EXCEPT ![p] = same]
        BY <1>1, <1>4, <3>1 DEF Pull
      <4> QED BY <4>1
    <3>2. CASE GetRef(p) \notin {None, pod[p].base}
      <4>1. pod' = [pod EXCEPT ![p] = moved]
        BY <1>1, <1>4, <3>2 DEF Pull
      <4> QED BY <4>1, <2>1, <3>2
    <3> QED BY <3>1, <3>2
  <2>3. mine \in PodOver(Known) /\ mine.at = "idle"
    <3>1. same \in PodOver(Known) /\ same.at = "idle"
      BY <1>1, <2>1 DEF PodOver
    <3>2. GetRef(p) \in Known => moved \in PodOver(Known) /\ moved.at = "idle"
      BY <1>1, <2>1 DEF PodOver
    <3> HIDE DEF same, moved
    <3> QED BY <2>2, <3>1, <3>2
  <2>4. pod' \in [Actors -> PodOver(Known)] /\ pod'[p] = mine
        /\ \A q \in Actors \ {p} : pod'[q] = pod[q]
    BY <1>1, <2>2, <2>3
  <2>5. SendState'
    BY <1>1, <2>3, <2>4 DEF IInv, SendState, storeVars
  <2> QED BY <1>1, <2>4, <2>5, PodChange
<1> QED BY <1>2, <1>3, <1>4

\* syncRef moves the manifest, then the layers, and sends the ref put.
LEMMA SendStep ==
  ASSUME IInv, NEW p \in Actors, SendManifest(p) \/ SendLayers(p)
  PROVE  IInv'
<1>1. /\ pod \in [Actors -> PodOver(Known)] /\ req \in [Actors -> RequestOver(Known)]
      /\ UNCHANGED <<minted, clock, index, crashes, acked>> /\ pod[p].head \in Known
      /\ index \in IndexOver(Known) \cup {Torn}
  BY DEF IInv, TypeOK, Known, SendManifest, SendLayers, PodOver
<1>2. WellFormed(minted)' /\ Known' = Known
  BY <1>1 DEF IInv, Known, WellFormed, Digests
<1>3. PICK at \in {"layers", "idle"} :
        pod' = [pod EXCEPT ![p].at = at] /\ (at = "layers" => pod[p].head \in held')
  BY DEF SendManifest, SendLayers
<1>4. pod' \in [Actors -> PodOver(Known)]
  BY <1>1, <1>3 DEF PodOver
<1>5. held \subseteq held' /\ full \subseteq full' /\ held' \subseteq Known /\ full' \subseteq Known
  BY <1>1 DEF IInv, TypeOK, Known, SendManifest, SendLayers
<1>6. req' \in [Actors -> RequestOver(Known)]
  <2>1. [Idle EXCEPT !.at = "sent", !.want = pod[p].head] \in RequestOver(Known)
    BY <1>1 DEF RequestOver, Idle
  <2>2. req' = req \/ req' = [req EXCEPT ![p] = [Idle EXCEPT !.at = "sent", !.want = pod[p].head]]
    BY DEF SendManifest, SendLayers
  <2> QED BY <1>1, <2>1, <2>2
<1>7. TypeOK'
  BY <1>1, <1>2, <1>4, <1>5, <1>6 DEF IInv, TypeOK, Known
<1>8. SendState'
  BY <1>1, <1>3, <1>5 DEF IInv, SendState
<1>9. Complete \subseteq Complete' /\ IndexOver(Complete) \subseteq IndexOver(Complete')
  BY <1>5 DEF Complete, IndexOver
<1>10. RequestState'
  <2> DEFINE sent == [Idle EXCEPT !.at = "sent", !.want = pod[p].head]
  <2>1. sent.at = "sent" /\ sent.want = pod[p].head
    BY DEF Idle
  <2>2. req' = req \/ (req' = [req EXCEPT ![p] = sent] /\ pod[p].head \in Complete')
    BY DEF IInv, SendManifest, SendLayers, SendState, Complete
  <2> HIDE DEF sent
  <2>3. \A q \in Actors : req'[q] = req[q] \/ (req'[q] = sent /\ sent.want \in Complete')
    BY <1>1, <2>1, <2>2
  <2> QED BY <2>1, <2>3, <1>9 DEF IInv, RequestState
<1>11. HeadComplete'
  BY <1>1, <1>5 DEF IInv, HeadComplete
<1> QED BY <1>2, <1>7, <1>8, <1>10, <1>11 DEF IInv

-----------------------------------------------------------------------------
(* Steps of the manager.                                                   *)

\* A step of the handler that adds no manifest.
LEMMA RequestChange ==
  ASSUME IInv, UNCHANGED <<podVars, held, full>>, crashes' \in 0..MaxCrashes,
         req' \in [Actors -> RequestOver(Known)], RequestState',
         index' \in IndexOver(Complete) \cup {Torn, index},
             acked' \subseteq [ref : Refs, head : Known]
  PROVE  IInv'
<1>1. Complete \subseteq Known
  BY DEF IInv, TypeOK, Complete, Known
<1>2. WellFormed(minted)' /\ SendState'
  BY DEF IInv, SendState, podVars, WellFormed, Digests
<1>3. index' \in IndexOver(Known) \cup {Torn}
  BY <1>1 DEF IInv, TypeOK, Known, IndexOver
<1>4. TypeOK'
  BY <1>3 DEF IInv, TypeOK, Known, podVars
<1>5. HeadComplete'
  BY DEF IInv, HeadComplete, IndexOver, Complete
<1> QED BY <1>2, <1>4, <1>5 DEF IInv

\* The handler reads the ref, keeps or takes a head, and reads the index.
LEMMA HandlerTurn ==
  ASSUME IInv, NEW p \in Actors, Receive(p) \/ Keep(p) \/ LoadIndex(p)
  PROVE  IInv'
<1>1. /\ req \in [Actors -> RequestOver(Known)] /\ crashes \in 0..MaxCrashes
      /\ UNCHANGED <<podVars, storeVars, crashes, acked>>
            /\ acked \subseteq [ref : Refs, head : Known]
  BY DEF IInv, TypeOK, Known, Receive, Keep, LoadIndex
<1>2. Complete' = Complete /\ Complete \subseteq Known
  BY <1>1 DEF IInv, TypeOK, Complete, Known, storeVars
<1> SUFFICES req' \in [Actors -> RequestOver(Known)] /\ RequestState'
  BY <1>1, RequestChange DEF storeVars
<1>3. CASE Receive(p)
  <2>1. GetRef(p) \in Complete \cup {None} /\ GetRef(p) \in Known \cup {None}
    BY ReadComplete
  <2>2. req' = [req EXCEPT ![p].at = "decide", ![p].cur = GetRef(p)] /\ req[p].at = "sent"
    BY <1>3 DEF Receive
  <2>3. req' \in [Actors -> RequestOver(Known)]
    BY <1>1, <2>1, <2>2 DEF RequestOver
  <2>4. RequestState'
    BY <1>1, <1>2, <2>1, <2>2 DEF IInv, RequestState, RequestOver
  <2> QED BY <2>3, <2>4
<1>4. CASE Keep(p)
  <2>1. /\ req' = [req EXCEPT ![p].at = "index", ![p].final = Settled(p)] /\ req[p].at = "decide"
        /\ Settled(p) # None
    BY <1>4 DEF Keep
  <2>2. Settled(p) \in {req[p].want, req[p].cur, None}
    BY DEF Settled
  <2>3. Settled(p) \in Complete
    BY <2>1, <2>2 DEF IInv, RequestState
  <2>4. req' \in [Actors -> RequestOver(Known)]
    BY <1>1, <1>2, <2>1, <2>3 DEF RequestOver
  <2>5. RequestState'
    BY <1>1, <1>2, <2>1, <2>3 DEF IInv, RequestState, RequestOver
  <2> QED BY <2>4, <2>5
<1>5. CASE LoadIndex(p)
  <2> DEFINE snap == [ReadIndex EXCEPT ![Basis[p]] = req[p].final]
  <2>1. req' = [req EXCEPT ![p].at = "truncate", ![p].snap = snap] /\ req[p].at = "index"
    BY <1>5 DEF LoadIndex
  <2>2. req[p].final \in Complete
    BY <2>1 DEF IInv, RequestState
  <2>3. snap \in IndexOver(Complete) /\ snap \in IndexOver(Known)
    BY <1>2, <2>2, ReadComplete DEF IndexOver
  <2> HIDE DEF snap
  <2>4. req' \in [Actors -> RequestOver(Known)]
    BY <1>1, <2>1, <2>3 DEF RequestOver
  <2>5. RequestState'
    BY <1>1, <1>2, <2>1, <2>3 DEF IInv, RequestState, RequestOver
  <2> QED BY <2>4, <2>5
<1> QED BY <1>3, <1>4, <1>5

\* Merge-on-push adds a manifest and its layers, or fails.
LEMMA JoinStep ==
  ASSUME IInv, NEW p \in Actors, JoinHeads(p)
  PROVE  IInv'
<1> DEFINE result == MergeHeads(minted, held, req[p].cur, req[p].want)
<1>1. /\ pod \in [Actors -> PodOver(Known)] /\ req \in [Actors -> RequestOver(Known)]
      /\ UNCHANGED <<clock, pod, index, crashes, acked>> /\ req[p].at = "decide"
  BY DEF IInv, TypeOK, Known, JoinHeads, Store
<1>2. CASE minted' = minted /\ UNCHANGED <<held, full>> /\ req' = [req EXCEPT ![p] = Idle]
  <2>1. Idle \in RequestOver(Known) /\ Idle.at = "none"
    BY DEF Idle, RequestOver
  <2>2. req' \in [Actors -> RequestOver(Known)]
    BY <1>1, <1>2, <2>1
  <2>3. RequestState'
    BY <1>1, <1>2, <2>1 DEF IInv, RequestState, Complete
  <2> QED BY <1>1, <1>2, <2>2, <2>3, RequestChange DEF IInv, TypeOK, Known, podVars
<1>3. CASE /\ minted' = result.all /\ held' = held \cup {result.head} /\ full' = full \cup {result.head}
           /\ req' = [req EXCEPT ![p].at = "index", ![p].final = result.head]
  <2>1. req[p].cur \in Known /\ req[p].want \in Known
    <3>1. Settled(p) = None /\ req[p].want \in Complete /\ req[p].cur \in Complete \cup {None}
      BY <1>1 DEF JoinHeads, IInv, RequestState
    <3>2. req[p].cur # None
      <4>1. Complete \subseteq Nat
        BY DEF IInv, TypeOK, Complete, Digests, WellFormed
      <4>2. req[p].want \in Nat
        BY <3>1, <4>1, Zenon
      <4>3. req[p].want # None
        BY <4>2, HeadMergeAssumption, Zenon
      <4> QED BY <3>1, <4>3 DEF Settled
    <3> QED BY <3>1, <3>2 DEF IInv, TypeOK, Complete, Known
  <2>2. WellFormed(minted') /\ Extends(minted', minted) /\ result.head \in Known'
    BY <1>3, <2>1, MergedHead DEF IInv, Known
  <2> HIDE DEF result
  <2>3. /\ Known \subseteq Known' /\ pod' \in [Actors -> PodOver(Known')]
        /\ req \in [Actors -> RequestOver(Known')] /\ index' \in IndexOver(Known') \cup {Torn}
        /\ acked' \subseteq [ref : Refs, head : Known']
    BY <1>1, <2>2, Widen DEF IInv, TypeOK, Known
  <2>4. req' \in [Actors -> RequestOver(Known')]
    BY <1>3, <2>2, <2>3 DEF RequestOver
  <2>5. held' \subseteq Known' /\ full' \subseteq Known'
    BY <1>3, <2>2, <2>3 DEF IInv, TypeOK, Known
  <2>6. TypeOK'
    BY <1>1, <2>2, <2>3, <2>4, <2>5 DEF IInv, TypeOK, Known, WellFormed
  <2>7. SendState' /\ HeadComplete'
    BY <1>1, <1>3 DEF IInv, SendState, HeadComplete
  <2>8. Complete \subseteq Complete' /\ IndexOver(Complete) \subseteq IndexOver(Complete')
        /\ result.head \in Complete'
    BY <1>3 DEF Complete, IndexOver
  <2>9. RequestState'
    BY <1>1, <1>3, <2>8 DEF IInv, RequestState, RequestOver
  <2> QED BY <2>2, <2>6, <2>7, <2>9 DEF IInv
<1> QED BY <1>2, <1>3 DEF JoinHeads, Store

\* putRef empties index.json and writes it; a restart drops the requests.
LEMMA WriteStep ==
  ASSUME IInv, Crash \/ \E p \in Actors : Truncate(p) \/ Fill(p)
  PROVE  IInv'
<1>1. /\ req \in [Actors -> RequestOver(Known)] /\ crashes \in 0..MaxCrashes
      /\ UNCHANGED <<podVars, held, full>> /\ acked \subseteq [ref : Refs, head : Known]
  BY DEF IInv, TypeOK, Known, Crash, Truncate, Fill, storeVars
<1>2. Complete' = Complete
  BY <1>1 DEF Complete
<1>3. Idle \in RequestOver(Known) /\ Idle.at = "none"
  BY DEF Idle, RequestOver
<1>4. CASE Crash
  <2>1. crashes' \in 0..MaxCrashes /\ index' = index /\ acked' = acked
        /\ req' = [p \in Actors |-> Idle]
    BY <1>1, <1>4, RefPushAssumption DEF Crash, storeVars
  <2>2. req' \in [Actors -> RequestOver(Known)] /\ RequestState'
    BY <1>3, <2>1 DEF RequestState
  <2> QED BY <1>1, <2>1, <2>2, RequestChange
<1>5. ASSUME NEW p \in Actors, Truncate(p) PROVE IInv'
  <2>1. /\ req' = [req EXCEPT ![p].at = "fill"] /\ req[p].at = "truncate"
        /\ index' = Torn /\ crashes' = crashes /\ acked' = acked
    BY <1>5 DEF Truncate
  <2>2. req' \in [Actors -> RequestOver(Known)]
    BY <1>1, <2>1 DEF RequestOver
  <2>3. RequestState'
    BY <1>1, <1>2, <2>1 DEF IInv, RequestState, RequestOver
  <2> QED BY <1>1, <2>1, <2>2, <2>3, RequestChange
<1>6. ASSUME NEW p \in Actors, Fill(p) PROVE IInv'
  <2>1. /\ req' = [req EXCEPT ![p] = Idle] /\ req[p].at = "fill" /\ index' \in {req[p].snap, Torn}
        /\ acked' = acked \cup {[ref |-> Basis[p], head |-> req[p].want]} /\ crashes' = crashes
    BY <1>6 DEF Fill
  <2>2. req' \in [Actors -> RequestOver(Known)]
    BY <1>1, <1>3, <2>1
  <2>3. RequestState'
    BY <1>1, <1>2, <1>3, <2>1 DEF IInv, RequestState
  <2>4. req[p].snap \in IndexOver(Complete) /\ req[p].want \in Known
    BY <2>1 DEF IInv, RequestState, TypeOK, Complete, Known
  <2>5. acked' \subseteq [ref : Refs, head : Known]
    <3>1. Basis[p] \in Refs
      BY RefPushAssumption
    <3>2. [ref |-> Basis[p], head |-> req[p].want] \in [ref : Refs, head : Known]
      BY <2>4, <3>1
    <3> QED BY <1>1, <2>1, <3>2
  <2> QED BY <1>1, <2>1, <2>2, <2>3, <2>4, <2>5, RequestChange
<1> QED BY <1>4, <1>5, <1>6

-----------------------------------------------------------------------------
LEMMA Inductive == IInv /\ [Next]_vars => IInv'
<1> SUFFICES ASSUME IInv, [Next]_vars PROVE IInv'
  OBVIOUS
<1>1. CASE UNCHANGED vars
  <2>1. UNCHANGED <<minted, req, storeVars, crashes, acked>> /\ clock' = clock /\ pod' = pod
    BY <1>1 DEF vars, podVars
  <2>2. pod' \in [Actors -> PodOver(Known)] /\ clock' \in 1..MaxClock /\ SendState'
    BY <2>1 DEF IInv, TypeOK, Known, SendState, storeVars
  <2> QED BY <2>1, <2>2, PodChange
<1>2. CASE \E p \in Actors, path \in Paths : Write(p, path) \/ Delete(p, path)
  BY <1>2, UserStep
<1>3. ASSUME NEW p \in Actors, PodStep(p) PROVE IInv'
  BY <1>3, BuildStep, PodTurn, SendStep DEF PodStep
<1>4. ASSUME NEW p \in Actors, HandlerStep(p) PROVE IInv'
  BY <1>4, HandlerTurn, JoinStep, WriteStep DEF HandlerStep
<1>5. CASE Crash
  BY <1>5, WriteStep
<1> QED BY <1>1, <1>2, <1>3, <1>4, <1>5 DEF Next

\* The state that pods and manager keep has the shape the code gives it: in
\* particular, a manifest's parents are always older than the manifest.
THEOREM TypeCorrect == Spec => []TypeOK
<1>1. IInv => TypeOK
  BY DEF IInv
<1> QED BY <1>1, InitIInv, Inductive, PTL DEF Spec

\* syncRef's order (manifest, layers, ref) and merge-on-push never let a ref
\* name a head whose manifest or layers the manager lacks.
THEOREM HeadsComplete == Spec => []HeadComplete
<1>1. IInv => HeadComplete
  BY DEF IInv
<1> QED BY <1>1, InitIInv, Inductive, PTL DEF Spec

-----------------------------------------------------------------------------
(* What IsAncestor finds.                                                   *)

\* What a manifest is put under is that manifest.
LEMMA PutFound ==
  ASSUME NEW m, WellFormed(m), NEW new \in ManifestOver(Digests(m))
  PROVE  Put(m, new)[DigestOf(m, new)] = new
<1>1. CASE \E d \in Digests(m) : m[d] = new
  BY <1>1 DEF Put, DigestOf
<1>2. CASE ~\E d \in Digests(m) : m[d] = new
  <2>1. new \in ManifestOver(Nat)
    BY ManifestWiden DEF WellFormed, Digests
  <2>2. Put(m, new) = Append(m, new) /\ DigestOf(m, new) = Len(m) + 1
    BY <1>2 DEF Put, DigestOf
  <2> QED BY <2>1, <2>2 DEF WellFormed
<1> QED BY <1>1, <1>2

LEMMA SelfFound == ASSUME NEW m, NEW have, NEW a PROVE IsAncestor(m, have, a, a)
BY DEF IsAncestor

\* The walk from a manifest finds its parents.
LEMMA ParentFound ==
  ASSUME NEW m, NEW h \in Digests(m), NEW i \in DOMAIN m[h].parents, NEW have, h \in have
  PROVE  IsAncestor(m, have, m[h].parents[i], h)
BY DEF IsAncestor, ParentsIn

LEMMA FoundThrough ==
  ASSUME NEW m, NEW have, NEW a, NEW b \in Digests(m), NEW c,
         IsAncestor(m, have, a, b), IsAncestor(m, have, b, c)
  PROVE  IsAncestor(m, have, a, c)
<1> SUFFICES ASSUME NEW S \in SUBSET (Digests(m) \ {a}), c \in S
             PROVE  \E d \in S \cap have : ~ParentsIn(m, d, S)
  BY DEF IsAncestor
<1>1. CASE b \in S
  BY <1>1 DEF IsAncestor
<1>2. CASE b \notin S
  <2>1. S \in SUBSET (Digests(m) \ {b})
    BY <1>2
  <2> QED BY <2>1 DEF IsAncestor
<1> QED BY <1>1, <1>2

LEMMA ElementIn == ASSUME NEW S, NEW s \in Seq(S), NEW i \in DOMAIN s PROVE s[i] \in S
OBVIOUS

\* What is found stays found when manifests are minted or reach the store.
LEMMA FoundStays ==
  ASSUME NEW m, WellFormed(m), NEW more, Extends(more, m), NEW have, have \subseteq Digests(m),
         NEW larger, have \subseteq larger, NEW a, NEW h \in Digests(m), IsAncestor(m, have, a, h)
  PROVE  IsAncestor(more, larger, a, h)
<1> SUFFICES ASSUME NEW S \in SUBSET (Digests(more) \ {a}), h \in S
             PROVE  \E d \in S \cap larger : ~ParentsIn(more, d, S)
  BY DEF IsAncestor
<1> DEFINE T == S \cap Digests(m)
<1>1. T \in SUBSET (Digests(m) \ {a}) /\ h \in T
  OBVIOUS
<1>2. PICK d \in T \cap have : ~ParentsIn(m, d, T)
  BY <1>1 DEF IsAncestor
<1>3. PICK i \in DOMAIN m[d].parents : m[d].parents[i] \notin T
  BY <1>2 DEF ParentsIn
<1>4. m[d].parents[i] \in Digests(m)
  <2>1. m[d] \in ManifestOver(1..(d - 1)) /\ d \in 1..Len(m) /\ Len(m) \in Nat
    BY <1>2 DEF WellFormed, Digests
  <2>2. m[d].parents \in Seq(1..(d - 1))
    BY <2>1 DEF ManifestOver
  <2>3. m[d].parents[i] \in 1..(d - 1)
    BY <2>2, <1>3, ElementIn
  <2> QED BY <2>1, <2>3 DEF Digests
<1>5. more[d] = m[d]
  BY <1>2 DEF Extends
<1>6. ~ParentsIn(more, d, S)
  BY <1>3, <1>4, <1>5 DEF ParentsIn
<1> QED BY <1>2, <1>6

\* The head that mergeHeads gives has both heads in its history.
LEMMA MergeFindsBoth ==
  ASSUME NEW m, WellFormed(m), NEW have, have \subseteq Digests(m), NEW a \in Digests(m),
         NEW b \in Digests(m)
  PROVE  LET result == MergeHeads(m, have, a, b)
         IN  /\ IsAncestor(result.all, have \cup {result.head}, a, result.head)
             /\ IsAncestor(result.all, have \cup {result.head}, b, result.head)
<1> DEFINE base == CommonAncestor(m, have, a, b)
           old == IF base = None THEN None ELSE m[base]
           parents == IF a < b THEN <<a, b>> ELSE <<b, a>>
           joined == Join(m[a], m[b], old, parents)
<1>1. joined \in ManifestOver(Digests(m)) /\ joined.parents = parents
  <2>1. m[a] \in ManifestOver(1..(a - 1)) /\ m[b] \in ManifestOver(1..(b - 1))
    BY DEF WellFormed
  <2>2. [path \in Paths |-> JoinPath(m[a], m[b], old, path)] \in [Paths -> Register \cup {None}]
    BY <2>1, JoinedFile
  <2>3. parents \in Seq(Digests(m))
    OBVIOUS
  <2>4. NoWhiteouts \in [Actors -> [Paths -> Nat]]
    BY DEF NoWhiteouts
  <2> HIDE DEF parents, old
  <2> QED BY <2>2, <2>3, <2>4 DEF Join, ManifestOver
<1>2. \A x \in {a, b} : \E i \in DOMAIN parents : parents[i] = x
  OBVIOUS
<1> HIDE DEF joined, parents
<1>3. ASSUME NEW x \in {a, b}
      PROVE  IsAncestor(Put(m, joined), have \cup {DigestOf(m, joined)}, x, DigestOf(m, joined))
  <2>1. /\ DigestOf(m, joined) \in Digests(Put(m, joined))
        /\ Put(m, joined)[DigestOf(m, joined)].parents = parents
    BY <1>1, PutManifest, PutFound
  <2>2. PICK i \in DOMAIN parents : parents[i] = x
    BY <1>2
  <2> QED BY <2>1, <2>2, ParentFound
<1>4. ASSUME NEW x \in {a, b}, NEW y \in {a, b}, IsAncestor(m, have, x, y)
      PROVE  IsAncestor(m, have \cup {y}, x, y)
  <2>1. Extends(m, m)
    BY DEF Extends, WellFormed
  <2> QED BY <1>4, <2>1, FoundStays
<1>5. \/ MergeHeads(m, have, a, b) = [all |-> m, head |-> a] /\ IsAncestor(m, have, b, a)
      \/ MergeHeads(m, have, a, b) = [all |-> m, head |-> b] /\ IsAncestor(m, have, a, b)
      \/ MergeHeads(m, have, a, b) = [all |-> Put(m, joined), head |-> DigestOf(m, joined)]
  BY DEF MergeHeads, Added, JoinOver, joined, parents
<1>6. CASE MergeHeads(m, have, a, b) = [all |-> m, head |-> a] /\ IsAncestor(m, have, b, a)
  BY <1>4, <1>6, SelfFound
<1>7. CASE MergeHeads(m, have, a, b) = [all |-> m, head |-> b] /\ IsAncestor(m, have, a, b)
  BY <1>4, <1>7, SelfFound
<1>8. CASE MergeHeads(m, have, a, b) = [all |-> Put(m, joined), head |-> DigestOf(m, joined)]
  BY <1>3, <1>8
<1> QED BY <1>5, <1>6, <1>7, <1>8

-----------------------------------------------------------------------------
(* While the manager is up and handles one put at a time, what it answered *)
(* stays reachable: the next head it writes descends from the one it read. *)

\* The index i, were it written, kept the put answered a.
Keeps(i, a) == i[a.ref] # None /\ IsAncestor(minted, held, a.head, i[a.ref])

HandlerKeeps(p) ==
  LET put == req[p]
      mine == [ref |-> Basis[p], head |-> put.want]
  IN  /\ put.at = "decide" => put.cur = index[Basis[p]]
      /\ put.at = "index" =>
            /\ IsAncestor(minted, held, put.want, put.final)
            /\ \A a \in acked : a.ref = Basis[p] => IsAncestor(minted, held, a.head, put.final)
      /\ put.at \in {"truncate", "fill"} => \A a \in acked \cup {mine} : Keeps(put.snap, a)

OneHandler == \A p, q \in Actors : Handling(p) /\ Handling(q) => p = q
\* A pod that is at work on a push has no put at the manager.
PushThenPut == \A p \in Actors : pod[p].at # "idle" => req[p].at = "none"
TornWhileFilling == index = Torn <=> \E p \in Actors : req[p].at = "fill"

HInv == crashes = 0 => /\ OneHandler /\ PushThenPut /\ TornWhileFilling /\ HistoryKept
                       /\ \A p \in Actors : HandlerKeeps(p)

LEMMA InitHInv == Init => HInv
BY RefPushAssumption DEF Init, HInv, OneHandler, PushThenPut, TornWhileFilling, HistoryKept,
   HandlerKeeps, Handling, Idle

\* A readable index is a function on the refs.
LEMMA IndexTyped == ASSUME IInv, index # Torn
  PROVE index \in [Refs -> Known \cup {None}] /\ Known \subseteq Nat
BY DEF IInv, TypeOK, IndexOver, Known, Digests, WellFormed

LEMMA KeepsStays ==
  ASSUME IInv, held \subseteq held', Extends(minted', minted), NEW i \in IndexOver(Known),
         NEW a \in [ref : Refs, head : Known], Keeps(i, a)
  PROVE  Keeps(i, a)'
<1>1. i[a.ref] \in Known /\ held \subseteq Digests(minted) /\ WellFormed(minted)
  BY DEF Keeps, IndexOver, IInv, TypeOK, Known
<1>2. IsAncestor(minted', held', a.head, i[a.ref])
  BY <1>1, FoundStays DEF Keeps, Known
<1> QED BY <1>2 DEF Keeps

\* Manifests are minted and reach the store, and pods send their puts, which
\* changes nothing for what the manager handles.
LEMMA PodsMove ==
  ASSUME IInv, HInv, Extends(minted', minted), held \subseteq held',
         UNCHANGED <<index, crashes, acked>>, PushThenPut',
         \A p \in Actors : req'[p] = req[p] \/ (req[p].at = "none" /\ req'[p].at = "sent")
  PROVE  HInv'
<1> SUFFICES ASSUME crashes = 0 PROVE HInv'
  BY DEF HInv
<1>1. \A p \in Actors : req'[p] = req[p] \/ req'[p].at = "sent"
  OBVIOUS
<1>2. OneHandler' /\ TornWhileFilling'
  BY DEF HInv, OneHandler, TornWhileFilling, Handling
<1>3. acked \subseteq [ref : Refs, head : Known] /\ held \subseteq Digests(minted)
      /\ WellFormed(minted)
  BY DEF IInv, TypeOK, Known
<1>4. HistoryKept'
  <2> SUFFICES ASSUME index # Torn, NEW a \in acked PROVE Keeps(index, a)'
    BY DEF HistoryKept, Keeps
  <2>1. index \in IndexOver(Known) /\ Keeps(index, a)
    BY DEF HInv, HistoryKept, Keeps, IInv, TypeOK, Known
  <2> QED BY <1>3, <2>1, KeepsStays
<1>5. ASSUME NEW p \in Actors PROVE HandlerKeeps(p)'
  <2>1. CASE req'[p].at = "sent"
    BY <2>1 DEF HandlerKeeps
  <2>2. CASE req'[p] = req[p]
    <3>1. req[p] \in RequestOver(Known)
      BY DEF IInv, TypeOK, Known
    <3>2. ASSUME req[p].at = "index", NEW d, IsAncestor(minted, held, d, req[p].final)
          PROVE  IsAncestor(minted', held', d, req[p].final)
      <4>1. req[p].final \in Digests(minted)
        BY <3>2 DEF IInv, RequestState, Complete, TypeOK
      <4> QED BY <1>3, <3>2, <4>1, FoundStays
    <3>3. ASSUME req[p].at \in {"truncate", "fill"},
          NEW a \in acked \cup {[ref |-> Basis[p], head |-> req[p].want]}
          PROVE  Keeps(req[p].snap, a)'
      <4>1. req[p].snap \in IndexOver(Known)
        BY <3>3 DEF IInv, RequestState, Complete, TypeOK, IndexOver, Known
      <4>2. req[p].want \in Known /\ Basis[p] \in Refs
        BY <3>3, RefPushAssumption DEF IInv, RequestState, Complete, TypeOK, Known
      <4> PICK i : i = req[p].snap
        OBVIOUS
      <4>3. Keeps(i, a)
        BY <3>3 DEF HInv, HandlerKeeps
      <4>4. a \in [ref : Refs, head : Known]
        BY <1>3, <3>3, <4>2
      <4>5. Keeps(i, a)'
        BY <4>1, <4>3, <4>4, KeepsStays
      <4> QED BY <2>2, <4>5 DEF Keeps
    <3>4. HandlerKeeps(p)
      BY DEF HInv
    <3> QED BY <2>2, <3>2, <3>3, <3>4 DEF HandlerKeeps
  <2> QED BY <1>1, <2>1, <2>2
<1> QED BY <1>2, <1>4, <1>5 DEF HInv

\* The pods' steps: a pod asks, mints and sends only while it has no put.
LEMMA PodsKeepHistory ==
  ASSUME IInv, HInv,
         \/ \E p \in Actors, path \in Paths : Write(p, path) \/ Delete(p, path)
         \/ \E p \in Actors : PodStep(p)
  PROVE  HInv'
<1>1. Extends(minted, minted) /\ pod \in [Actors -> PodOver(Known)]
      /\ req \in [Actors -> RequestOver(Known)]
  BY DEF IInv, TypeOK, Known, Extends, WellFormed
<1>2. UNCHANGED <<index, crashes, acked>> /\ held \subseteq held'
  BY DEF Write, Delete, PodStep, Push, Reopen, Build, Ask, SendManifest, SendLayers,
     TransferFails, Pull, storeVars
<1>3. Extends(minted', minted)
  <2>1. ASSUME NEW p \in Actors, minted' = Put(minted, OverlayHead(p))
        PROVE Extends(minted', minted)
    BY <2>1, OverlayTyped, PutManifest DEF IInv, Known
  <2>2. minted' = minted \/ \E p \in Actors : minted' = Put(minted, OverlayHead(p))
    BY DEF Write, Delete, PodStep, Push, Reopen, Build, Ask, SendManifest, SendLayers,
       TransferFails, Pull
  <2> QED BY <1>1, <2>1, <2>2
<1> SUFFICES ASSUME crashes = 0 PROVE HInv'
  BY <1>2 DEF HInv
<1>4. PushThenPut
  BY DEF HInv
<1>5. \A p \in Actors : req'[p] = req[p] \/ (req[p].at = "none" /\ req'[p].at = "sent")
  <2>1. CASE req' = req
    BY <2>1
  <2>2. ASSUME NEW p \in Actors, SendLayers(p)
        PROVE \A q \in Actors : req'[q] = req[q] \/ (req[q].at = "none" /\ req'[q].at = "sent")
    <3>1. req' = [req EXCEPT ![p] = [Idle EXCEPT !.at = "sent", !.want = pod[p].head]]
          /\ req[p].at = "none"
      BY <2>2, <1>4 DEF SendLayers, PushThenPut
    <3>2. [Idle EXCEPT !.at = "sent", !.want = pod[p].head].at = "sent"
      BY DEF Idle
    <3> QED BY <1>1, <3>1, <3>2
  <2>3. req' = req \/ \E p \in Actors : SendLayers(p)
    BY DEF Write, Delete, PodStep, Push, Reopen, Build, Ask, SendManifest, TransferFails, Pull
  <2> QED BY <2>1, <2>2, <2>3
<1>6. PushThenPut'
  <2> SUFFICES ASSUME NEW q \in Actors, pod'[q].at # "idle" PROVE req'[q].at = "none"
    BY DEF PushThenPut
  <2>1. CASE \E p \in Actors, path \in Paths : Write(p, path) \/ Delete(p, path)
    <3>1. PICK p \in Actors, path \in Paths : Write(p, path) \/ Delete(p, path)
      BY <2>1
    <3>2. PICK f : f.at = pod[p].at /\ pod' = [pod EXCEPT ![p] = f] /\ req' = req
      <4>1. pod[p] \in PodOver(Known)
        BY <1>1
      <4>2. CASE Write(p, path)
        <5>1. PICK time : /\ req' = req
                          /\ pod' = [pod EXCEPT ![p].upper[path] = time, ![p].deleted[path] = 0]
          BY <4>2 DEF Write
        <5>2. [pod[p] EXCEPT !.upper[path] = time, !.deleted[path] = 0].at = pod[p].at
          BY <4>1 DEF PodOver
        <5> QED BY <1>1, <5>1, <5>2
      <4>3. CASE Delete(p, path)
        <5>1. /\ req' = req
              /\ pod' = [pod EXCEPT ![p].upper[path] = 0, ![p].deleted[path] = Unstamped]
          BY <4>3 DEF Delete
        <5>2. [pod[p] EXCEPT !.upper[path] = 0, !.deleted[path] = Unstamped].at = pod[p].at
          BY <4>1 DEF PodOver
        <5> QED BY <1>1, <5>1, <5>2
      <4> QED BY <3>1, <4>2, <4>3
    <3>3. pod'[q].at = pod[q].at
      BY <1>1, <3>2
    <3> QED BY <1>4, <3>2, <3>3 DEF PushThenPut
  <2>2. ASSUME NEW p \in Actors, PodStep(p) PROVE req'[q].at = "none"
    <3>1. \A r \in Actors \ {p} : pod'[r] = pod[r] /\ req'[r] = req[r]
      BY <1>1, <2>2 DEF PodStep, Push, Reopen, Build, Ask, SendManifest, SendLayers,
         TransferFails, Pull
    <3>2. CASE Push(p) \/ Reopen(p)
      <4>1. req' = req /\ req[p].at = "none"
        BY <3>2 DEF Push, Reopen, Build, Idle
      <4> QED BY <1>4, <3>1, <4>1 DEF PushThenPut
    <3>3. CASE Ask(p) \/ TransferFails(p) \/ SendManifest(p)
      <4>1. req' = req /\ pod[p].at # "idle"
        BY <3>3 DEF Ask, TransferFails, SendManifest
      <4> QED BY <1>4, <3>1, <4>1 DEF PushThenPut
    <3>4. CASE SendLayers(p)
      <4>1. pod'[p].at = "idle"
        BY <1>1, <3>4 DEF SendLayers, PodOver
      <4> QED BY <1>4, <3>1, <4>1 DEF PushThenPut
    <3>5. CASE Pull(p)
      <4>1. pod'[p].at = "idle"
        BY <1>1, <3>5 DEF Pull, PodOver
      <4> QED BY <1>4, <3>1, <4>1 DEF PushThenPut
    <3> QED BY <2>2, <3>2, <3>3, <3>4, <3>5 DEF PodStep
  <2> QED BY <2>1, <2>2
<1> QED BY <1>2, <1>3, <1>5, <1>6, PodsMove

\* A step of the one put that is handled.
LEMMA TurnOf ==
  ASSUME IInv, HInv, crashes = 0, UNCHANGED <<pod, crashes>>, NEW p \in Actors, NEW f,
         req' = [req EXCEPT ![p] = f],
         req[p].at # "none", \A q \in Actors \ {p} : ~Handling(q),
         HandlerKeeps(p)', HistoryKept', index' = Torn <=> f.at = "fill"
  PROVE  HInv'
<1>1. req'[p] = f /\ \A q \in Actors \ {p} : req'[q] = req[q] /\ req[q].at \in {"none", "sent"}
  BY DEF IInv, TypeOK, Handling
<1>2. OneHandler'
  BY <1>1 DEF OneHandler, Handling
<1>3. PushThenPut'
  <2>1. PushThenPut
    BY DEF HInv
  <2> QED BY <1>1, <2>1 DEF PushThenPut
<1>4. TornWhileFilling'
  BY <1>1 DEF TornWhileFilling
<1>5. \A q \in Actors : HandlerKeeps(q)'
  <2>1. ASSUME NEW q \in Actors \ {p} PROVE HandlerKeeps(q)'
    <3>1. req'[q].at \in {"none", "sent"}
      BY <1>1
    <3> QED BY <3>1 DEF HandlerKeeps
  <2> QED BY <2>1
<1> QED BY <1>2, <1>3, <1>4, <1>5 DEF HInv

\* What the put that is handled knows.
LEMMA Handled ==
  ASSUME IInv, HInv, crashes = 0, NEW p \in Actors, Handling(p)
  PROVE  /\ \A q \in Actors \ {p} : ~Handling(q)
         /\ HandlerKeeps(p) /\ HistoryKept /\ (index = Torn <=> req[p].at = "fill")
         /\ req[p] \in RequestOver(Known) /\ req[p].want \in Known /\ req[p].at # "none"
<1>1. /\ \A q \in Actors \ {p} : ~Handling(q)
      /\ HandlerKeeps(p) /\ HistoryKept /\ TornWhileFilling
  BY DEF HInv, OneHandler
<1>2. index = Torn <=> req[p].at = "fill"
  BY <1>1 DEF TornWhileFilling, Handling
<1>3. req[p] \in RequestOver(Known) /\ req[p].want \in Known /\ req[p].at # "none"
  BY DEF IInv, TypeOK, Known, RequestState, Complete, Handling
<1> QED BY <1>1, <1>2, <1>3

LEMMA ReceiveKeeps == ASSUME ~Overlap, IInv, HInv, crashes = 0, NEW p \in Actors, Receive(p)
  PROVE HInv'
<1>1. /\ req[p].at = "sent" /\ \A q \in Actors : ~Handling(q) /\ UNCHANGED <<minted, held, pod, index, crashes, acked>>
      /\ req' = [req EXCEPT ![p].at = "decide", ![p].cur = GetRef(p)]
  BY DEF Receive, podVars, storeVars
<1>2. index # Torn /\ HistoryKept
  BY <1>1 DEF HInv, TornWhileFilling, Handling
<1>3. GetRef(p) = index[Basis[p]]
  BY <1>2 DEF GetRef, ReadIndex
<1> DEFINE f == [req[p] EXCEPT !.at = "decide", !.cur = GetRef(p)]
<1>4. req[p] \in RequestOver(Known) /\ req \in [Actors -> RequestOver(Known)]
  BY DEF IInv, TypeOK, Known
<1>5. f.at = "decide" /\ f.cur = GetRef(p)
  BY <1>4 DEF RequestOver
<1>6. req' = [req EXCEPT ![p] = f] /\ req'[p] = f
  BY <1>1, <1>4
<1> HIDE DEF f
<1>7. HandlerKeeps(p)' /\ HistoryKept'
  BY <1>1, <1>2, <1>3, <1>5, <1>6 DEF HandlerKeeps, HistoryKept
<1> QED BY <1>1, <1>2, <1>5, <1>6, <1>7, TurnOf

\* Create or repeat, stale push and fast-forward keep what was there.
LEMMA KeepKeeps == ASSUME IInv, HInv, crashes = 0, NEW p \in Actors, Keep(p) PROVE HInv'
<1>1. /\ req[p].at = "decide" /\ UNCHANGED <<minted, held, pod, index, crashes, acked>>
      /\ req' = [req EXCEPT ![p].at = "index", ![p].final = Settled(p)] /\ Settled(p) # None
  BY DEF Keep, podVars, storeVars
<1>2. /\ \A q \in Actors \ {p} : ~Handling(q)
      /\ HandlerKeeps(p) /\ HistoryKept /\ index # Torn
      /\ req[p] \in RequestOver(Known) /\ req[p].want \in Known
  BY <1>1, Handled DEF Handling
<1>3. req[p].cur = index[Basis[p]] /\ req[p].cur \in Known \cup {None}
  BY <1>1, <1>2 DEF HandlerKeeps, RequestOver
<1>4. \A a \in acked : a.ref = Basis[p] => req[p].cur # None
      /\ IsAncestor(minted, held, a.head, req[p].cur)
  BY <1>2, <1>3 DEF HistoryKept
<1>5. /\ IsAncestor(minted, held, req[p].want, Settled(p))
      /\ req[p].cur # None => IsAncestor(minted, held, req[p].cur, Settled(p))
  BY <1>1, SelfFound DEF Settled
<1>6. \A a \in acked : a.ref = Basis[p] => IsAncestor(minted, held, a.head, Settled(p))
  BY <1>3, <1>4, <1>5, FoundThrough DEF Known
<1> DEFINE f == [req[p] EXCEPT !.at = "index", !.final = Settled(p)]
<1>7. f.at = "index" /\ f.final = Settled(p) /\ f.want = req[p].want
  BY <1>2 DEF RequestOver
<1>8. req \in [Actors -> RequestOver(Known)] /\ req' = [req EXCEPT ![p] = f]
  BY <1>1 DEF IInv, TypeOK, Known
<1>9. req'[p] = f
  BY <1>8
<1> HIDE DEF f
<1>10. HandlerKeeps(p)'
  <2> PICK d : d = Settled(p)
    OBVIOUS
  <2> QED BY <1>1, <1>5, <1>6, <1>7, <1>9 DEF HandlerKeeps
<1>11. HistoryKept'
  BY <1>1, <1>2 DEF HistoryKept
<1> QED BY <1>1, <1>2, <1>7, <1>8, <1>10, <1>11, TurnOf

\* A merge has both heads in its history, hence what either kept.
LEMMA JoinKeeps == ASSUME IInv, HInv, crashes = 0, NEW p \in Actors, JoinHeads(p) PROVE HInv'
<1>1. req[p].at = "decide" /\ Settled(p) = None /\ UNCHANGED <<pod, index, crashes, acked>>
  BY DEF JoinHeads
<1>2. /\ \A q \in Actors \ {p} : ~Handling(q)
      /\ HandlerKeeps(p) /\ HistoryKept /\ index # Torn
      /\ req[p] \in RequestOver(Known) /\ req[p].want \in Known
  BY <1>1, Handled DEF Handling
<1>3. req[p].cur = index[Basis[p]] /\ req[p].cur \in Known \cup {None}
  BY <1>1, <1>2 DEF HandlerKeeps, RequestOver
<1>4. req \in [Actors -> RequestOver(Known)] /\ WellFormed(minted) /\ held \subseteq Digests(minted)
      /\ acked \subseteq [ref : Refs, head : Known] /\ index \in IndexOver(Known)
  BY <1>2 DEF IInv, TypeOK, Known
<1>5. CASE UNCHANGED <<minted, held, full>> /\ req' = [req EXCEPT ![p] = Idle]
  <2>1. HistoryKept'
    BY <1>1, <1>2, <1>5 DEF HistoryKept
  <2>2. Idle.at = "none" /\ req'[p] = Idle
    BY <1>4, <1>5 DEF Idle
  <2>3. HandlerKeeps(p)'
    BY <2>2 DEF HandlerKeeps
  <2> QED BY <1>1, <1>2, <1>5, <2>1, <2>2, <2>3, TurnOf
<1>6. CASE Store(p, MergeHeads(minted, held, req[p].cur, req[p].want))
  <2> DEFINE result == MergeHeads(minted, held, req[p].cur, req[p].want)
             f == [req[p] EXCEPT !.at = "index", !.final = result.head]
  <2>1. req[p].cur \in Digests(minted) /\ req[p].want \in Digests(minted)
    <3>1. req[p].want \in Nat
      BY <1>2 DEF Known, Digests
    <3>2. req[p].want # None
      BY <3>1, HeadMergeAssumption, Zenon
    <3>3. req[p].cur # None
      BY <1>1, <3>2 DEF Settled
    <3> QED BY <1>2, <1>3, <3>3 DEF Known
  <2>2. /\ Extends(result.all, minted)
        /\ IsAncestor(result.all, held \cup {result.head}, req[p].cur, result.head)
        /\ IsAncestor(result.all, held \cup {result.head}, req[p].want, result.head)
        /\ WellFormed(result.all)
    BY <1>4, <2>1, MergedHead, MergeFindsBoth
  <2> HIDE DEF result
  <2>3. /\ minted' = result.all /\ held' = held \cup {result.head}
        /\ req' = [req EXCEPT ![p].at = "index", ![p].final = result.head]
    BY <1>6 DEF Store, result
  <2>4. f.at = "index" /\ f.final = result.head /\ f.want = req[p].want
    BY <1>2 DEF RequestOver
  <2>5. req' = [req EXCEPT ![p] = f] /\ req'[p] = f
    BY <1>4, <2>3
  <2> HIDE DEF f
  <2>6. ASSUME NEW a \in acked, a.ref = Basis[p]
        PROVE IsAncestor(minted', held', a.head, result.head)
    <3>1. IsAncestor(minted, held, a.head, req[p].cur)
      BY <1>2, <1>3, <2>6 DEF HistoryKept
    <3>2. IsAncestor(minted', held', a.head, req[p].cur)
      BY <1>4, <2>1, <2>2, <2>3, <3>1, FoundStays
    <3>3. req[p].cur \in Digests(minted')
      BY <1>4, <2>1, <2>2, <2>3 DEF Extends, Digests, WellFormed
    <3> QED BY <2>2, <2>3, <3>2, <3>3, FoundThrough
  <2>7. HandlerKeeps(p)'
    <3> PICK d : d = result.head
      OBVIOUS
    <3> QED BY <1>1, <2>2, <2>3, <2>4, <2>5, <2>6 DEF HandlerKeeps
  <2>8. HistoryKept'
    <3> SUFFICES ASSUME NEW a \in acked PROVE Keeps(index, a)'
      BY <1>1 DEF HistoryKept, Keeps
    <3>1. Keeps(index, a)
      BY <1>2 DEF HistoryKept, Keeps
    <3> PICK i : i = index
      OBVIOUS
    <3>2. Keeps(i, a)'
      BY <1>4, <2>2, <2>3, <3>1, KeepsStays
    <3> QED BY <1>1, <3>2 DEF Keeps
  <2> QED BY <1>1, <1>2, <2>4, <2>5, <2>7, <2>8, TurnOf
<1> QED BY <1>5, <1>6 DEF JoinHeads

\* The new text of the index has the new head in place of what it descends from.
LEMMA LoadKeeps == ASSUME IInv, HInv, crashes = 0, NEW p \in Actors, LoadIndex(p) PROVE HInv'
<1> DEFINE snap == [ReadIndex EXCEPT ![Basis[p]] = req[p].final]
           f == [req[p] EXCEPT !.at = "truncate", !.snap = snap]
<1>1. /\ req[p].at = "index" /\ UNCHANGED <<minted, held, pod, index, crashes, acked>>
      /\ req' = [req EXCEPT ![p].at = "truncate", ![p].snap = snap]
  BY DEF LoadIndex, podVars, storeVars
<1>2. /\ \A q \in Actors \ {p} : ~Handling(q)
      /\ HandlerKeeps(p) /\ HistoryKept /\ index # Torn
      /\ req[p] \in RequestOver(Known)
  BY <1>1, Handled DEF Handling
<1>3. index \in [Refs -> Known \cup {None}] /\ Basis[p] \in Refs
      /\ acked \subseteq [ref : Refs, head : Known]
      /\ req \in [Actors -> RequestOver(Known)]
  BY <1>2, IndexTyped, RefPushAssumption DEF IInv, TypeOK, Known
<1>4. req[p].final # None
  <2>1. req[p].final \in Nat
    BY <1>1 DEF IInv, RequestState, Complete, TypeOK, Digests
  <2> QED BY <2>1, HeadMergeAssumption, Zenon
<1>5. snap = [index EXCEPT ![Basis[p]] = req[p].final]
  BY <1>2 DEF ReadIndex
<1> HIDE DEF snap
<1>6. \A a \in acked \cup {[ref |-> Basis[p], head |-> req[p].want]} : Keeps(snap, a)
  <2>1. \A r \in Refs : snap[r] = IF r = Basis[p] THEN req[p].final ELSE index[r]
    BY <1>3, <1>5
  <2>2. /\ IsAncestor(minted, held, req[p].want, req[p].final)
        /\ \A a \in acked : a.ref = Basis[p] => IsAncestor(minted, held, a.head, req[p].final)
    BY <1>1, <1>2 DEF HandlerKeeps
  <2>3. ASSUME NEW a \in acked PROVE Keeps(snap, a)
    BY <1>2, <1>3, <1>4, <2>1, <2>2, <2>3 DEF Keeps, HistoryKept
  <2>4. Keeps(snap, [ref |-> Basis[p], head |-> req[p].want])
    BY <1>3, <1>4, <2>1, <2>2 DEF Keeps
  <2> QED BY <2>3, <2>4
<1>7. f.at = "truncate" /\ f.snap = snap /\ f.want = req[p].want
  BY <1>2 DEF RequestOver
<1>8. req' = [req EXCEPT ![p] = f] /\ req'[p] = f
  BY <1>1, <1>3
<1> HIDE DEF f
<1>9. HandlerKeeps(p)'
  <2> PICK i : i = snap
    OBVIOUS
  <2> QED BY <1>1, <1>6, <1>7, <1>8 DEF HandlerKeeps, Keeps
<1>10. HistoryKept'
  BY <1>1, <1>2 DEF HistoryKept
<1> QED BY <1>1, <1>2, <1>7, <1>8, <1>9, <1>10, TurnOf

LEMMA TruncateKeeps == ASSUME IInv, HInv, crashes = 0, NEW p \in Actors, Truncate(p) PROVE HInv'
<1> DEFINE f == [req[p] EXCEPT !.at = "fill"]
<1>1. /\ req[p].at = "truncate" /\ UNCHANGED <<minted, held, pod, crashes, acked>>
      /\ req' = [req EXCEPT ![p].at = "fill"] /\ index' = Torn
  BY DEF Truncate, podVars
<1>2. /\ \A q \in Actors \ {p} : ~Handling(q)
      /\ HandlerKeeps(p) /\ req[p] \in RequestOver(Known)
  BY <1>1, Handled DEF Handling
<1>3. req \in [Actors -> RequestOver(Known)]
  BY DEF IInv, TypeOK, Known
<1>4. f.at = "fill" /\ f.snap = req[p].snap /\ f.want = req[p].want
  BY <1>2 DEF RequestOver
<1>5. req' = [req EXCEPT ![p] = f] /\ req'[p] = f
  BY <1>1, <1>3
<1> HIDE DEF f
<1>6. HandlerKeeps(p)'
  BY <1>1, <1>2, <1>4, <1>5 DEF HandlerKeeps, Keeps
<1>7. HistoryKept'
  BY <1>1 DEF HistoryKept
<1> QED BY <1>1, <1>2, <1>4, <1>5, <1>6, <1>7, TurnOf

LEMMA FillKeeps == ASSUME IInv, HInv, crashes = 0, NEW p \in Actors, Fill(p) PROVE HInv'
<1>1. /\ req[p].at = "fill" /\ UNCHANGED <<minted, held, pod, crashes>> /\ req' = [req EXCEPT ![p] = Idle]
      /\ acked' = acked \cup {[ref |-> Basis[p], head |-> req[p].want]}
  BY DEF Fill, podVars
<1>2. /\ \A q \in Actors \ {p} : ~Handling(q)
      /\ HandlerKeeps(p) /\ index = Torn
  BY <1>1, Handled DEF Handling
<1>3. index' = req[p].snap
  BY <1>2 DEF Fill
<1>4. index' # Torn
  <2>1. req[p].snap \in IndexOver(Complete) /\ Complete \subseteq Nat
    <3>1. Complete \subseteq Nat
      BY DEF IInv, TypeOK, Complete, Digests, WellFormed
    <3>2. req[p].snap \in IndexOver(Complete)
      BY <1>1 DEF IInv, RequestState
    <3> QED BY <3>1, <3>2
  <2>2. req[p].snap \in [Refs -> Nat \cup {None}]
    BY <2>1 DEF IndexOver
  <2> QED BY <1>3, <2>2, RefPushAssumption
<1>5. \A a \in acked' : Keeps(req[p].snap, a)
  BY <1>1, <1>2 DEF HandlerKeeps
<1>6. HistoryKept'
  BY <1>1, <1>3, <1>5 DEF HistoryKept, Keeps
<1>7. Idle.at = "none" /\ req'[p] = Idle
  BY <1>1 DEF Idle, IInv, TypeOK
<1>8. HandlerKeeps(p)'
  BY <1>7 DEF HandlerKeeps
<1> QED BY <1>1, <1>2, <1>4, <1>6, <1>7, <1>8, TurnOf

LEMMA HistoryInductive == ~Overlap /\ IInv /\ HInv /\ [Next]_vars => HInv'
<1> SUFFICES ASSUME ~Overlap, IInv, HInv, [Next]_vars PROVE HInv'
  OBVIOUS
<1>1. CASE UNCHANGED vars
  <2>1. Extends(minted', minted) /\ held' = held /\ UNCHANGED <<index, crashes, acked, req, pod>>
    BY <1>1 DEF vars, podVars, storeVars, Extends, IInv, WellFormed
  <2>2. CASE crashes = 0
    <3>1. PushThenPut'
      BY <2>1, <2>2 DEF HInv, PushThenPut
    <3> QED BY <2>1, <3>1, PodsMove
  <2>3. CASE crashes # 0
    BY <2>1, <2>3 DEF HInv
  <2> QED BY <2>2, <2>3
<1>2. CASE \/ \E p \in Actors, path \in Paths : Write(p, path) \/ Delete(p, path)
           \/ \E p \in Actors : PodStep(p)
  BY <1>2, PodsKeepHistory
<1>3. ASSUME NEW p \in Actors, HandlerStep(p) PROVE HInv'
  <2>1. crashes' = crashes
    BY <1>3 DEF HandlerStep, Receive, Keep, JoinHeads, LoadIndex, Truncate, Fill
  <2>2. CASE crashes = 0
    BY <1>3, <2>2, ReceiveKeeps, KeepKeeps, JoinKeeps, LoadKeeps, TruncateKeeps, FillKeeps
       DEF HandlerStep
  <2>3. CASE crashes # 0
    BY <2>1, <2>3 DEF HInv
  <2> QED BY <2>2, <2>3
<1>4. CASE Crash
  <2>1. crashes' # 0
    BY <1>4, RefPushAssumption DEF Crash, IInv, TypeOK
  <2> QED BY <2>1 DEF HInv
<1> QED BY <1>1, <1>2, <1>3, <1>4 DEF Next

\* A push that was answered is in the history of its ref's head until the manager
\* restarts, as long as the manager handles one ref put at a time: for any pods,
\* refs and paths, whatever fails, however the heads diverge and are merged
\* (docs/sync.md:9, "Losing layers are never destroyed").
THEOREM NothingPushedIsLost ==
  ASSUME ~Overlap
  PROVE  Spec => []HistoryKept
<1>1. Init => IInv /\ HInv
  BY InitIInv, InitHInv
<1>2. IInv /\ HInv /\ [Next]_vars => IInv' /\ HInv'
  BY Inductive, HistoryInductive
<1>3. HInv => HistoryKept
  BY DEF HInv, HistoryKept
<1> QED BY <1>1, <1>2, <1>3, PTL DEF Spec

-----------------------------------------------------------------------------
(* The nearest common ancestor is one.  The walk is a recursive function,   *)
(* of which what must hold of every turn is proved by the first turn that   *)
(* would break it.                                                          *)

LEMMA Least == ASSUME NEW S \in SUBSET Nat, S # {} PROVE \E m \in S : \A k \in S : m <= k
<1>1. \E x \in S : \A y \in S : ~(<<y, x>> \in OpToRel(<, Nat))
  BY NatLessThanWellFounded, WFMin
<1>2. \E x \in S : \A y \in S : ~(y < x)
  BY <1>1 DEF OpToRel
<1> QED BY <1>2

\* What a walk from h may meet: digests in the history of h.
Visits(m, h) == [digest : {d \in Digests(m) : IsAncestor(m, Digests(m), d, h)}, depth : Nat]
Walks(m, h) == [queue : Seq(Visits(m, h)), met : Seq(Visits(m, h))]

LEMMA ParentKnown ==
  ASSUME NEW m, WellFormed(m), NEW d \in Digests(m)
  PROVE  /\ m[d].parents \in Seq(Digests(m))
         /\ \A i \in DOMAIN m[d].parents : m[d].parents[i] \in Digests(m) /\ m[d].parents[i] < d
<1>1. m[d] \in ManifestOver(1..(d - 1)) /\ d \in 1..Len(m) /\ Len(m) \in Nat
  BY DEF WellFormed, Digests
<1>2. m[d].parents \in Seq(1..(d - 1))
  BY <1>1 DEF ManifestOver
<1>3. 1..(d - 1) \subseteq Digests(m)
  BY <1>1 DEF Digests
<1>4. m[d].parents \in Seq(Digests(m))
  BY <1>2, <1>3, SeqMonotonic
<1>5. \A i \in DOMAIN m[d].parents : m[d].parents[i] \in 1..(d - 1)
  BY <1>2, ElementIn
<1> QED BY <1>1, <1>3, <1>4, <1>5

\* A turn of the walk meets only what is in the history of h.
LEMMA WalkStays ==
  ASSUME NEW m, WellFormed(m), NEW have, NEW h \in Digests(m), NEW w \in Walks(m, h)
  PROVE  Walk(m, have, w) \in Walks(m, h)
<1>1. w.queue \in Seq(Visits(m, h)) /\ w.met \in Seq(Visits(m, h))
  BY DEF Walks
<1>2. CASE w.queue = <<>>
  BY <1>2 DEF Walk
<1>3. CASE w.queue # <<>>
  <2>1. PICK next, rest : next = Head(w.queue) /\ rest = Tail(w.queue)
    OBVIOUS
  <2>2. next \in Visits(m, h) /\ rest \in Seq(Visits(m, h))
    <3> HIDE DEF Visits
    <3> QED BY <1>1, <1>3, <2>1, HeadTailProperties
  <2>3. next.digest \in Digests(m) /\ IsAncestor(m, Digests(m), next.digest, h)
        /\ next.depth \in Nat
    BY <2>2 DEF Visits
  <2> DEFINE parents == m[next.digest].parents
             more == [i \in DOMAIN parents |-> [digest |-> parents[i], depth |-> next.depth + 1]]
  <2>4. more \in Seq(Visits(m, h))
    <3>1. parents \in Seq(Digests(m))
      BY <2>3, ParentKnown
    <3>2. \A i \in DOMAIN parents : parents[i] \in Digests(m)
          /\ IsAncestor(m, Digests(m), parents[i], h)
      <4> TAKE i \in DOMAIN parents
      <4>1. parents[i] \in Digests(m)
        BY <2>3, ParentKnown
      <4>2. IsAncestor(m, Digests(m), parents[i], next.digest)
        BY <2>3, ParentFound
      <4> QED BY <2>3, <4>1, <4>2, FoundThrough
    <3>3. \A i \in DOMAIN parents : more[i] \in Visits(m, h)
      BY <3>2, <2>3 DEF Visits
    <3>4. DOMAIN parents = 1..Len(parents) /\ Len(parents) \in Nat
      BY <3>1
    <3> HIDE DEF parents
    <3>5. more = [i \in 1..Len(parents) |-> more[i]]
      BY <3>4
    <3> HIDE DEF more
    <3> QED BY <3>3, <3>4, <3>5, IsASeq
  <2>5. Meet(m, have, next, rest, w.met) \in Walks(m, h)
    <3>1. rest \o more \in Seq(Visits(m, h)) /\ Append(w.met, next) \in Seq(Visits(m, h))
      <4> HIDE DEF more, Visits
      <4> QED BY <1>1, <2>2, <2>4, ConcatProperties, AppendProperties
    <3>2. Meet(m, have, next, rest, w.met) \in
            {[queue |-> rest, met |-> w.met], [queue |-> rest, met |-> Append(w.met, next)],
             [queue |-> rest \o more, met |-> Append(w.met, next)]}
      BY DEF Meet
    <3> HIDE DEF more, Visits
    <3>3. \A x, y \in Seq(Visits(m, h)) : [queue |-> x, met |-> y] \in Walks(m, h)
      BY DEF Walks
    <3> QED BY <1>1, <2>2, <3>1, <3>2, <3>3
  <2> QED BY <1>3, <2>1, <2>5 DEF Walk
<1> QED BY <1>2, <1>3

FirstTurn(h) == [queue |-> <<[digest |-> h, depth |-> 0]>>, met |-> <<>>]
IsWalk(f, m, have, h, n) ==
    f = [k \in 0..n |-> IF k = 0 THEN FirstTurn(h) ELSE Walk(m, have, f[k - 1])]

LEMMA WalkExists ==
  ASSUME NEW m, NEW have, NEW h, NEW last \in Nat
  PROVE  \E f : IsWalk(f, m, have, h, last)
<1> DEFINE Bad == {n \in 0..last : ~\E f : IsWalk(f, m, have, h, n)}
<1>1. SUFFICES ASSUME Bad # {} PROVE FALSE
  OBVIOUS
<1>2. PICK n \in Bad : \A k \in Bad : n <= k
  <2>1. Bad \in SUBSET Nat
    OBVIOUS
  <2> HIDE DEF Bad
  <2> QED BY <1>1, <2>1, Least
<1>3. n \in 0..last /\ n \in Nat
  OBVIOUS
<1>4. CASE n = 0
  <2> DEFINE f == [i \in 0..0 |-> FirstTurn(h)]
  <2>1. IsWalk(f, m, have, h, 0)
    BY DEF IsWalk
  <2> QED BY <2>1, <1>4
<1>5. CASE n # 0
  <2>1. n - 1 \in 0..last /\ n - 1 \notin Bad
    <3> HIDE DEF Bad
    <3> QED BY <1>2, <1>3, <1>5
  <2>2. PICK f : IsWalk(f, m, have, h, n - 1)
    BY <2>1
  <2> DEFINE g == [k \in 0..n |-> IF k < n THEN f[k] ELSE Walk(m, have, f[n - 1])]
  <2>3. \A k \in 0..n : k # 0 => k - 1 \in 0..(n - 1) /\ g[k - 1] = f[k - 1]
    BY <1>3
  <2>4. \A k \in 0..n : g[k] = IF k = 0 THEN FirstTurn(h) ELSE Walk(m, have, f[k - 1])
    <3> SUFFICES ASSUME NEW k \in 0..n
        PROVE g[k] = IF k = 0 THEN FirstTurn(h) ELSE Walk(m, have, f[k - 1])
      OBVIOUS
    <3>1. CASE k = n
      BY <3>1, <1>3, <1>5
    <3>2. CASE k # n
      <4>1. k \in 0..(n - 1) /\ k < n
        BY <3>2, <1>3
      <4> QED BY <4>1, <2>2 DEF IsWalk
    <3> QED BY <3>1, <3>2
  <2>5. g = [k \in 0..n |-> g[k]]
    OBVIOUS
  <2> HIDE DEF g
  <2>6. IsWalk(g, m, have, h, n)
    BY <2>3, <2>4, <2>5 DEF IsWalk
  <2> QED BY <2>6, <1>2
<1> QED BY <1>4, <1>5

\* The turns of the walk from h, which end with what Reach gives.
LEMMA ReachTurns ==
  ASSUME NEW m, WellFormed(m), NEW have, NEW h \in Digests(m)
  PROVE  \E turn : /\ Reach(m, have, h) = turn[2 * Len(m) + 1].met
                   /\ turn[0] = FirstTurn(h)
                   /\ \A k \in 1..(2 * Len(m) + 1) : turn[k] = Walk(m, have, turn[k - 1])
                   /\ \A k \in 0..(2 * Len(m) + 1) : turn[k] \in Walks(m, h)
<1> DEFINE last == 2 * Len(m) + 1
           turn == CHOOSE f : IsWalk(f, m, have, h, last)
<1>1. last \in Nat
  BY DEF WellFormed
<1>2. Reach(m, have, h) = turn[last].met
  BY DEF Reach, IsWalk, FirstTurn
<1>3. IsWalk(turn, m, have, h, last)
  <2> HIDE DEF last
  <2> QED BY <1>1, WalkExists
<1> HIDE DEF last, turn
<1>4. turn[0] = FirstTurn(h) /\ \A k \in 1..last : turn[k] = Walk(m, have, turn[k - 1])
  <2>1. turn[0] = FirstTurn(h)
    BY <1>1, <1>3 DEF IsWalk
  <2>2. ASSUME NEW k \in 1..last PROVE turn[k] = Walk(m, have, turn[k - 1])
    <3>1. k \in 0..last /\ k # 0
      BY <1>1
    <3> QED BY <1>3, <3>1 DEF IsWalk
  <2> QED BY <2>1, <2>2
<1>5. FirstTurn(h) \in Walks(m, h)
  <2>1. [digest |-> h, depth |-> 0] \in Visits(m, h)
    BY SelfFound DEF Visits
  <2> HIDE DEF Visits
  <2> QED BY <2>1 DEF FirstTurn, Walks
<1>6. \A k \in 0..last : turn[k] \in Walks(m, h)
  <2> DEFINE Bad == {k \in 0..last : turn[k] \notin Walks(m, h)}
  <2>1. SUFFICES ASSUME Bad # {} PROVE FALSE
    OBVIOUS
  <2>2. PICK n \in Bad : \A k \in Bad : n <= k
    <3>1. Bad \in SUBSET Nat
      BY <1>1
    <3> HIDE DEF Bad
    <3> QED BY <2>1, <3>1, Least
  <2>3. n \in 1..last /\ n - 1 \in 0..last /\ n - 1 \notin Bad
    <3>1. n \in 0..last /\ n # 0
      BY <1>4, <1>5
    <3> HIDE DEF Bad
    <3> QED BY <3>1, <1>1, <2>2
  <2>4. turn[n - 1] \in Walks(m, h)
    BY <2>3
  <2>5. turn[n] \in Walks(m, h)
    BY <2>3, <2>4, <1>4, WalkStays
  <2> QED BY <2>5
<1> QED BY <1>2, <1>4, <1>6 DEF last

LEMMA ReachIsHistory ==
  ASSUME NEW m, WellFormed(m), NEW have, NEW h \in Digests(m)
  PROVE  Reach(m, have, h) \in Seq(Visits(m, h))
<1> PICK turn : /\ Reach(m, have, h) = turn[2 * Len(m) + 1].met
                /\ \A k \in 0..(2 * Len(m) + 1) : turn[k] \in Walks(m, h)
  BY ReachTurns
<1>1. 2 * Len(m) + 1 \in 0..(2 * Len(m) + 1)
  BY DEF WellFormed
<1> QED BY <1>1 DEF Walks

\* commonAncestor gives a manifest in the history of both heads; it gives none
\* only when no manifest is met from both.
LEMMA CommonIsShared ==
  ASSUME NEW m, WellFormed(m), NEW have, NEW a \in Digests(m), NEW b \in Digests(m)
  PROVE  LET base == CommonAncestor(m, have, a, b)
         IN  \/ base = None /\ Shared(Reach(m, have, a), Reach(m, have, b)) = {}
             \/ /\ base \in Digests(m)
                /\ IsAncestor(m, Digests(m), base, a) /\ IsAncestor(m, Digests(m), base, b)
<1> DEFINE fromA == Reach(m, have, a)
           fromB == Reach(m, have, b)
           shared == Shared(fromA, fromB)
           worst == [p \in shared |-> Larger(fromA[p[1]].depth, fromB[p[2]].depth)]
           First(p) == \A q \in shared : worst[p] < worst[q]
               \/ (worst[p] = worst[q] /\ p[1] <= q[1])
<1>1. fromA \in Seq(Visits(m, a)) /\ fromB \in Seq(Visits(m, b))
  BY ReachIsHistory
<1>2. CommonAncestor(m, have, a, b) =
        IF shared = {} THEN None ELSE fromA[(CHOOSE p \in shared : First(p))[1]].digest
  BY DEF CommonAncestor, NearestOf, NearestShared, Nearest
<1> HIDE DEF fromA, fromB
<1> DEFINE Both(base) == /\ base \in Digests(m)
                         /\ IsAncestor(m, Digests(m), base, a) /\ IsAncestor(m, Digests(m), base, b)
<1>3. SUFFICES ASSUME shared # {} PROVE Both(fromA[(CHOOSE p \in shared : First(p))[1]].digest)
  <2> HIDE DEF First
  <2>1. shared = {} => CommonAncestor(m, have, a, b) = None
    BY <1>2
  <2>2. Shared(Reach(m, have, a), Reach(m, have, b)) = shared
    BY DEF fromA, fromB
  <2> HIDE DEF shared, Both
  <2>3. shared # {} => Both(CommonAncestor(m, have, a, b))
    BY <1>2
  <2> QED BY <2>1, <2>2, <2>3 DEF Both
<1>4. ASSUME NEW p \in shared
      PROVE  /\ p[1] \in Nat /\ worst[p] \in Nat
             /\ fromA[p[1]].digest \in Digests(m)
             /\ IsAncestor(m, Digests(m), fromA[p[1]].digest, a)
             /\ IsAncestor(m, Digests(m), fromA[p[1]].digest, b)
  <2>1. p[1] \in DOMAIN fromA /\ p[2] \in DOMAIN fromB /\ fromA[p[1]].digest = fromB[p[2]].digest
    BY DEF Shared
  <2>2. fromA[p[1]] \in Visits(m, a) /\ fromB[p[2]] \in Visits(m, b)
    BY <1>1, <2>1, ElementIn
  <2>3. /\ fromA[p[1]].digest \in Digests(m) /\ IsAncestor(m, Digests(m), fromA[p[1]].digest, a)
        /\ IsAncestor(m, Digests(m), fromB[p[2]].digest, b)
        /\ fromA[p[1]].depth \in Nat /\ fromB[p[2]].depth \in Nat
    BY <2>2 DEF Visits
  <2>4. p[1] \in Nat
    <3>1. DOMAIN fromA = 1..Len(fromA) /\ Len(fromA) \in Nat
      BY <1>1
    <3> QED BY <2>1, <3>1
  <2>5. worst[p] \in Nat
    BY <2>3 DEF Larger
  <2> QED BY <2>1, <2>3, <2>4, <2>5
<1> HIDE DEF shared, worst
<1>5. \E p \in shared : First(p)
  <2> DEFINE W == {worst[p] : p \in shared}
  <2>1. PICK x \in W : \A y \in W : x <= y
    <3>1. W \in SUBSET Nat /\ W # {}
      BY <1>3, <1>4
    <3> HIDE DEF W
    <3> QED BY <3>1, Least
  <2> DEFINE P == {p[1] : p \in {r \in shared : worst[r] = x}}
  <2>2. PICK i \in P : \A j \in P : i <= j
    <3>1. P \in SUBSET Nat /\ P # {}
      BY <1>4
    <3> HIDE DEF P, W
    <3> QED BY <3>1, Least
  <2>3. PICK p \in shared : worst[p] = x /\ p[1] = i
    OBVIOUS
  <2>4. ASSUME NEW q \in shared PROVE worst[p] < worst[q] \/ (worst[p] = worst[q] /\ p[1] <= q[1])
    <3>1. x <= worst[q] /\ x \in Nat /\ worst[q] \in Nat
      BY <2>1, <2>3, <1>4
    <3>2. CASE worst[q] = x
      <4>1. q[1] \in P
        BY <3>2
      <4> HIDE DEF P
      <4> QED BY <4>1, <2>2, <2>3, <3>2
    <3>3. CASE worst[q] # x
      BY <3>1, <3>3, <2>3
    <3> QED BY <3>2, <3>3
  <2> QED BY <2>4
<1>6. PICK p : p = CHOOSE r \in shared : First(r)
  OBVIOUS
<1>7. p \in shared
  <2> HIDE DEF First
  <2> QED BY <1>5, <1>6
<1> HIDE DEF First
<1> QED BY <1>4, <1>6, <1>7

-----------------------------------------------------------------------------
(* What a manifest shows of the edits in its history.                       *)

\* The register p is q's equal or newer than q.
AtLeast(p, q) == p.mtime > q.mtime \/ (p.mtime = q.mtime /\ p.actor >= q.actor)

InHistory(m, d, h) == IsAncestor(m, Digests(m), d, h)

\* An edit that no deletion of its path in the history of h reaches.
Spared(m, h, path, edit) ==
    edit # None /\ \A e \in Digests(m), q \in Actors : InHistory(m, e, h)
        => m[e].gone[q][path] < edit.mtime

\* A manifest shows what its ancestors show, or something newer.
Monotone(m) ==
    \A d, e \in Digests(m), path \in Paths :
        InHistory(m, d, e) /\ Spared(m, e, path, m[d].files[path])
          => m[e].files[path] # None /\ AtLeast(m[e].files[path], m[d].files[path])

\* No register is from the future.
Stamped(m, now) ==
    \A d \in Digests(m), path \in Paths : m[d].files[path] # None => m[d].files[path].mtime <= now

\* Registers are compared by numbers.
LEMMA RegisterNumbers ==
  ASSUME NEW r \in Register
  PROVE  r.mtime \in Nat /\ r.actor \in Nat /\ r # None /\ AtLeast(r, r)
         /\ r = [mtime |-> r.mtime, actor |-> r.actor]
<1>1. r.mtime \in Nat /\ r.actor \in Actors \cup {0} /\ r = [mtime |-> r.mtime, actor |-> r.actor]
  BY DEF Register, Publisher
<1>2. r.actor \in Nat
  <2>1. \A q \in Actors : q \in Nat
    BY HeadMergeAssumption
  <2> QED BY <1>1, <2>1
<1> QED BY <1>1, <1>2, RefPushAssumption DEF AtLeast

LEMMA AtLeastThrough ==
  ASSUME NEW p \in Register, NEW q \in Register, NEW r \in Register, AtLeast(p, q), AtLeast(q, r)
  PROVE  AtLeast(p, r)
BY RegisterNumbers DEF AtLeast

LEMMA NewerIsAtLeast ==
  ASSUME NEW p \in Register, NEW q \in Register
  PROVE  /\ NewerOf(p, q) \in {p, q}
         /\ AtLeast(NewerOf(p, q), p) /\ AtLeast(NewerOf(p, q), q)
         /\ NewerOf(p, q) = p <=> AtLeast(p, q)
<1>1. /\ p.mtime \in Nat /\ p.actor \in Nat /\ q.mtime \in Nat /\ q.actor \in Nat
      /\ p = [mtime |-> p.mtime, actor |-> p.actor] /\ q = [mtime |-> q.mtime, actor |-> q.actor]
  BY RegisterNumbers
<1>2. AtLeast(p, q) /\ AtLeast(q, p) => p = q
  BY <1>1 DEF AtLeast
<1>3. AtLeast(p, q) \/ AtLeast(q, p)
  BY <1>1 DEF AtLeast
<1>4. NewerOf(p, q) = IF AtLeast(p, q) THEN p ELSE q
  BY DEF NewerOf, AtLeast
<1>5. AtLeast(p, p) /\ AtLeast(q, q)
  BY RegisterNumbers
<1> QED BY <1>2, <1>3, <1>4, <1>5

LEMMA FileOrNone ==
  ASSUME NEW m, WellFormed(m), NEW d \in Digests(m), NEW path \in Paths
  PROVE  m[d].files[path] \in Register \cup {None}
<1>1. m[d] \in ManifestOver(1..(d - 1))
  BY DEF WellFormed
<1> QED BY <1>1 DEF ManifestOver

LEMMA StampIsNumber ==
  ASSUME NEW m, WellFormed(m), NEW d \in Digests(m), NEW q \in Actors, NEW path \in Paths
  PROVE  m[d].gone[q][path] \in Nat
<1>1. m[d] \in ManifestOver(1..(d - 1))
  BY DEF WellFormed
<1> QED BY <1>1 DEF ManifestOver

\* Manifests are never in the history of older ones.
LEMMA OlderUnfound ==
  ASSUME NEW m, WellFormed(m), NEW more, Extends(more, m), WellFormed(more),
         NEW e \in Digests(m), NEW d \in Digests(more), InHistory(more, d, e)
  PROVE  d \in Digests(m) /\ InHistory(m, d, e)
<1> USE DEF InHistory
<1>1. Digests(m) \subseteq Digests(more) /\ \A x \in Digests(m) : more[x] = m[x]
  BY DEF Extends, Digests, WellFormed
<1>2. d \in Digests(m)
  <2> SUFFICES ASSUME d \notin Digests(m) PROVE FALSE
    OBVIOUS
  <2>1. Digests(m) \in SUBSET (Digests(more) \ {d})
    BY <1>1
  <2>2. PICK x \in Digests(m) : ~ParentsIn(more, x, Digests(m))
    BY <2>1 DEF IsAncestor
  <2> QED BY <2>2, <1>1, ParentKnown DEF ParentsIn
<1>3. IsAncestor(m, Digests(m), d, e)
  <2> SUFFICES ASSUME NEW S \in SUBSET (Digests(m) \ {d}), e \in S
               PROVE  \E x \in S \cap Digests(m) : ~ParentsIn(m, x, S)
    BY DEF IsAncestor
  <2>1. S \in SUBSET (Digests(more) \ {d})
    BY <1>1
  <2>2. PICK x \in S \cap Digests(more) : ~ParentsIn(more, x, S)
    BY <2>1 DEF IsAncestor
  <2>3. x \in S \cap Digests(m) /\ more[x] = m[x]
    BY <2>2, <1>1
  <2> QED BY <2>2, <2>3 DEF ParentsIn
<1> QED BY <1>2, <1>3

\* What is in the history of h is h itself or in the history of a parent.
LEMMA FoundByParent ==
  ASSUME NEW m, WellFormed(m), NEW d \in Digests(m), NEW h \in Digests(m), InHistory(m, d, h), d # h
  PROVE  \E i \in DOMAIN m[h].parents : InHistory(m, d, m[h].parents[i])
<1> USE DEF InHistory
<1> SUFFICES ASSUME \A i \in DOMAIN m[h].parents : ~IsAncestor(m, Digests(m), d, m[h].parents[i])
             PROVE  FALSE
  OBVIOUS
<1> DEFINE Far == {x \in Digests(m) : ~IsAncestor(m, Digests(m), d, x)}
           S == Far \cup {h}
<1>1. d \notin S
  BY SelfFound
<1>2. ASSUME NEW x \in S PROVE ParentsIn(m, x, S)
  <2>1. CASE x = h
    BY <2>1, ParentKnown DEF ParentsIn
  <2>2. CASE x \in Far
    <3> SUFFICES ASSUME NEW i \in DOMAIN m[x].parents PROVE m[x].parents[i] \in Far
      BY DEF ParentsIn
    <3>1. m[x].parents[i] \in Digests(m) /\ IsAncestor(m, Digests(m), m[x].parents[i], x)
      BY <2>2, ParentKnown, ParentFound
    <3> QED BY <2>2, <3>1, FoundThrough
  <2> QED BY <2>1, <2>2
<1>3. S \in SUBSET (Digests(m) \ {d}) /\ h \in S
  BY <1>1
<1> HIDE DEF S
<1> QED BY <1>2, <1>3 DEF IsAncestor

\* A new manifest, at its digest, has the histories of its parents.
LEMMA NewHistory ==
  ASSUME NEW m, WellFormed(m), NEW new \in ManifestOver(Digests(m)),
         NEW d \in Digests(m), NEW i \in DOMAIN new.parents, InHistory(m, d, new.parents[i])
  PROVE  InHistory(Put(m, new), d, DigestOf(m, new))
<1> PICK more, n : more = Put(m, new) /\ n = DigestOf(m, new)
  OBVIOUS
<1>1. WellFormed(more) /\ Extends(more, m) /\ n \in Digests(more) /\ more[n] = new
  BY PutManifest, PutFound
<1>2. new.parents[i] \in Digests(m) /\ Digests(m) \subseteq Digests(more)
  <2>1. new.parents \in Seq(Digests(m))
    BY DEF ManifestOver
  <2> QED BY <1>1, <2>1, ElementIn DEF Extends, Digests, WellFormed
<1>3. IsAncestor(more, Digests(more), d, new.parents[i])
  BY <1>1, <1>2, FoundStays DEF InHistory
<1>4. IsAncestor(more, Digests(more), new.parents[i], n)
  BY <1>1, ParentFound
<1>5. IsAncestor(more, Digests(more), d, n)
  BY <1>2, <1>3, <1>4, FoundThrough
<1> QED BY <1>5 DEF InHistory

\* A manifest that shows what its parents show and no deletion reaches, or
\* something newer, may be added.
LEMMA PutMonotone ==
  ASSUME NEW m, WellFormed(m), NEW new \in ManifestOver(Digests(m)), Monotone(m),
         \A d \in Digests(m), path \in Paths, i \in DOMAIN new.parents :
            /\ InHistory(m, d, new.parents[i]) /\ m[d].files[path] # None
            /\ \A j \in DOMAIN new.parents : Spared(m, new.parents[j], path, m[d].files[path])
            /\ \A q \in Actors : new.gone[q][path] < m[d].files[path].mtime
            => new.files[path] # None /\ AtLeast(new.files[path], m[d].files[path])
  PROVE  Monotone(Put(m, new))
<1>1. CASE \E d \in Digests(m) : m[d] = new
  <2>1. Put(m, new) = m
    BY <1>1 DEF Put
  <2> QED BY <2>1
<1>2. CASE ~\E d \in Digests(m) : m[d] = new
  <2> DEFINE more == Put(m, new)
             n == Len(m) + 1
  <2>1. more = Append(m, new) /\ DigestOf(m, new) = n
    BY <1>2 DEF Put, DigestOf
  <2>2. WellFormed(more) /\ Extends(more, m)
    BY PutManifest
  <2>3. Len(m) \in Nat /\ new \in ManifestOver(Nat)
    BY ManifestWiden DEF WellFormed, Digests
  <2>4. /\ Digests(more) = Digests(m) \cup {n} /\ n \in Digests(more) /\ more[n] = new
        /\ \A d \in Digests(m) : more[d] = m[d] /\ d # n
    BY <2>1, <2>3 DEF WellFormed, Digests
  <2> HIDE DEF more, n
  <2>5. ASSUME NEW d \in Digests(m), NEW e \in Digests(m), InHistory(m, d, e)
        PROVE InHistory(more, d, e)
    BY <2>2, <2>4, <2>5, FoundStays DEF InHistory
  <2> SUFFICES ASSUME NEW d \in Digests(more), NEW e \in Digests(more), NEW path \in Paths,
                      InHistory(more, d, e), Spared(more, e, path, more[d].files[path])
               PROVE  more[e].files[path] # None
                   /\ AtLeast(more[e].files[path], more[d].files[path])
    BY DEF Monotone, more
  <2>6. CASE e \in Digests(m)
    <3>1. d \in Digests(m) /\ InHistory(m, d, e)
      BY <2>2, <2>6, OlderUnfound
    <3>2. Spared(m, e, path, m[d].files[path])
      BY <2>4, <2>5, <2>6, <3>1 DEF Spared
    <3> QED BY <2>4, <2>6, <3>1, <3>2 DEF Monotone
  <2>7. CASE e = n /\ d = n
    <3>1. more[n].files[path] \in Register
      BY <2>2, <2>4, <2>7, FileOrNone DEF Spared
    <3> QED BY <2>7, <3>1, RegisterNumbers
  <2>8. CASE e = n /\ d \in Digests(m)
    <3>1. PICK i \in DOMAIN new.parents : InHistory(more, d, new.parents[i])
      BY <2>2, <2>4, <2>8, FoundByParent
    <3>2. \A j \in DOMAIN new.parents : new.parents[j] \in Digests(m)
      <4>1. new.parents \in Seq(Digests(m))
        BY DEF ManifestOver
      <4> QED BY <4>1, ElementIn
    <3>3. InHistory(m, d, new.parents[i])
      BY <2>2, <3>1, <3>2, OlderUnfound
    <3>4. m[d].files[path] # None /\ \A q \in Actors : new.gone[q][path] < m[d].files[path].mtime
      <4>1. InHistory(more, n, n)
        BY SelfFound DEF InHistory
      <4> QED BY <2>4, <2>8, <4>1 DEF Spared
    <3>5. ASSUME NEW j \in DOMAIN new.parents
          PROVE Spared(m, new.parents[j], path, m[d].files[path])
      <4> SUFFICES ASSUME NEW x \in Digests(m), NEW q \in Actors, InHistory(m, x, new.parents[j])
                   PROVE  m[x].gone[q][path] < m[d].files[path].mtime
        BY <3>4 DEF Spared
      <4>1. InHistory(more, x, n)
        BY <2>1, NewHistory DEF more
      <4> QED BY <2>4, <2>8, <4>1 DEF Spared
    <3> QED BY <2>4, <2>8, <3>3, <3>4, <3>5
  <2> QED BY <2>4, <2>6, <2>7, <2>8
<1> QED BY <1>1, <1>2

\* The registers of a new manifest are not from the future either.
LEMMA PutStamped ==
  ASSUME NEW m, WellFormed(m), NEW new \in ManifestOver(Digests(m)), NEW now \in Nat,
         Stamped(m, now),
         \A path \in Paths : new.files[path] # None => new.files[path].mtime <= now
  PROVE  Stamped(Put(m, new), now)
<1> PICK more : more = Put(m, new)
  OBVIOUS
<1> SUFFICES ASSUME NEW d \in Digests(more), NEW path \in Paths, more[d].files[path] # None
             PROVE  more[d].files[path].mtime <= now
  BY DEF Stamped
<1>1. (d \in Digests(m) /\ more[d] = m[d]) \/ more[d] = new
  <2>1. CASE \E x \in Digests(m) : m[x] = new
    BY <2>1 DEF Put
  <2>2. CASE ~\E x \in Digests(m) : m[x] = new
    <3>1. more = Append(m, new) /\ new \in ManifestOver(Nat) /\ Len(m) \in Nat
      BY <2>2, ManifestWiden DEF Put, WellFormed, Digests
    <3> QED BY <3>1 DEF WellFormed, Digests
  <2> QED BY <2>1, <2>2
<1> QED BY <1>1 DEF Stamped

\* The join of two heads is a manifest; it picks registers and makes none up.
LEMMA JoinedManifest ==
  ASSUME NEW m, WellFormed(m), NEW a \in Digests(m), NEW b \in Digests(m), NEW base
  PROVE  LET joined == JoinOver(m, a, b, base)
         IN  /\ joined \in ManifestOver(Digests(m))
             /\ \A path \in Paths : joined.files[path] \in {m[a].files[path], m[b].files[path], None}
<1> DEFINE old == IF base = None THEN None ELSE m[base]
           parents == IF a < b THEN <<a, b>> ELSE <<b, a>>
           picked == [path \in Paths |-> JoinPath(m[a], m[b], old, path)]
           joined == [by |-> MergeActor, parents |-> parents, files |-> picked, gone |-> NoWhiteouts]
<1>1. JoinOver(m, a, b, base) = joined
  BY DEF JoinOver, Join
<1>2. joined \in ManifestOver(Digests(m))
  <2>1. m[a] \in ManifestOver(1..(a - 1)) /\ m[b] \in ManifestOver(1..(b - 1))
    BY DEF WellFormed
  <2>2. picked \in [Paths -> Register \cup {None}]
    BY <2>1, JoinedFile
  <2>3. parents \in Seq(Digests(m))
    OBVIOUS
  <2>4. NoWhiteouts \in [Actors -> [Paths -> Nat]]
    BY DEF NoWhiteouts
  <2> HIDE DEF parents, picked
  <2> QED BY <2>2, <2>3, <2>4 DEF ManifestOver
<1>3. \A path \in Paths : picked[path] \in {m[a].files[path], m[b].files[path], None}
  <2> SUFFICES ASSUME NEW path \in Paths
               PROVE  JoinPath(m[a], m[b], old, path) \in {m[a].files[path], m[b].files[path], None}
    OBVIOUS
  <2> HIDE DEF old
  <2> QED BY DEF JoinPath, NewerOf, Winner
<1>4. joined.files = picked
  OBVIOUS
<1> HIDE DEF joined, picked
<1> QED BY <1>1, <1>2, <1>3, <1>4

\* The join of two heads, against a manifest in both histories or none, shows
\* what either of them shows and no deletion reaches, or something newer.
LEMMA JoinedEdits ==
  ASSUME NEW m, WellFormed(m), Monotone(m), NEW a \in Digests(m), NEW b \in Digests(m),
         NEW base, base = None
             \/ (base \in Digests(m) /\ InHistory(m, base, a) /\ InHistory(m, base, b))
  PROVE  Monotone(Put(m, JoinOver(m, a, b, base)))
<1> DEFINE old == IF base = None THEN None ELSE m[base]
           parents == IF a < b THEN <<a, b>> ELSE <<b, a>>
           picked == [path \in Paths |-> JoinPath(m[a], m[b], old, path)]
           joined == [by |-> MergeActor, parents |-> parents, files |-> picked, gone |-> NoWhiteouts]
<1>1. JoinOver(m, a, b, base) = joined
  BY DEF JoinOver, Join
<1>2. joined \in ManifestOver(Digests(m))
  BY <1>1, JoinedManifest
<1>3. (\A i \in DOMAIN parents : parents[i] \in {a, b})
      /\ \A x \in {a, b} : \E i \in DOMAIN parents : parents[i] = x
  OBVIOUS
<1>4. \A path \in Paths : picked[path] = JoinPath(m[a], m[b], old, path)
  OBVIOUS
<1> HIDE DEF picked, parents
<1>5. joined.parents = parents /\ joined.files = picked
  OBVIOUS
<1> HIDE DEF joined
<1>6. ASSUME NEW path \in Paths
      PROVE  /\ picked[path] \in {m[a].files[path], m[b].files[path], None}
             /\ m[a].files[path] # None /\ m[b].files[path] # None
                  => picked[path] = NewerOf(m[a].files[path], m[b].files[path])
             /\ m[a].files[path] # None /\ m[b].files[path] = None
                  => picked[path] = Winner(m[a], m[b], old, path)
             /\ m[b].files[path] # None /\ m[a].files[path] = None
                  => picked[path] = Winner(m[b], m[a], old, path)
  BY <1>4 DEF JoinPath, NewerOf, Winner
<1>8. ASSUME NEW x \in {a, b}, NEW y \in {a, b}, y # x \/ a = b, NEW d \in Digests(m),
      NEW path \in Paths,
             InHistory(m, d, x), Spared(m, x, path, m[d].files[path]),
                 Spared(m, y, path, m[d].files[path])
      PROVE  picked[path] # None /\ AtLeast(picked[path], m[d].files[path])
  <2>1. m[x].files[path] # None /\ AtLeast(m[x].files[path], m[d].files[path])
    BY <1>8 DEF Monotone
  <2>2. m[x].files[path] \in Register /\ m[d].files[path] \in Register /\ m[d].files[path] # None
    BY <1>8, <2>1, FileOrNone DEF Spared
  <2>3. CASE m[y].files[path] # None
    <3>1. m[y].files[path] \in Register
      BY <2>3, FileOrNone
    <3>2. picked[path] \in {NewerOf(m[x].files[path], m[y].files[path]),
                            NewerOf(m[y].files[path], m[x].files[path])}
      BY <1>6, <1>8, <2>1, <2>3
    <3>3. picked[path] \in Register /\ AtLeast(picked[path], m[x].files[path])
      BY <2>2, <3>1, <3>2, NewerIsAtLeast
    <3> QED BY <2>1, <2>2, <3>3, RegisterNumbers, AtLeastThrough
  <2>4. CASE m[y].files[path] = None
    <3>1. picked[path] = Winner(m[x], m[y], old, path)
      BY <1>6, <1>8, <2>1, <2>4
    <3> DEFINE was == IF old = None THEN None ELSE old.files[path]
    <3>2. was # None => base # None /\ was = m[base].files[path]
      OBVIOUS
    <3>3. ~\E stamp \in DeletionStamp(m[y], path) : stamp >= m[x].files[path].mtime
      <4> SUFFICES ASSUME NEW q \in Actors, m[y].gone[q][path] >= m[x].files[path].mtime PROVE FALSE
        BY DEF DeletionStamp
      <4>1. InHistory(m, y, y)
        BY SelfFound DEF InHistory
      <4>2. m[y].gone[q][path] < m[d].files[path].mtime
        BY <1>8, <4>1 DEF Spared
      <4>3. m[y].gone[q][path] \in Nat
        BY StampIsNumber
      <4> QED BY <2>1, <2>2, <4>2, <4>3, RegisterNumbers DEF AtLeast
    <3>4. ~(was # None /\ m[x].files[path] = was)
      <4> SUFFICES ASSUME was # None, m[x].files[path] = was PROVE FALSE
        OBVIOUS
      <4>1. base \in Digests(m) /\ InHistory(m, base, y) /\ m[base].files[path] = m[x].files[path]
        BY <3>2
      <4>2. Spared(m, y, path, m[base].files[path])
        <5> SUFFICES ASSUME NEW e \in Digests(m), NEW q \in Actors, InHistory(m, e, y)
                     PROVE  m[e].gone[q][path] < m[x].files[path].mtime
          BY <2>1, <4>1 DEF Spared
        <5>1. m[e].gone[q][path] < m[d].files[path].mtime /\ m[e].gone[q][path] \in Nat
          BY <1>8, StampIsNumber DEF Spared
        <5> QED BY <2>1, <2>2, <5>1, RegisterNumbers DEF AtLeast
      <4> QED BY <2>4, <4>1, <4>2 DEF Monotone
    <3>5. picked[path] = m[x].files[path]
      BY <3>1, <3>3, <3>4 DEF Winner
    <3> QED BY <2>1, <3>5
  <2> QED BY <2>3, <2>4
<1>9. ASSUME NEW d \in Digests(m), NEW path \in Paths, NEW i \in DOMAIN joined.parents,
             InHistory(m, d, joined.parents[i]),
             \A j \in DOMAIN joined.parents : Spared(m, joined.parents[j], path, m[d].files[path])
      PROVE  joined.files[path] # None /\ AtLeast(joined.files[path], m[d].files[path])
  <2>1. PICK x \in {a, b} : x = joined.parents[i]
    BY <1>3, <1>5
  <2>2. PICK y \in {a, b} : y # x \/ a = b
    OBVIOUS
  <2>3. Spared(m, x, path, m[d].files[path]) /\ Spared(m, y, path, m[d].files[path])
    BY <1>3, <1>5, <1>9
  <2> QED BY <1>5, <1>8, <1>9, <2>1, <2>2, <2>3
<1>10. Monotone(Put(m, joined))
  BY <1>2, <1>9, PutMonotone
<1> QED BY <1>1, <1>10

\* mergeHeads keeps what the manifests show, along any part of them held.
LEMMA MergedEdits ==
  ASSUME NEW m, WellFormed(m), Monotone(m), NEW have, NEW a \in Digests(m), NEW b \in Digests(m)
  PROVE  Monotone(MergeHeads(m, have, a, b).all)
<1> PICK base : base = CommonAncestor(m, have, a, b)
  OBVIOUS
<1>1. base = None \/ (base \in Digests(m) /\ InHistory(m, base, a) /\ InHistory(m, base, b))
  BY CommonIsShared DEF InHistory
<1>2. Monotone(Put(m, JoinOver(m, a, b, base)))
  BY <1>1, JoinedEdits
<1>3. MergeHeads(m, have, a, b).all \in {m, Put(m, JoinOver(m, a, b, base))}
  BY DEF MergeHeads, Added
<1> QED BY <1>2, <1>3

LEMMA MergedStamps ==
  ASSUME NEW m, WellFormed(m), NEW now \in Nat, Stamped(m, now), NEW have, NEW a \in Digests(m),
         NEW b \in Digests(m)
  PROVE  Stamped(MergeHeads(m, have, a, b).all, now)
<1> PICK joined : joined = JoinOver(m, a, b, CommonAncestor(m, have, a, b))
  OBVIOUS
<1>1. /\ joined \in ManifestOver(Digests(m))
      /\ \A path \in Paths : joined.files[path] \in {m[a].files[path], m[b].files[path], None}
  BY JoinedManifest
<1>2. \A path \in Paths : joined.files[path] # None => joined.files[path].mtime <= now
  BY <1>1 DEF Stamped
<1>3. Stamped(Put(m, joined), now)
  BY <1>1, <1>2, PutStamped
<1>4. MergeHeads(m, have, a, b).all \in {m, Put(m, joined)}
  BY DEF MergeHeads, Added
<1> QED BY <1>3, <1>4

-----------------------------------------------------------------------------
(* Of what is in the history of a head, the head shows the newest.          *)

\* Nothing is from the future, and a file is not both in the upper and deleted.
Timely ==
    /\ Stamped(minted, clock)
    /\ \A p \in Actors, path \in Paths :
          /\ pod[p].upper[path] <= clock
          /\ pod[p].upper[path] # 0 => pod[p].deleted[path] = 0

HeadHad == \A p \in Actors : pod[p].head \in pod[p].has

MadeBy(p) == {d \in Known : minted[d].by \in {p, Publisher}}
OwnHeads == \A p \in Actors : pod[p].has \subseteq MadeBy(p)

\* What a pod's own heads show of a file is not newer than its overlay.
OwnFiles ==
    \A p \in Actors : \A d \in MadeBy(p) : \A path \in Paths :
        minted[d].files[path] # None =>
            /\ minted[d].files[path].actor \in {p, Publisher}
            /\ pod[p].upper[path] # 0 => minted[d].files[path].mtime <= pod[p].upper[path]
            /\ pod[p].deleted[path] > 0 => minted[d].files[path].mtime <= pod[p].deleted[path]

EditInv == Timely /\ HeadHad /\ (OwnHeads => Monotone(minted) /\ OwnFiles)

LEMMA InitEdits == Init => EditInv
<1> SUFFICES ASSUME Init PROVE EditInv
  OBVIOUS
<1>1. minted = <<Start>> /\ clock = 1 /\ Digests(minted) = {1} /\ minted[1] = Start /\ Known = {1}
  <2>1. Len(<<Start>>) = 1
    OBVIOUS
  <2> QED BY <2>1 DEF Init, Digests, Known
<1>2. \A path \in Paths : Start.files[path] = [mtime |-> 0, actor |-> Publisher]
      /\ Start.by = Publisher
  BY DEF Start
<1>3. \A p \in Actors : pod[p].head \in pod[p].has /\ \A path \in Paths : pod[p].upper[path] = 0
      /\ pod[p].deleted[path] = 0
  BY DEF Init, Blank
<1>4. Timely
  BY <1>1, <1>2, <1>3 DEF Timely, Stamped
<1>5. Monotone(minted)
  <2>1. ASSUME NEW path \in Paths PROVE AtLeast(Start.files[path], Start.files[path])
    <3>1. Start.files[path].mtime = 0 /\ Start.files[path].actor = 0
      BY <1>2 DEF Publisher
    <3> QED BY <3>1 DEF AtLeast
  <2> QED BY <1>1, <2>1 DEF Monotone, Spared
<1>6. OwnFiles
  <2>1. ASSUME NEW path \in Paths
        PROVE Start.files[path].actor = Publisher /\ Start.files[path].mtime = 0
    BY <1>2 DEF Publisher
  <2> QED BY <1>1, <1>3, <2>1 DEF OwnFiles, MadeBy
<1>7. HeadHad
  BY <1>3 DEF HeadHad
<1> QED BY <1>4, <1>5, <1>6, <1>7 DEF EditInv

\* The types the arithmetic of times needs.
LEMMA TimesTyped ==
  ASSUME IInv
  PROVE  /\ clock \in Nat /\ WellFormed(minted)
         /\ \A p \in Actors : pod[p].has \subseteq Known /\ pod[p].head \in Known
         /\ \A p \in Actors, path \in Paths :
               pod[p].upper[path] \in Nat /\ pod[p].deleted[path] \in Int
               /\ (pod[p].deleted[path] > 0 \/ pod[p].deleted[path] = 0 \/ pod[p].deleted[path] = Unstamped)
         /\ \A d \in Known, path \in Paths :
               minted[d].files[path] # None =>
                  /\ minted[d].files[path] \in Register
                  /\ minted[d].files[path].mtime \in Nat /\ minted[d].files[path].actor \in Nat
<1>1. clock \in 1..MaxClock /\ MaxClock \in Nat /\ WellFormed(minted)
      /\ pod \in [Actors -> PodOver(Known)]
  BY RefPushAssumption DEF IInv, TypeOK, Known
<1>2. ASSUME NEW p \in Actors
      PROVE  /\ pod[p].has \subseteq Known /\ pod[p].head \in Known
             /\ pod[p].upper \in [Paths -> 0..MaxClock]
                   /\ pod[p].deleted \in [Paths -> Unstamped..MaxClock]
  BY <1>1 DEF PodOver
<1>3. ASSUME NEW p \in Actors, NEW path \in Paths
      PROVE  /\ pod[p].upper[path] \in Nat /\ pod[p].deleted[path] \in Int
             /\ (pod[p].deleted[path] > 0 \/ pod[p].deleted[path] = 0 \/ pod[p].deleted[path] = Unstamped)
  <2>1. pod[p].upper[path] \in 0..MaxClock /\ pod[p].deleted[path] \in (-1)..MaxClock
    BY <1>2 DEF Unstamped
  <2> QED BY <1>1, <2>1 DEF Unstamped
<1>4. ASSUME NEW d \in Known, NEW path \in Paths, minted[d].files[path] # None
      PROVE  /\ minted[d].files[path] \in Register
             /\ minted[d].files[path].mtime \in Nat /\ minted[d].files[path].actor \in Nat
  BY <1>1, <1>4, FileOrNone, RegisterNumbers DEF Known
<1> QED BY <1>1, <1>2, <1>3, <1>4

\* A step that leaves manifests, time and overlays alone; a pod may take up a head.
LEMMA QuietEdits ==
  ASSUME IInv, EditInv, UNCHANGED <<minted, clock>>, HeadHad',
         \A p \in Actors : /\ pod[p].has \subseteq pod'[p].has
                           /\ pod'[p].upper = pod[p].upper /\ pod'[p].deleted = pod[p].deleted
  PROVE  EditInv'
<1>1. Known' = Known /\ \A p \in Actors : MadeBy(p)' = MadeBy(p)
  BY DEF Known, MadeBy
<1>2. Timely'
  BY DEF EditInv, Timely
<1>3. OwnHeads' => OwnHeads
  BY <1>1 DEF OwnHeads
<1>4. OwnFiles => OwnFiles'
  BY <1>1 DEF OwnFiles
<1> PICK m : m = minted
  OBVIOUS
<1>5. Monotone(minted) => Monotone(minted)'
  OBVIOUS
<1> QED BY <1>2, <1>3, <1>4, <1>5 DEF EditInv

\* A user's step: what it writes is not older than anything there is.
LEMMA UserEdits ==
  ASSUME IInv, EditInv, NEW p \in Actors, NEW path \in Paths, Write(p, path) \/ Delete(p, path)
  PROVE  EditInv'
<1>1. pod \in [Actors -> PodOver(Known)] /\ clock \in Nat /\ MaxClock \in Nat
      /\ clock \in 1..MaxClock
  BY RefPushAssumption DEF IInv, TypeOK, Known
<1>2. UNCHANGED minted /\ clock' \in Nat /\ clock <= clock'
  <2>1. \A time \in Now : time \in Nat /\ clock <= time
    BY <1>1 DEF Now
  <2> QED BY <2>1 DEF Write, Delete
<1>3. /\ \A q \in Actors \ {p} : pod'[q] = pod[q]
      /\ pod'[p].has = pod[p].has /\ pod'[p].head = pod[p].head
      /\ \A other \in Paths \ {path} : pod'[p].upper[other] = pod[p].upper[other]
                                       /\ pod'[p].deleted[other] = pod[p].deleted[other]
      /\ \/ pod'[p].upper[path] = clock' /\ pod'[p].deleted[path] = 0
         \/ pod'[p].upper[path] = 0 /\ pod'[p].deleted[path] = Unstamped
  <2>1. pod[p] \in PodOver(Known) /\ pod[p].upper \in [Paths -> 0..MaxClock]
        /\ pod[p].deleted \in [Paths -> Unstamped..MaxClock]
    BY <1>1 DEF PodOver
  <2>2. PICK time, stamp :
          /\ pod' = [pod EXCEPT ![p].upper[path] = time, ![p].deleted[path] = stamp]
          /\ (time = clock' /\ stamp = 0) \/ (time = 0 /\ stamp = Unstamped)
    BY DEF Write, Delete
  <2> DEFINE mine == [pod[p] EXCEPT !.upper = [pod[p].upper EXCEPT ![path] = time],
                                    !.deleted = [pod[p].deleted EXCEPT ![path] = stamp]]
  <2>3. pod' = [pod EXCEPT ![p] = mine]
    BY <1>1, <2>1, <2>2 DEF PodOver
  <2>4. /\ mine.has = pod[p].has /\ mine.head = pod[p].head
        /\ mine.upper = [pod[p].upper EXCEPT ![path] = time]
        /\ mine.deleted = [pod[p].deleted EXCEPT ![path] = stamp]
    BY <2>1 DEF PodOver
  <2> HIDE DEF mine
  <2>5. pod'[p] = mine /\ \A q \in Actors \ {p} : pod'[q] = pod[q]
    BY <1>1, <2>3
  <2>6. /\ mine.upper[path] = time /\ mine.deleted[path] = stamp
        /\ \A other \in Paths \ {path} : mine.upper[other] = pod[p].upper[other]
                                         /\ mine.deleted[other] = pod[p].deleted[other]
    BY <2>1, <2>4
  <2> QED BY <2>2, <2>4, <2>5, <2>6
<1>4. Known' = Known /\ \A q \in Actors : MadeBy(q)' = MadeBy(q)
  BY <1>2 DEF Known, MadeBy
<1>5. Timely'
  <2>1. Stamped(minted', clock')
    <3> SUFFICES ASSUME NEW d \in Known, NEW other \in Paths, minted[d].files[other] # None
                 PROVE  minted[d].files[other].mtime <= clock'
      BY <1>2 DEF Stamped, Known
    <3>1. minted[d].files[other].mtime <= clock /\ minted[d].files[other].mtime \in Nat
      BY TimesTyped DEF EditInv, Timely, Stamped, Known
    <3> QED BY <1>1, <1>2, <3>1
  <2>2. ASSUME NEW q \in Actors, NEW other \in Paths
        PROVE  /\ pod'[q].upper[other] <= clock'
               /\ pod'[q].upper[other] # 0 => pod'[q].deleted[other] = 0
    <3>1. /\ pod[q].upper[other] <= clock /\ pod[q].upper[other] \in Nat
          /\ pod[q].upper[other] # 0 => pod[q].deleted[other] = 0
      BY TimesTyped DEF EditInv, Timely
    <3>2. CASE q = p /\ other = path
      BY <1>2, <1>3, <3>2
    <3>3. CASE ~(q = p /\ other = path)
      <4>1. pod'[q].upper[other] = pod[q].upper[other]
            /\ pod'[q].deleted[other] = pod[q].deleted[other]
        BY <1>3, <3>3
      <4> QED BY <1>1, <1>2, <3>1, <4>1
    <3> QED BY <3>2, <3>3
  <2> QED BY <2>1, <2>2 DEF Timely
<1>6. HeadHad'
  BY <1>3 DEF EditInv, HeadHad
<1>7. OwnHeads' => OwnHeads
  BY <1>3, <1>4 DEF OwnHeads
<1>8. OwnFiles => OwnFiles'
  <2> SUFFICES ASSUME OwnFiles, NEW q \in Actors, NEW d \in MadeBy(q), NEW other \in Paths,
                      minted[d].files[other] # None
               PROVE  /\ minted[d].files[other].actor \in {q, Publisher}
                      /\ pod'[q].upper[other] # 0
                            => minted[d].files[other].mtime <= pod'[q].upper[other]
                      /\ pod'[q].deleted[other] > 0
                            => minted[d].files[other].mtime <= pod'[q].deleted[other]
    BY <1>2, <1>4 DEF OwnFiles
  <2>1. d \in Known /\ minted[d].files[other].mtime \in Nat /\ minted[d].files[other].mtime <= clock
    BY TimesTyped DEF EditInv, Timely, Stamped, Known, MadeBy
  <2>2. CASE q = p /\ other = path
    <3>1. minted[d].files[other].mtime <= clock'
      BY <1>1, <1>2, <2>1
    <3>2. minted[d].files[other].actor \in {q, Publisher}
      BY DEF OwnFiles
    <3> QED BY <1>3, <2>2, <3>1, <3>2 DEF Unstamped
  <2>3. CASE ~(q = p /\ other = path)
    <3>1. pod'[q].upper[other] = pod[q].upper[other]
          /\ pod'[q].deleted[other] = pod[q].deleted[other]
      BY <1>3, <2>3
    <3> QED BY <3>1 DEF OwnFiles
  <2> QED BY <2>2, <2>3
<1>9. Monotone(minted) => Monotone(minted)'
  BY <1>2
<1> QED BY <1>5, <1>6, <1>7, <1>8, <1>9 DEF EditInv

\* What the next head of a pod shows of a file.
LEMMA OverlaidFile ==
  ASSUME IInv, NEW p \in Actors, NEW path \in Paths
  PROVE  /\ OverlayHead(p).by = p /\ OverlayHead(p).parents = <<pod[p].head>>
         /\ OverlayHead(p).files[path] =
              IF pod[p].upper[path] # 0 THEN [mtime |-> pod[p].upper[path], actor |-> p]
              ELSE IF OverlayDeletions(p)[path] # 0 THEN None
              ELSE minted[pod[p].head].files[path]
         /\ OverlayDeletions(p)[path] # 0
               => OverlayHead(p).gone[p][path] = OverlayDeletions(p)[path]
         /\ OverlayDeletions(p)[path] =
              IF pod[p].deleted[path] = Unstamped THEN clock ELSE pod[p].deleted[path]
<1>1. pod[p].head \in Known
  BY DEF IInv, TypeOK, Known, PodOver
<1>2. minted[pod[p].head].gone \in [Actors -> [Paths -> Nat]]
  BY <1>1 DEF IInv, TypeOK, Known, ManifestOver
<1>3. OverlayHead(p).by = p /\ OverlayHead(p).parents = <<pod[p].head>>
  BY DEF OverlayHead, Overlaid
<1>4. OverlayHead(p).files[path] =
        IF pod[p].upper[path] # 0 THEN [mtime |-> pod[p].upper[path], actor |-> p]
        ELSE IF OverlayDeletions(p)[path] # 0 THEN None
        ELSE minted[pod[p].head].files[path]
  BY DEF OverlayHead, Overlaid
<1>5. ASSUME OverlayDeletions(p)[path] # 0
      PROVE OverlayHead(p).gone[p][path] = OverlayDeletions(p)[path]
  <2>1. OverlayDeletions(p) # Blank
    BY <1>5 DEF Blank
  <2> PICK deletions : deletions = OverlayDeletions(p)
    OBVIOUS
  <2>2. OverlayHead(p).gone = [minted[pod[p].head].gone EXCEPT ![p] = deletions]
    BY <2>1 DEF OverlayHead, Overlaid
  <2> QED BY <1>2, <2>2
<1>6. OverlayDeletions(p)[path] =
        IF pod[p].deleted[path] = Unstamped THEN clock ELSE pod[p].deleted[path]
  BY DEF OverlayDeletions
<1> QED BY <1>3, <1>4, <1>5, <1>6

\* What a pod deleted it deleted after what its own heads show.
LEMMA DeletionsLater ==
  ASSUME IInv, EditInv, OwnHeads, NEW p \in Actors, NEW path \in Paths, NEW d \in MadeBy(p),
         minted[d].files[path] # None, OverlayDeletions(p)[path] # 0
  PROVE  minted[d].files[path].mtime <= OverlayDeletions(p)[path]
<1>1. d \in Known /\ OwnFiles
  BY DEF MadeBy, EditInv
<1>4. OverlayDeletions(p)[path] = IF pod[p].deleted[path] = Unstamped THEN clock ELSE pod[p].deleted[path]
  BY OverlaidFile
<1>2. CASE pod[p].deleted[path] = Unstamped
  BY <1>1, <1>2, <1>4 DEF EditInv, Timely, Stamped, Known
<1>3. CASE pod[p].deleted[path] # Unstamped
  <2>2. pod[p].deleted[path] > 0 \/ pod[p].deleted[path] = 0
    BY <1>3, TimesTyped
  <2>1. OverlayDeletions(p)[path] = pod[p].deleted[path] /\ pod[p].deleted[path] > 0
    BY <1>3, <1>4, <2>2
  <2> QED BY <1>1, <2>1 DEF OwnFiles
<1> QED BY <1>2, <1>3

\* The next head of a pod shows what its local head shows, or something newer.
LEMMA OverlayMonotone ==
  ASSUME IInv, EditInv, OwnHeads, NEW p \in Actors
  PROVE  Monotone(Put(minted, OverlayHead(p)))
<1> PICK new : new = OverlayHead(p)
  OBVIOUS
<1>1. new \in ManifestOver(Known) /\ WellFormed(minted) /\ Monotone(minted) /\ pod[p].head \in Known
      /\ pod[p].head \in MadeBy(p) /\ OwnFiles
  BY OverlayTyped, TimesTyped DEF EditInv, HeadHad, OwnHeads
<1> SUFFICES ASSUME NEW d \in Known, NEW path \in Paths, NEW i \in DOMAIN new.parents,
                    InHistory(minted, d, new.parents[i]), minted[d].files[path] # None,
                    \A j \in DOMAIN new.parents : Spared(minted, new.parents[j], path, minted[d].files[path]),
                    \A q \in Actors : new.gone[q][path] < minted[d].files[path].mtime
             PROVE  new.files[path] # None /\ AtLeast(new.files[path], minted[d].files[path])
  BY <1>1, PutMonotone DEF Known
<1>2. new.parents[i] = pod[p].head
  <2>1. new.parents = <<pod[p].head>>
    BY OverlaidFile
  <2> QED BY <2>1
<1> DEFINE file == minted[pod[p].head].files[path]
           edit == minted[d].files[path]
<1>3. file # None /\ AtLeast(file, edit)
  BY <1>1, <1>2 DEF Monotone, Known
<1>4. file \in Register /\ edit \in Register /\ file.mtime \in Nat /\ file.actor \in Nat
      /\ edit.mtime \in Nat /\ edit.actor \in Nat
  BY <1>1, <1>3, TimesTyped
<1>5. p \in Nat /\ p > 0
  BY HeadMergeAssumption
<1>6. CASE pod[p].upper[path] # 0
  <2>1. new.files[path] = [mtime |-> pod[p].upper[path], actor |-> p]
    BY <1>6, OverlaidFile
  <2>2. file.mtime <= pod[p].upper[path] /\ file.actor \in {p, 0} /\ pod[p].upper[path] \in Nat
    BY <1>1, <1>3, <1>6, TimesTyped DEF OwnFiles, Publisher
  <2>3. [mtime |-> pod[p].upper[path], actor |-> p] \in Register
    BY <2>2 DEF Register
  <2>4. AtLeast(new.files[path], file)
    BY <1>4, <1>5, <2>1, <2>2 DEF AtLeast
  <2> QED BY <1>3, <1>4, <2>1, <2>3, <2>4, AtLeastThrough, RegisterNumbers
<1>7. CASE pod[p].upper[path] = 0 /\ OverlayDeletions(p)[path] # 0
  <2>1. file.mtime <= OverlayDeletions(p)[path]
    BY <1>1, <1>3, <1>7, DeletionsLater
  <2>2. OverlayDeletions(p)[path] < edit.mtime
    <3>1. new.gone[p][path] = OverlayDeletions(p)[path]
      BY <1>7, OverlaidFile
    <3> QED BY <3>1
  <2>3. OverlayDeletions(p)[path] \in Int
    <3>1. OverlayDeletions(p)[path] \in {clock, pod[p].deleted[path]}
      BY OverlaidFile
    <3> QED BY <3>1, TimesTyped
  <2> QED BY <1>3, <1>4, <2>1, <2>2, <2>3 DEF AtLeast
<1>8. CASE pod[p].upper[path] = 0 /\ OverlayDeletions(p)[path] = 0
  BY <1>3, <1>8, OverlaidFile
<1> QED BY <1>6, <1>7, <1>8

LEMMA OverlayStamped ==
  ASSUME IInv, EditInv, NEW p \in Actors
  PROVE  Stamped(Put(minted, OverlayHead(p)), clock)
<1> PICK new : new = OverlayHead(p)
  OBVIOUS
<1>1. new \in ManifestOver(Digests(minted)) /\ WellFormed(minted) /\ clock \in Nat
      /\ Stamped(minted, clock)
  BY OverlayTyped, TimesTyped DEF EditInv, Timely, Known
<1>2. ASSUME NEW path \in Paths, new.files[path] # None PROVE new.files[path].mtime <= clock
  <2>1. \/ new.files[path] = [mtime |-> pod[p].upper[path], actor |-> p]
        \/ new.files[path] = minted[pod[p].head].files[path]
    BY <1>2, OverlaidFile
  <2>2. pod[p].upper[path] <= clock /\ pod[p].head \in Known
    BY TimesTyped DEF EditInv, Timely
  <2> QED BY <1>1, <1>2, <2>1, <2>2 DEF Stamped, Known
<1> QED BY <1>1, <1>2, PutStamped

\* Manifests are minted, by a pod on its local head or by the manager.
LEMMA MintedBy ==
  ASSUME IInv, NEW new \in ManifestOver(Known), minted' = Put(minted, new)
  PROVE  /\ Known \subseteq Known' /\ \A d \in Known : minted'[d] = minted[d]
         /\ \A d \in Known' : d \in Known \/ minted'[d] = new
<1>1. WellFormed(minted)
  BY DEF IInv
<1>2. Extends(minted', minted) /\ WellFormed(minted')
  BY <1>1, PutManifest DEF Known
<1>3. Known \subseteq Known' /\ \A d \in Known : minted'[d] = minted[d]
  BY <1>1, <1>2 DEF Extends, Known, Digests, WellFormed
<1>4. ASSUME NEW d \in Known' PROVE d \in Known \/ minted'[d] = new
  <2>1. CASE \E x \in Digests(minted) : minted[x] = new
    BY <1>4, <2>1 DEF Put, Known
  <2>2. CASE ~\E x \in Digests(minted) : minted[x] = new
    <3>1. minted' = Append(minted, new) /\ new \in ManifestOver(Nat) /\ Len(minted) \in Nat
      BY <1>1, <2>2, ManifestWiden DEF Put, WellFormed, Known, Digests
    <3>2. Len(minted') = Len(minted) + 1 /\ minted'[Len(minted) + 1] = new
      BY <1>1, <3>1 DEF WellFormed
    <3> QED BY <3>1, <3>2 DEF Known, Digests
  <2> QED BY <2>1, <2>2
<1> QED BY <1>3, <1>4

LEMMA BuildEdits ==
  ASSUME IInv, EditInv, NEW p \in Actors, Push(p) \/ Reopen(p)
  PROVE  EditInv'
<1> PICK opening \in BOOLEAN : Build(p, opening)
  BY DEF Push, Reopen
<1>1. pod \in [Actors -> PodOver(Known)] /\ pod[p] \in PodOver(Known) /\ clock' = clock
      /\ clock \in Nat
  BY TimesTyped DEF IInv, TypeOK, Known, Build
<1> PICK new, n : new = OverlayHead(p) /\ n = DigestOf(minted, new)
  OBVIOUS
<1>2. new \in ManifestOver(Known)
  BY OverlayTyped
<1>3. /\ \A q \in Actors \ {p} : pod'[q] = pod[q]
      /\ pod'[p].upper = pod[p].upper /\ pod'[p].deleted = OverlayDeletions(p)
      /\ \/ minted' = minted /\ pod'[p].head = pod[p].head /\ pod'[p].has = pod[p].has
         \/ minted' = Put(minted, new) /\ pod'[p].head = n /\ pod'[p].has = pod[p].has \cup {n}
  <2> PICK deletions : deletions = OverlayDeletions(p)
    OBVIOUS
  <2>1. CASE Untouched(p) \/ SameAsHead(p)
    <3>1. /\ pod' = [pod EXCEPT ![p].at = "ask", ![p].opening = opening, ![p].deleted = deletions]
          /\ UNCHANGED minted
      BY <2>1 DEF Build
    <3> QED BY <1>1, <3>1 DEF PodOver
  <2>2. CASE ~(Untouched(p) \/ SameAsHead(p))
    <3>1. /\ pod' = [pod EXCEPT ![p].at = "manifest", ![p].head = n, ![p].has = @ \cup {n},
                                ![p].opening = opening, ![p].deleted = deletions]
          /\ minted' = Put(minted, new)
      BY <2>2 DEF Build
    <3> QED BY <1>1, <3>1 DEF PodOver
  <2> QED BY <2>1, <2>2
<1>4. /\ Known \subseteq Known' /\ \A d \in Known : minted'[d] = minted[d]
      /\ \A d \in Known' : d \in Known \/ minted'[d] = new
  <2>1. CASE minted' = minted
    BY <2>1 DEF Known
  <2>2. CASE minted' = Put(minted, new)
    BY <1>2, <2>2, MintedBy
  <2> QED BY <1>3, <2>1, <2>2
<1>5. Timely'
  <2>1. Stamped(minted', clock')
    <3>1. Stamped(minted, clock) /\ Stamped(Put(minted, new), clock)
      BY OverlayStamped DEF EditInv, Timely
    <3> QED BY <1>1, <1>3, <3>1
  <2>2. ASSUME NEW q \in Actors, NEW path \in Paths
        PROVE  /\ pod'[q].upper[path] <= clock'
               /\ pod'[q].upper[path] # 0 => pod'[q].deleted[path] = 0
    <3>1. pod[q].upper[path] <= clock /\ (pod[q].upper[path] # 0 => pod[q].deleted[path] = 0)
      BY DEF EditInv, Timely
    <3>2. pod[q].upper[path] # 0 => OverlayDeletions(q)[path] = 0
      <4>1. OverlayDeletions(q)[path] = IF pod[q].deleted[path] = Unstamped THEN clock ELSE pod[q].deleted[path]
        BY OverlaidFile
      <4> QED BY <3>1, <4>1 DEF Unstamped
    <3> QED BY <1>1, <1>3, <3>1, <3>2
  <2> QED BY <2>1, <2>2 DEF Timely
<1>6. HeadHad'
  BY <1>3 DEF EditInv, HeadHad
<1>7. ASSUME OwnHeads' PROVE OwnHeads
  <2> SUFFICES ASSUME NEW q \in Actors, NEW d \in pod[q].has PROVE d \in MadeBy(q)
    BY DEF OwnHeads
  <2>1. d \in Known /\ d \in pod'[q].has
    BY <1>3, TimesTyped
  <2>2. d \in MadeBy(q)'
    BY <1>7, <2>1 DEF OwnHeads
  <2> QED BY <1>4, <2>1, <2>2 DEF MadeBy
<1>8. ASSUME OwnHeads PROVE Monotone(minted)'
  <2>1. Monotone(minted) /\ Monotone(Put(minted, new))
    BY <1>8, OverlayMonotone DEF EditInv
  <2> QED BY <1>3, <2>1
<1>9. ASSUME OwnHeads PROVE OwnFiles'
  <2> SUFFICES ASSUME NEW q \in Actors, NEW d \in Known', minted'[d].by \in {q, Publisher},
      NEW path \in Paths,
                      minted'[d].files[path] # None
               PROVE  /\ minted'[d].files[path].actor \in {q, Publisher}
                      /\ pod'[q].upper[path] # 0
                            => minted'[d].files[path].mtime <= pod'[q].upper[path]
                      /\ pod'[q].deleted[path] > 0
                            => minted'[d].files[path].mtime <= pod'[q].deleted[path]
    BY DEF OwnFiles, MadeBy
  <2> DEFINE Fits(f) ==
               /\ f.actor \in {q, Publisher}
               /\ pod[q].upper[path] # 0 => f.mtime <= pod[q].upper[path]
               /\ pod'[q].deleted[path] > 0 => f.mtime <= pod'[q].deleted[path]
  <2>1. ASSUME NEW x \in MadeBy(q), minted[x].files[path] # None PROVE Fits(minted[x].files[path])
    <3>1. /\ minted[x].files[path].actor \in {q, Publisher}
          /\ pod[q].upper[path] # 0 => minted[x].files[path].mtime <= pod[q].upper[path]
          /\ pod[q].deleted[path] > 0 => minted[x].files[path].mtime <= pod[q].deleted[path]
      BY <1>9, <2>1 DEF EditInv, OwnFiles
    <3>2. OverlayDeletions(q)[path] # 0 => minted[x].files[path].mtime <= OverlayDeletions(q)[path]
      BY <1>9, <2>1, DeletionsLater
    <3> QED BY <1>3, <3>1, <3>2
  <2>2. CASE d \in Known
    <3>1. d \in MadeBy(q) /\ minted'[d] = minted[d]
      BY <1>4, <2>2 DEF MadeBy
    <3> QED BY <1>3, <2>1, <3>1
  <2>3. CASE minted'[d] = new
    <3>1. p # Publisher /\ q = p
      <4>1. p # Publisher
        BY HeadMergeAssumption DEF Publisher
      <4>2. new.by = p
        BY OverlaidFile
      <4> QED BY <2>3, <4>1, <4>2
    <3>2. CASE pod[p].upper[path] # 0
      <4>1. new.files[path] = [mtime |-> pod[p].upper[path], actor |-> p]
            /\ pod[p].upper[path] \in Nat
        BY <3>2, OverlaidFile, TimesTyped
      <4>2. pod'[p].deleted[path] = 0
        BY <1>3, <1>5, <3>2 DEF Timely
      <4> QED BY <1>3, <2>3, <3>1, <4>1, <4>2
    <3>3. CASE pod[p].upper[path] = 0
      <4>1. new.files[path] = minted[pod[p].head].files[path]
        <5>1. new.files[path] = IF pod[p].upper[path] # 0 THEN [mtime |-> pod[p].upper[path], actor |-> p]
                                ELSE IF OverlayDeletions(p)[path] # 0 THEN None
                                ELSE minted[pod[p].head].files[path]
          BY OverlaidFile
        <5>2. new.files[path] # None
          BY <2>3
        <5> QED BY <3>3, <5>1, <5>2
      <4>2. pod[p].head \in MadeBy(p)
        BY <1>9 DEF EditInv, HeadHad, OwnHeads
      <4>3. Fits(new.files[path])
        BY <2>1, <2>3, <3>1, <4>1, <4>2
      <4> QED BY <1>3, <2>3, <4>3
    <3> QED BY <3>2, <3>3
  <2> QED BY <1>4, <2>2, <2>3
<1> QED BY <1>5, <1>6, <1>7, <1>8, <1>9 DEF EditInv

\* Merge-on-push mints a manifest of its own.
LEMMA JoinEdits ==
  ASSUME IInv, EditInv, NEW p \in Actors, JoinHeads(p)
  PROVE  EditInv'
<1>1. UNCHANGED <<pod, clock>> /\ WellFormed(minted) /\ clock \in Nat
  BY TimesTyped DEF JoinHeads
<1>2. CASE minted' = minted
  BY <1>1, <1>2, QuietEdits DEF EditInv, HeadHad
<1>3. CASE minted' # minted
  <2> PICK a, b, base : a = req[p].cur /\ b = req[p].want
      /\ base = CommonAncestor(minted, held, a, b)
    OBVIOUS
  <2>1. req[p].at = "decide" /\ Settled(p) = None /\ minted' = MergeHeads(minted, held, a, b).all
    BY <1>3 DEF JoinHeads, Store
  <2>2. a \in Known /\ b \in Known
    <3>1. b \in Complete /\ a \in Complete \cup {None} /\ Complete \subseteq Known
          /\ Known \subseteq Nat
      BY <1>1, <2>1 DEF IInv, RequestState, TypeOK, Complete, Known, WellFormed, Digests
    <3>2. b # None
      <4>1. b \in Nat
        BY <3>1
      <4> QED BY <4>1, HeadMergeAssumption, Zenon
    <3>3. a # None
      BY <2>1, <3>2 DEF Settled
    <3> QED BY <3>1, <3>3
  <2>3. Stamped(minted', clock') /\ (Monotone(minted) => Monotone(minted'))
    <3> PICK m : m = minted'
      OBVIOUS
    <3>1. Stamped(minted, clock)
      BY DEF EditInv, Timely
    <3>2. Stamped(m, clock) /\ (Monotone(minted) => Monotone(m))
      BY <1>1, <2>1, <2>2, <3>1, MergedStamps, MergedEdits DEF Known
    <3> QED BY <1>1, <3>2
  <2> PICK joined : joined = JoinOver(minted, a, b, base)
    OBVIOUS
  <2>4. joined \in ManifestOver(Known) /\ joined.by = MergeActor /\ minted' = Put(minted, joined)
    <3>1. joined \in ManifestOver(Known)
      BY <1>1, <2>2, JoinedManifest DEF Known
    <3>2. joined.by = MergeActor
      BY DEF JoinOver, Join
    <3> QED BY <1>3, <2>1, <3>1, <3>2 DEF MergeHeads, Added
  <2>5. /\ Known \subseteq Known' /\ \A d \in Known : minted'[d] = minted[d]
        /\ \A d \in Known' : d \in Known \/ minted'[d] = joined
    BY <2>4, MintedBy
  <2>6. \A q \in Actors : MadeBy(q)' = MadeBy(q)
    <3>1. \A q \in Actors : MergeActor \notin {q, Publisher}
      BY HeadMergeAssumption DEF MergeActor, Publisher
    <3> QED BY <2>4, <2>5, <3>1 DEF MadeBy
  <2>7. Timely' /\ HeadHad' /\ (OwnHeads' => OwnHeads)
    BY <1>1, <2>3, <2>6 DEF EditInv, Timely, HeadHad, OwnHeads
  <2>8. OwnFiles => OwnFiles'
    <3>1. \A q \in Actors : \A d \in MadeBy(q) : minted'[d] = minted[d]
      BY <2>5 DEF MadeBy
    <3> QED BY <1>1, <2>6, <3>1 DEF OwnFiles
  <2>9. Monotone(minted) => Monotone(minted)'
    BY <2>3
  <2> QED BY <2>7, <2>8, <2>9 DEF EditInv
<1> QED BY <1>2, <1>3

LEMMA EditsInductive == IInv /\ EditInv /\ [Next]_vars => EditInv'
<1> SUFFICES ASSUME IInv, EditInv, [Next]_vars PROVE EditInv'
  OBVIOUS
<1>1. ASSUME UNCHANGED <<minted, clock, pod>> PROVE EditInv'
  BY <1>1, QuietEdits DEF EditInv, HeadHad
<1>2. CASE UNCHANGED vars
  BY <1>1, <1>2 DEF vars, podVars
<1>3. CASE \E p \in Actors, path \in Paths : Write(p, path) \/ Delete(p, path)
  BY <1>3, UserEdits
<1>4. ASSUME NEW p \in Actors, PodStep(p) PROVE EditInv'
  <2>1. CASE Push(p) \/ Reopen(p)
    BY <2>1, BuildEdits
  <2>2. CASE Ask(p) \/ SendManifest(p) \/ SendLayers(p) \/ TransferFails(p) \/ Pull(p)
    <3>1. pod \in [Actors -> PodOver(Known)] /\ pod[p] \in PodOver(Known)
      BY DEF IInv, TypeOK, Known
    <3>2. UNCHANGED <<minted, clock>>
      BY <2>2 DEF Ask, SendManifest, SendLayers, TransferFails, Pull
    <3>3. /\ \A q \in Actors \ {p} : pod'[q] = pod[q]
          /\ pod'[p].upper = pod[p].upper /\ pod'[p].deleted = pod[p].deleted
          /\ pod[p].has \subseteq pod'[p].has
          /\ pod'[p].head = pod[p].head \/ pod'[p].head \in pod'[p].has
      <4>1. CASE Ask(p) \/ SendManifest(p) \/ SendLayers(p) \/ TransferFails(p)
        <5>1. PICK at : pod' = [pod EXCEPT ![p].at = at]
          BY <4>1 DEF Ask, SendManifest, SendLayers, TransferFails
        <5> QED BY <3>1, <5>1 DEF PodOver
      <4>2. CASE Pull(p)
        <5> PICK remote : remote = GetRef(p)
          OBVIOUS
        <5>1. \/ pod' = [pod EXCEPT ![p].opening = FALSE]
              \/ pod' = [pod EXCEPT ![p].opening = FALSE, ![p].head = remote, ![p].base = remote,
                                    ![p].has = @ \cup {remote}]
          BY <4>2 DEF Pull
        <5> QED BY <3>1, <5>1 DEF PodOver
      <4> QED BY <2>2, <4>1, <4>2
    <3>4. HeadHad'
      BY <3>3 DEF EditInv, HeadHad
    <3> QED BY <3>2, <3>3, <3>4, QuietEdits
  <2> QED BY <1>4, <2>1, <2>2 DEF PodStep
<1>5. ASSUME NEW p \in Actors, HandlerStep(p) PROVE EditInv'
  <2>1. CASE JoinHeads(p)
    BY <2>1, JoinEdits
  <2>2. CASE ~JoinHeads(p)
    BY <1>1, <1>5, <2>2 DEF HandlerStep, Receive, Keep, LoadIndex, Truncate, Fill, podVars
  <2> QED BY <2>1, <2>2
<1>6. CASE Crash
  BY <1>1, <1>6 DEF Crash, podVars
<1> QED BY <1>2, <1>3, <1>4, <1>5, <1>6 DEF Next

\* With nothing pushed lost, what the head's history holds the head shows.
LEMMA NewestShown == IInv /\ HInv /\ EditInv => NewestWins
<1> SUFFICES ASSUME IInv, HInv, EditInv, Undisturbed, NEW a \in Visible, NEW path \in Paths,
                    minted[a.head].files[path] # None,
                    \A d \in Within(index[a.ref]) : \A stamp \in DeletionStamp(minted[d], path) :
                        ~(stamp >= minted[a.head].files[path].mtime)
             PROVE  Shown(a, path) # None
                 /\ NewerOf(Shown(a, path), minted[a.head].files[path]) = Shown(a, path)
  BY DEF NewestWins
<1>1. crashes = 0 /\ index # Torn /\ a \in acked /\ index[a.ref] # None
  BY DEF Undisturbed, Visible
<1>2. WellFormed(minted) /\ held \subseteq Digests(minted) /\ a.head \in Digests(minted)
      /\ a.ref \in Refs
  BY <1>1 DEF IInv, TypeOK
<1>3. index[a.ref] \in Digests(minted)
  BY <1>1, <1>2, IndexTyped DEF Known
<1> PICK head, edit : head = index[a.ref] /\ edit = minted[a.head].files[path]
  OBVIOUS
<1>4. InHistory(minted, a.head, head)
  <2>1. IsAncestor(minted, held, a.head, head)
    BY <1>1 DEF HInv, HistoryKept
  <2>2. Extends(minted, minted)
    BY <1>2 DEF Extends, WellFormed
  <2> QED BY <1>2, <1>3, <2>1, <2>2, FoundStays DEF InHistory
<1>5. OwnHeads
  BY TimesTyped DEF Undisturbed, OwnHeads, MadeBy
<1>6. edit \in Register /\ edit.mtime \in Nat
  BY <1>2, TimesTyped DEF Known
<1>7. Spared(minted, head, path, edit)
  <2> SUFFICES ASSUME NEW e \in Digests(minted), NEW q \in Actors, InHistory(minted, e, head)
               PROVE  minted[e].gone[q][path] < edit.mtime
    BY DEF Spared
  <2>1. e \in Within(index[a.ref]) /\ minted[e].gone[q][path] \in DeletionStamp(minted[e], path)
    BY DEF Within, InHistory, DeletionStamp
  <2>2. minted[e].gone[q][path] \in Nat
    BY <1>2, StampIsNumber
  <2> QED BY <1>6, <2>1, <2>2
<1>8. minted[head].files[path] # None /\ AtLeast(minted[head].files[path], edit)
  BY <1>2, <1>3, <1>4, <1>5, <1>7 DEF EditInv, Monotone
<1>9. minted[head].files[path] \in Register
  BY <1>3, <1>8, TimesTyped DEF Known
<1> QED BY <1>6, <1>8, <1>9, NewerIsAtLeast DEF Shown

\* "the newer (mtime, actor) bytes win everywhere" (docs/sync.md:20), however
\* many pods push and however often their heads diverge and are merged: while
\* the manager stays up, takes puts one at a time, and no pod has taken up
\* somebody else's head under its edits, the head of a ref shows of every file
\* that was pushed an edit not older than it, unless the head's history holds
\* a deletion that is not older either.
THEOREM NewestAlwaysWins ==
  ASSUME ~Overlap
  PROVE  Spec => []NewestWins
<1>1. Init => IInv /\ HInv /\ EditInv
  BY InitIInv, InitHInv, InitEdits
<1>2. IInv /\ HInv /\ EditInv /\ [Next]_vars => IInv' /\ HInv' /\ EditInv'
  BY Inductive, HistoryInductive, EditsInductive
<1> QED BY <1>1, <1>2, NewestShown, PTL DEF Spec

-----------------------------------------------------------------------------
(* Histories of a pod's own manifests.                                      *)

\* Nothing in the history of a manifest is newer than it.
LEMMA HistoryOlder ==
  ASSUME NEW m, WellFormed(m), NEW d \in Digests(m), NEW h \in Digests(m), InHistory(m, d, h)
  PROVE  d <= h
<1>1. Digests(m) \subseteq Nat
  BY DEF Digests, WellFormed
<1> SUFFICES ASSUME h < d PROVE FALSE
  BY <1>1
<1> DEFINE S == {x \in Digests(m) : x <= h}
<1>2. S \in SUBSET (Digests(m) \ {d}) /\ h \in S
  BY <1>1
<1>3. ASSUME NEW x \in S PROVE ParentsIn(m, x, S)
  <2> SUFFICES ASSUME NEW i \in DOMAIN m[x].parents PROVE m[x].parents[i] \in S
    BY DEF ParentsIn
  <2>1. m[x].parents[i] \in Digests(m) /\ m[x].parents[i] < x
    BY ParentKnown
  <2>2. x \in Nat /\ h \in Nat /\ x <= h /\ m[x].parents[i] \in Nat
    BY <1>1, <2>1
  <2> QED BY <2>1, <2>2
<1> HIDE DEF S
<1> QED BY <1>2, <1>3 DEF InHistory, IsAncestor

\* Along manifests that are all held, the walk finds the whole history.
LEMMA HeldHistory ==
  ASSUME NEW m, WellFormed(m), NEW have, NEW h \in Digests(m), NEW d, InHistory(m, d, h),
         \A x \in Digests(m) : InHistory(m, x, h) => x \in have
  PROVE  IsAncestor(m, have, d, h)
<1> SUFFICES ASSUME NEW S \in SUBSET (Digests(m) \ {d}), h \in S
             PROVE  \E x \in S \cap have : ~ParentsIn(m, x, S)
  BY DEF IsAncestor
<1> DEFINE T == {x \in S : InHistory(m, x, h)}
<1>1. T \in SUBSET (Digests(m) \ {d}) /\ h \in T
  BY SelfFound DEF InHistory
<1>2. PICK x \in T : ~ParentsIn(m, x, T)
  <2> HIDE DEF T
  <2> QED BY <1>1 DEF InHistory, IsAncestor
<1>3. PICK i \in DOMAIN m[x].parents : m[x].parents[i] \notin T
  BY <1>2 DEF ParentsIn
<1>4. x \in Digests(m) /\ x \in S /\ InHistory(m, x, h)
  OBVIOUS
<1>5. InHistory(m, m[x].parents[i], x)
  BY <1>4, ParentFound DEF InHistory
<1>6. InHistory(m, m[x].parents[i], h)
  BY <1>4, <1>5, FoundThrough DEF InHistory
<1>7. m[x].parents[i] \notin S
  BY <1>3, <1>6
<1> QED BY <1>4, <1>7 DEF ParentsIn

\* A set that holds the parents of all its manifests holds their histories.
LEMMA ClosedHistory ==
  ASSUME NEW m, NEW have, have \subseteq Digests(m), \A x \in have : ParentsIn(m, x, have),
         NEW h \in have, NEW d, InHistory(m, d, h)
  PROVE  d \in have
<1> SUFFICES ASSUME d \notin have PROVE FALSE
  OBVIOUS
<1>1. have \in SUBSET (Digests(m) \ {d})
  OBVIOUS
<1> QED BY <1>1 DEF InHistory, IsAncestor

\* Every pod starts from the published head and mints on its own heads; only its
\* own whiteout layer is in them.
Lineage ==
    /\ minted[1] = Start /\ 1 \in held
    /\ \A d \in Known : minted[d].by = Publisher => d = 1
    /\ \A d \in Known, p \in Actors : minted[d].by = p =>
          /\ \E y \in MadeBy(p) : minted[d].parents = <<y>>
          /\ \A q \in Actors \ {p} : minted[d].gone[q] = Blank

\* A manifest of a pod is the published one or has one parent, an older one.
LEMMA OwnParent ==
  ASSUME IInv, Lineage, NEW p \in Actors, NEW d \in MadeBy(p)
  PROVE  /\ d \in Known /\ d \in Nat /\ p # Publisher
         /\ \/ d = 1 /\ minted[d].parents = <<>>
            \/ d # 1 /\ minted[d].by = p
               /\ \E y \in MadeBy(p) : minted[d].parents = <<y>> /\ y < d
<1>1. d \in Known /\ d \in Nat /\ p # Publisher /\ WellFormed(minted)
  BY HeadMergeAssumption DEF MadeBy, Publisher, IInv, Known, Digests, WellFormed
<1>2. CASE minted[d].by = Publisher
  BY <1>1, <1>2 DEF Lineage, Start
<1>3. CASE minted[d].by = p
  <2>1. PICK y \in MadeBy(p) : minted[d].parents = <<y>>
    BY <1>1, <1>3 DEF Lineage
  <2>2. 1 \in DOMAIN minted[d].parents /\ minted[d].parents[1] = y
    BY <2>1
  <2>3. y < d
    BY <1>1, <2>2, ParentKnown DEF Known
  <2>4. d # 1
    BY <1>1, <1>3 DEF Lineage, Start
  <2> QED BY <1>1, <1>3, <2>1, <2>3, <2>4
<1> QED BY <1>1, <1>2, <1>3 DEF MadeBy

LEMMA OwnHistory ==
  ASSUME IInv, Lineage, NEW p \in Actors, NEW h \in MadeBy(p), NEW d, InHistory(minted, d, h)
  PROVE  d \in MadeBy(p)
<1> SUFFICES ASSUME d \notin MadeBy(p) PROVE FALSE
  OBVIOUS
<1>1. MadeBy(p) \in SUBSET (Known \ {d})
  BY DEF MadeBy
<1>2. PICK x \in MadeBy(p) : ~ParentsIn(minted, x, MadeBy(p))
  BY <1>1 DEF InHistory, IsAncestor, Known
<1>3. minted[x].parents = <<>> \/ \E y \in MadeBy(p) : minted[x].parents = <<y>>
  BY OwnParent
<1> QED BY <1>2, <1>3 DEF ParentsIn

LEMMA FromStart ==
  ASSUME IInv, Lineage, NEW p \in Actors, NEW h \in MadeBy(p)
  PROVE  InHistory(minted, 1, h)
<1> DEFINE Bad == {d \in MadeBy(p) : ~InHistory(minted, 1, d)}
<1>1. SUFFICES ASSUME Bad # {} PROVE FALSE
  OBVIOUS
<1>2. PICK d \in Bad : \A k \in Bad : d <= k
  <2>1. Bad \in SUBSET Nat
    BY OwnParent
  <2> HIDE DEF Bad
  <2> QED BY <1>1, <2>1, Least
<1>3. d \in MadeBy(p) /\ ~InHistory(minted, 1, d)
  OBVIOUS
<1>4. d # 1
  BY <1>3, SelfFound DEF InHistory
<1>5. PICK y \in MadeBy(p) : minted[d].parents = <<y>> /\ y < d
  BY <1>3, <1>4, OwnParent
<1>6. y \in Nat /\ d \in Nat /\ y \in Known /\ d \in Known
  BY <1>3, OwnParent
<1>7. InHistory(minted, 1, y)
  <2>1. y \notin Bad
    <3> HIDE DEF Bad
    <3> QED BY <1>2, <1>5, <1>6
  <2> QED BY <2>1
<1>8. InHistory(minted, y, d)
  <2>1. 1 \in DOMAIN minted[d].parents /\ minted[d].parents[1] = y
    BY <1>5
  <2> QED BY <1>6, <2>1, ParentFound DEF InHistory, Known
<1>9. InHistory(minted, 1, d)
  BY <1>6, <1>7, <1>8, FoundThrough DEF InHistory, Known
<1> QED BY <1>3, <1>9

\* A walk along held manifests of one parent each ends at the first of them.
LEMMA StartReached ==
  ASSUME NEW m, WellFormed(m), NEW have, NEW h \in Digests(m), NEW S \in SUBSET Digests(m), h \in S,
         S \subseteq have,
         \A d \in S : d = 1 \/ \E y \in S : m[d].parents = <<y>> /\ y < d
  PROVE  \E i \in DOMAIN Reach(m, have, h) : Reach(m, have, h)[i].digest = 1
<1> PICK turn : /\ Reach(m, have, h) = turn[2 * Len(m) + 1].met
                /\ turn[0] = FirstTurn(h)
                /\ \A k \in 1..(2 * Len(m) + 1) : turn[k] = Walk(m, have, turn[k - 1])
                /\ \A k \in 0..(2 * Len(m) + 1) : turn[k] \in Walks(m, h)
  BY ReachTurns
<1>1. Len(m) \in Nat /\ Digests(m) = 1..Len(m) /\ \A d \in S : d \in Nat /\ d <= Len(m)
  BY DEF WellFormed, Digests
<1> PICK last : last = 2 * Len(m) + 1
  OBVIOUS
<1>2. last \in Nat /\ last > Len(m)
  BY <1>1
\* Either 1 was met, or the queue is one manifest older than those met, and
\* there are at least as many older manifests as turns to come.
<1> DEFINE Met(w) == \E i \in DOMAIN w.met : w.met[i].digest = 1
           Coming(w, k) == \E d \in S, depth \in Nat :
                        /\ w.queue = <<[digest |-> d, depth |-> depth]>> /\ d + k <= Len(m)
                        /\ \A i \in DOMAIN w.met : d < w.met[i].digest
           Good(k) == Met(turn[k]) \/ Coming(turn[k], k)
<1>3. Good(0)
  <2>1. turn[0].queue = <<[digest |-> h, depth |-> 0]>> /\ turn[0].met = <<>>
    BY DEF FirstTurn
  <2>2. h + 0 <= Len(m)
    BY <1>1
  <2>3. \A i \in DOMAIN turn[0].met : h < turn[0].met[i].digest
    BY <2>1
  <2> QED BY <2>1, <2>2, <2>3
<1>4. ASSUME NEW k \in 1..last, Good(k - 1) PROVE Good(k)
  <2> PICK w, v : w = turn[k - 1] /\ v = turn[k]
    OBVIOUS
  <2>1. k - 1 \in 0..last /\ k \in Nat /\ k - 1 \in Nat
    BY <1>2
  <2>2. v = Walk(m, have, w) /\ w \in Walks(m, h)
    BY <2>1
  <2>3. w.met \in Seq(Visits(m, h))
    BY <2>2 DEF Walks
  <2>4. CASE Met(w)
    <3>1. PICK i \in DOMAIN w.met : w.met[i].digest = 1
      BY <2>4
    <3>2. v.met = w.met \/ v.met = Append(w.met, Head(w.queue))
      <4>1. CASE w.queue = <<>>
        BY <2>2, <4>1 DEF Walk
      <4>2. CASE w.queue # <<>>
        <5>1. v = Meet(m, have, Head(w.queue), Tail(w.queue), w.met)
          BY <2>2, <4>2 DEF Walk
        <5> PICK next, rest, met : next = Head(w.queue) /\ rest = Tail(w.queue) /\ met = w.met
          OBVIOUS
        <5>2. v = Meet(m, have, next, rest, met)
          BY <5>1
        <5>3. v.met = met \/ v.met = Append(met, next)
          <6> PICK longer, queue : /\ longer = Append(met, next)
                                   /\ v = IF \E at \in DOMAIN met : met[at].digest = next.digest
                                          THEN [queue |-> rest, met |-> met]
                                          ELSE [met |-> longer, queue |-> queue]
            BY <5>2, Zenon DEF Meet
          <6> QED OBVIOUS
        <5> QED BY <5>3
      <4> QED BY <4>1, <4>2
    <3>3. i \in DOMAIN v.met /\ v.met[i] = w.met[i]
      <4> PICK met, next : met = w.met /\ next = Head(w.queue)
        OBVIOUS
      <4>1. met \in Seq(Visits(m, h)) /\ i \in DOMAIN met
        BY <2>3, <3>1
      <4>2. i \in DOMAIN Append(met, next) /\ Append(met, next)[i] = met[i]
        <5> HIDE DEF Visits
        <5> QED BY <4>1
      <4> QED BY <3>1, <3>2, <4>2
    <3> QED BY <3>1, <3>3
  <2>5. CASE ~Met(w) /\ Coming(w, k - 1)
    <3>1. PICK d \in S, depth \in Nat :
             /\ w.queue = <<[digest |-> d, depth |-> depth]>> /\ d + (k - 1) <= Len(m)
             /\ \A i \in DOMAIN w.met : d < w.met[i].digest
      BY <2>5
    <3> PICK next : next = [digest |-> d, depth |-> depth]
      OBVIOUS
    <3>2. Head(w.queue) = next /\ Tail(w.queue) = <<>> /\ w.queue # <<>> /\ next.digest = d
          /\ next.depth = depth
      BY <3>1
    <3>3. d \in Nat /\ d \in Digests(m) /\ d \in have
      BY <1>1
    <3>4. ~\E i \in DOMAIN w.met : w.met[i].digest = next.digest
      <4> SUFFICES ASSUME NEW i \in DOMAIN w.met, w.met[i].digest = d PROVE FALSE
        BY <3>2
      <4>1. d < d
        BY <3>1
      <4> QED BY <3>3, <4>1
    <3>5. /\ v.met = Append(w.met, next)
          /\ v.queue = <<>> \o [i \in DOMAIN m[d].parents |->
                                   [digest |-> m[d].parents[i], depth |-> depth + 1]]
      <4>1. v = Meet(m, have, next, <<>>, w.met)
        BY <2>2, <3>2 DEF Walk
      <4>2. v = [met |-> Append(w.met, next),
                 queue |-> <<>> \o [i \in DOMAIN m[next.digest].parents |->
                                      [digest |-> m[next.digest].parents[i], depth |-> next.depth + 1]]]
        BY <3>2, <3>3, <3>4, <4>1 DEF Meet
      <4> QED BY <3>2, <4>2
    <3> PICK met : met = w.met
      OBVIOUS
    <3>6. /\ DOMAIN v.met = DOMAIN met \cup {Len(met) + 1} /\ v.met[Len(met) + 1] = next
          /\ \A i \in DOMAIN met : v.met[i] = met[i]
      <4> HIDE DEF Visits
      <4> QED BY <2>3, <3>5
    <3>7. CASE d = 1
      <4>1. Met(v)
        BY <3>2, <3>6, <3>7
      <4> QED BY <4>1
    <3>8. CASE d # 1
      <4>1. PICK y \in S : m[d].parents = <<y>> /\ y < d
        BY <3>8
      <4>2. y \in Nat
        BY <1>1
      <4>3. v.queue = <<[digest |-> y, depth |-> depth + 1]>>
        BY <3>5, <4>1
      <4>4. y + k <= Len(m)
        BY <1>1, <2>1, <3>1, <3>3, <4>1, <4>2
      <4>5. ASSUME NEW i \in DOMAIN v.met PROVE y < v.met[i].digest
        <5>1. CASE i \in DOMAIN met
          <6>1. met[i] \in Visits(m, h)
            BY <2>3, <5>1, ElementIn
          <6>2. met[i].digest \in Nat /\ d < met[i].digest
            BY <1>1, <3>1, <5>1, <6>1 DEF Visits
          <6> QED BY <3>3, <3>6, <4>1, <4>2, <5>1, <6>2
        <5>2. CASE i = Len(met) + 1
          BY <3>2, <3>6, <4>1, <5>2
        <5> QED BY <3>6, <5>1, <5>2
      <4>6. Coming(v, k)
        <5>1. depth + 1 \in Nat
          OBVIOUS
        <5> QED BY <4>3, <4>4, <4>5, <5>1
      <4> QED BY <4>6
    <3> QED BY <3>7, <3>8
  <2> QED BY <1>4, <2>4, <2>5
<1> HIDE DEF Good
<1>5. Good(last)
  <2> DEFINE Bad == {k \in 0..last : ~Good(k)}
  <2>1. SUFFICES ASSUME Bad # {} PROVE FALSE
    BY <1>2
  <2>2. PICK n \in Bad : \A k \in Bad : n <= k
    <3>1. Bad \in SUBSET Nat
      BY <1>2
    <3> HIDE DEF Bad
    <3> QED BY <2>1, <3>1, Least
  <2>3. n \in 1..last /\ n - 1 \in 0..last
    <3>1. n \in 0..last /\ n # 0
      BY <1>3
    <3> QED BY <3>1, <1>2
  <2>4. Good(n - 1)
    <3>1. n - 1 \notin Bad
      <4> HIDE DEF Bad
      <4> QED BY <1>2, <2>2, <2>3
    <3> QED BY <2>3, <3>1
  <2> QED BY <1>4, <2>3, <2>4
<1>6. Met(turn[last])
  <2> SUFFICES ASSUME NEW d \in S, d + last <= Len(m) PROVE FALSE
    BY <1>5 DEF Good
  <2> QED BY <1>1, <1>2
<1> QED BY <1>6

-----------------------------------------------------------------------------
(* What the steps that mint do.                                             *)

\* buildOverlayHead changes the pod that pushes; it mints at most one head.
LEMMA BuildParts ==
  ASSUME IInv, NEW p \in Actors, Push(p) \/ Reopen(p)
  PROVE  /\ req[p] = Idle /\ UNCHANGED <<clock, req, held, full, index, crashes, acked>>
         /\ \A q \in Actors \ {p} : pod'[q] = pod[q]
         /\ pod'[p].upper = pod[p].upper /\ pod'[p].deleted = OverlayDeletions(p)
         /\ \/ minted' = minted /\ pod'[p].head = pod[p].head /\ pod'[p].has = pod[p].has
            \/ /\ minted' = Put(minted, OverlayHead(p))
               /\ pod'[p].head = DigestOf(minted, OverlayHead(p))
               /\ pod'[p].has = pod[p].has \cup {DigestOf(minted, OverlayHead(p))}
<1> PICK opening \in BOOLEAN : Build(p, opening)
  BY DEF Push, Reopen
<1>1. pod \in [Actors -> PodOver(Known)] /\ pod[p] \in PodOver(Known)
  BY DEF IInv, TypeOK, Known
<1>2. req[p] = Idle /\ UNCHANGED <<clock, req, held, full, index, crashes, acked>>
  BY DEF Build, storeVars
<1> PICK deletions, new, n :
      deletions = OverlayDeletions(p) /\ new = OverlayHead(p) /\ n = DigestOf(minted, new)
  OBVIOUS
<1>3. CASE Untouched(p) \/ SameAsHead(p)
  <2>1. /\ pod' = [pod EXCEPT ![p].at = "ask", ![p].opening = opening, ![p].deleted = deletions]
        /\ UNCHANGED minted
    BY <1>3 DEF Build
  <2> QED BY <1>1, <1>2, <2>1 DEF PodOver
<1>4. CASE ~(Untouched(p) \/ SameAsHead(p))
  <2>1. /\ pod' = [pod EXCEPT ![p].at = "manifest", ![p].head = n, ![p].has = @ \cup {n},
                              ![p].opening = opening, ![p].deleted = deletions]
        /\ minted' = Put(minted, new)
    BY <1>4 DEF Build
  <2> QED BY <1>1, <1>2, <2>1 DEF PodOver
<1> QED BY <1>3, <1>4

\* Merge-on-push joins two heads neither of which contains the other, or fails.
Joined(p) ==
    JoinOver(minted, req[p].cur, req[p].want, CommonAncestor(minted, held, req[p].cur, req[p].want))

LEMMA JoinParts ==
  ASSUME IInv, NEW p \in Actors, JoinHeads(p)
  PROVE  /\ req[p].at = "decide" /\ req[p].cur \in held /\ req[p].want \in held
         /\ ~IsAncestor(minted, held, req[p].cur, req[p].want)
         /\ ~IsAncestor(minted, held, req[p].want, req[p].cur)
         /\ UNCHANGED <<pod, clock, index, crashes, acked>>
         /\ Joined(p) \in ManifestOver(Known) /\ Joined(p).by = MergeActor
         /\ \/ UNCHANGED <<minted, held, full>> /\ req' = [req EXCEPT ![p] = Idle]
            \/ /\ minted' = Put(minted, Joined(p)) /\ held' = held \cup {DigestOf(minted, Joined(p))}
               /\ req' = [req EXCEPT ![p].at = "index", ![p].final = DigestOf(minted, Joined(p))]
<1> PICK a, b, base : a = req[p].cur /\ b = req[p].want /\ base = CommonAncestor(minted, held, a, b)
  OBVIOUS
<1>1. req[p].at = "decide" /\ Settled(p) = None /\ UNCHANGED <<pod, clock, index, crashes, acked>>
  BY DEF JoinHeads
<1>2. b \in Complete /\ a \in Complete \cup {None} /\ Complete \subseteq held
      /\ held \subseteq Known /\ Known \subseteq Nat /\ WellFormed(minted)
  BY <1>1 DEF IInv, RequestState, TypeOK, Complete, Known, WellFormed, Digests
<1>3. b # None
  <2>1. b \in Nat
    BY <1>2
  <2> QED BY <2>1, HeadMergeAssumption, Zenon
<1>4. a \in held /\ b \in held /\ ~IsAncestor(minted, held, a, b) /\ ~IsAncestor(minted, held, b, a)
  <2>1. a # None /\ a # b
    BY <1>1, <1>3 DEF Settled
  <2>2. ~IsAncestor(minted, held, b, a)
    BY <1>1, <2>1 DEF Settled
  <2>3. ~IsAncestor(minted, held, a, b)
    BY <1>1, <1>3, <2>1, <2>2 DEF Settled
  <2> QED BY <1>2, <2>1, <2>2, <2>3
<1>5. Joined(p) \in ManifestOver(Known) /\ Joined(p).by = MergeActor
  <2>1. JoinOver(minted, a, b, base) \in ManifestOver(Known)
    BY <1>2, <1>4, JoinedManifest DEF Known
  <2>2. JoinOver(minted, a, b, base).by = MergeActor
    BY DEF JoinOver, Join
  <2> QED BY <2>1, <2>2 DEF Joined
<1>6. MergeHeads(minted, held, a, b) = [all |-> Put(minted, Joined(p)), head |-> DigestOf(minted, Joined(p))]
  BY <1>4 DEF MergeHeads, Added, Joined
<1> PICK result : result = MergeHeads(minted, held, a, b)
  OBVIOUS
<1>7. \/ UNCHANGED <<minted, held, full>> /\ req' = [req EXCEPT ![p] = Idle]
      \/ /\ minted' = result.all /\ held' = held \cup {result.head}
         /\ req' = [req EXCEPT ![p].at = "index", ![p].final = result.head]
  BY DEF JoinHeads, Store
<1>8. result.all = Put(minted, Joined(p)) /\ result.head = DigestOf(minted, Joined(p))
  BY <1>6
<1> QED BY <1>1, <1>4, <1>5, <1>7, <1>8

\* Only a push and a merge mint.
LEMMA Mints ==
  ASSUME IInv, [Next]_vars
  PROVE  /\ WellFormed(minted') /\ Extends(minted', minted) /\ held \subseteq held'
         /\ Known \subseteq Known' /\ \A d \in Known : minted'[d] = minted[d]
         /\ \/ minted' = minted
            \/ \E p \in Actors : (Push(p) \/ Reopen(p)) /\ minted' = Put(minted, OverlayHead(p))
            \/ \E p \in Actors : JoinHeads(p) /\ minted' = Put(minted, Joined(p))
<1>1. \/ minted' = minted
      \/ \E p \in Actors : (Push(p) \/ Reopen(p)) /\ minted' = Put(minted, OverlayHead(p))
      \/ \E p \in Actors : JoinHeads(p) /\ minted' = Put(minted, Joined(p))
  <2>1. CASE \E p \in Actors : Push(p) \/ Reopen(p)
    BY <2>1, BuildParts
  <2>2. CASE \E p \in Actors : JoinHeads(p)
    BY <2>2, JoinParts
  <2>3. CASE ~(\E p \in Actors : Push(p) \/ Reopen(p) \/ JoinHeads(p))
    BY <2>3 DEF Next, vars, podVars, Write, Delete, PodStep, HandlerStep, Ask, SendManifest, SendLayers,
       TransferFails, Pull, Receive, Keep, LoadIndex, Truncate, Fill, Crash
  <2> QED BY <2>1, <2>2, <2>3
<1>2. WellFormed(minted)
  BY DEF IInv
<1>3. WellFormed(minted') /\ Extends(minted', minted)
  <2>1. CASE minted' = minted
    BY <1>2, <2>1 DEF Extends, WellFormed
  <2>2. ASSUME NEW p \in Actors, minted' = Put(minted, OverlayHead(p))
        PROVE  WellFormed(minted') /\ Extends(minted', minted)
    BY <1>2, <2>2, OverlayTyped, PutManifest DEF Known
  <2>3. ASSUME NEW p \in Actors, JoinHeads(p), minted' = Put(minted, Joined(p))
        PROVE  WellFormed(minted') /\ Extends(minted', minted)
    <3>1. Joined(p) \in ManifestOver(Known)
      BY <2>3, JoinParts
    <3> QED BY <1>2, <2>3, <3>1, PutManifest DEF Known
  <2> QED BY <1>1, <2>1, <2>2, <2>3
<1>4. held \subseteq held'
  <2>1. CASE \E p \in Actors : Push(p) \/ Reopen(p)
    BY <2>1, BuildParts
  <2>2. CASE \E p \in Actors : JoinHeads(p)
    BY <2>2, JoinParts
  <2>3. CASE ~(\E p \in Actors : Push(p) \/ Reopen(p) \/ JoinHeads(p))
    BY <2>3 DEF Next, vars, podVars, storeVars, Write, Delete, PodStep, HandlerStep, Ask, SendManifest,
       SendLayers, TransferFails, Pull, Receive, Keep, LoadIndex, Truncate, Fill, Crash
  <2> QED BY <2>1, <2>2, <2>3
<1>5. Known \subseteq Known' /\ \A d \in Known : minted'[d] = minted[d]
  BY <1>2, <1>3 DEF Extends, Known, Digests, WellFormed
<1> QED BY <1>1, <1>3, <1>4, <1>5

\* A pod keeps the manifests it has: it had none but its own before, either.
LEMMA HeadsStay ==
  ASSUME IInv, [Next]_vars, OwnHeads'
  PROVE  OwnHeads
<1>1. Known \subseteq Known' /\ \A d \in Known : minted'[d] = minted[d]
  BY Mints
<1>2. pod \in [Actors -> PodOver(Known)]
  BY DEF IInv, TypeOK, Known
<1>3. ASSUME NEW q \in Actors PROVE pod[q].has \subseteq pod'[q].has
  <2>1. CASE \E p \in Actors : Push(p) \/ Reopen(p)
    <3> PICK p \in Actors : Push(p) \/ Reopen(p)
      BY <2>1
    <3> QED BY BuildParts
  <2>2. CASE pod' = pod
    BY <2>2
  <2>3. ASSUME NEW p \in Actors, NEW path \in Paths, Write(p, path) \/ Delete(p, path)
        PROVE  pod[q].has \subseteq pod'[q].has
    <3>1. PICK time, stamp : pod' = [pod EXCEPT ![p].upper[path] = time, ![p].deleted[path] = stamp]
      BY <2>3 DEF Write, Delete
    <3> QED BY <1>2, <3>1 DEF PodOver
  <2>4. ASSUME NEW p \in Actors, Ask(p) \/ SendManifest(p) \/ SendLayers(p) \/ TransferFails(p)
        PROVE  pod[q].has \subseteq pod'[q].has
    <3>1. PICK at : pod' = [pod EXCEPT ![p].at = at]
      BY <2>4 DEF Ask, SendManifest, SendLayers, TransferFails
    <3> QED BY <1>2, <3>1 DEF PodOver
  <2>5. ASSUME NEW p \in Actors, Pull(p) PROVE pod[q].has \subseteq pod'[q].has
    <3> PICK remote : remote = GetRef(p)
      OBVIOUS
    <3>1. \/ pod' = [pod EXCEPT ![p].opening = FALSE]
          \/ pod' = [pod EXCEPT ![p].opening = FALSE, ![p].head = remote, ![p].base = remote,
                                ![p].has = @ \cup {remote}]
      BY <2>5 DEF Pull
    <3>2. pod[p] \in PodOver(Known)
      BY <1>2
    <3>3. pod[p].has \subseteq pod'[p].has
      BY <1>2, <3>1, <3>2 DEF PodOver
    <3>4. q # p => pod'[q] = pod[q]
      BY <1>2, <3>1
    <3> QED BY <3>3, <3>4
  <2>6. CASE \E p \in Actors : HandlerStep(p)
    BY <2>2, <2>6 DEF HandlerStep, Receive, Keep, JoinHeads, LoadIndex, Truncate, Fill, podVars
  <2>7. CASE Crash \/ UNCHANGED vars
    BY <2>2, <2>7 DEF Crash, vars, podVars
  <2> QED BY <2>1, <2>3, <2>4, <2>5, <2>6, <2>7 DEF Next, PodStep
<1>4. \A q \in Actors : pod[q].has \subseteq Known
  BY TimesTyped
<1> QED BY <1>1, <1>3, <1>4 DEF OwnHeads, MadeBy

-----------------------------------------------------------------------------
(* Whose whiteouts a manifest carries, and what they leave of a file.       *)

\* The whiteouts of the next head: the layer of its pod is replaced as a whole.
LEMMA OverlaidGone ==
  ASSUME IInv, NEW p \in Actors
  PROVE  /\ \A q \in Actors \ {p} : OverlayHead(p).gone[q] = minted[pod[p].head].gone[q]
         /\ OverlayHead(p).gone[p] = IF OverlayDeletions(p) = Blank THEN minted[pod[p].head].gone[p]
                                     ELSE OverlayDeletions(p)
<1>1. pod[p].head \in Known
  BY DEF IInv, TypeOK, Known, PodOver
<1>2. minted[pod[p].head].gone \in [Actors -> [Paths -> Nat]]
  BY <1>1 DEF IInv, TypeOK, Known, ManifestOver
<1> PICK gone, deletions : gone = minted[pod[p].head].gone /\ deletions = OverlayDeletions(p)
  OBVIOUS
<1>3. OverlayHead(p).gone = IF deletions = Blank THEN gone ELSE [gone EXCEPT ![p] = deletions]
  BY DEF OverlayHead, Overlaid
<1> QED BY <1>2, <1>3

\* In a pod's own manifests only its own whiteouts are found.
LEMMA OwnWhiteouts ==
  ASSUME IInv, Lineage, NEW p \in Actors, NEW d \in MadeBy(p), NEW q \in Actors \ {p}
  PROVE  minted[d].gone[q] = Blank
<1>1. CASE minted[d].by = p
  BY <1>1 DEF Lineage, MadeBy
<1>2. CASE minted[d].by = Publisher
  BY <1>2 DEF Lineage, MadeBy, Start, NoWhiteouts, Blank
<1> QED BY <1>1, <1>2 DEF MadeBy

LEMMA LineageStays ==
  ASSUME IInv, HeadHad, OwnHeads, Lineage, [Next]_vars
  PROVE  Lineage'
<1>1. Known \subseteq Known' /\ held \subseteq held' /\ \A d \in Known : minted'[d] = minted[d]
  BY Mints
<1>2. 1 \in Known /\ \A p \in Actors : MadeBy(p) \subseteq MadeBy(p)'
  BY <1>1 DEF Lineage, IInv, TypeOK, Known, MadeBy
<1>3. (minted[1] = Start /\ 1 \in held)'
  BY <1>1, <1>2 DEF Lineage
<1>4. MergeActor # Publisher /\ \A p \in Actors : p # Publisher /\ p # MergeActor
  BY HeadMergeAssumption DEF Publisher, MergeActor
<1>5. ASSUME NEW d \in Known' \ Known
      PROVE  /\ minted'[d].by # Publisher
             /\ \A p \in Actors : minted'[d].by = p =>
                   /\ \E y \in MadeBy(p)' : minted'[d].parents = <<y>>
                   /\ \A q \in Actors \ {p} : minted'[d].gone[q] = Blank
  <2>1. ASSUME NEW p \in Actors, minted' = Put(minted, OverlayHead(p))
        PROVE  /\ minted'[d].by = p /\ \E y \in MadeBy(p)' : minted'[d].parents = <<y>>
               /\ \A q \in Actors \ {p} : minted'[d].gone[q] = Blank
    <3>1. minted'[d] = OverlayHead(p)
      BY <1>5, <2>1, OverlayTyped, MintedBy
    <3>2. pod[p].head \in MadeBy(p)
      BY DEF HeadHad, OwnHeads
    <3>3. OverlayHead(p).by = p /\ OverlayHead(p).parents = <<pod[p].head>>
      BY DEF OverlayHead, Overlaid
    <3>4. \A q \in Actors \ {p} : OverlayHead(p).gone[q] = Blank
      BY <3>2, OverlaidGone, OwnWhiteouts
    <3> QED BY <1>2, <3>1, <3>2, <3>3, <3>4
  <2>2. ASSUME NEW p \in Actors, JoinHeads(p), minted' = Put(minted, Joined(p))
        PROVE  minted'[d].by = MergeActor
    <3>1. Joined(p) \in ManifestOver(Known) /\ Joined(p).by = MergeActor
      BY <2>2, JoinParts
    <3> QED BY <1>5, <2>2, <3>1, MintedBy
  <2>3. minted' # minted
    BY <1>5 DEF Known
  <2>4. CASE \E p \in Actors : minted' = Put(minted, OverlayHead(p))
    BY <1>4, <2>1, <2>4
  <2>5. CASE \E p \in Actors : JoinHeads(p) /\ minted' = Put(minted, Joined(p))
    BY <1>4, <2>2, <2>5
  <2> QED BY <2>3, <2>4, <2>5, Mints
<1>6. ASSUME NEW d \in Known
      PROVE  /\ minted'[d].by = Publisher => d = 1
             /\ \A p \in Actors : minted'[d].by = p =>
                   /\ \E y \in MadeBy(p)' : minted'[d].parents = <<y>>
                   /\ \A q \in Actors \ {p} : minted'[d].gone[q] = Blank
  BY <1>1, <1>2, <1>6 DEF Lineage
<1>7. (\A d \in Known : minted[d].by = Publisher => d = 1)'
  BY <1>5, <1>6
<1>8. ASSUME NEW d \in Known', NEW p \in Actors, minted'[d].by = p
      PROVE  /\ \E y \in MadeBy(p)' : minted'[d].parents = <<y>>
             /\ \A q \in Actors \ {p} : minted'[d].gone[q] = Blank
  BY <1>5, <1>6, <1>8
<1>9. Blank' = Blank
  BY DEF Blank
<1> QED BY <1>3, <1>7, <1>8, <1>9 DEF Lineage

\* What a deletion with this stamp left of the file in the manifest e of p.
Covers(e, p, path, stamp) ==
    IF minted[e].files[path] = None THEN stamp <= minted[e].gone[p][path]
    ELSE stamp <= minted[e].files[path].mtime

\* What is in the overlay is not older than a deletion with this stamp.
Supersedes(p, path, stamp) ==
    /\ stamp <= clock
    /\ pod[p].upper[path] # 0 => stamp <= pod[p].upper[path]
    /\ pod[p].deleted[path] > 0 => stamp <= pod[p].deleted[path]
    /\ pod[p].upper[path] = 0 /\ pod[p].deleted[path] = 0 => stamp = 0

\* A file that is not in the overlay was never deleted.
NeverDeleted(p, path, d) ==
    pod[p].upper[path] = 0 /\ pod[p].deleted[path] = 0 => minted[d].files[path] # None

\* Of a pod's own manifests, a newer one covers the deletions of an older one.
OwnStamps ==
    \A p \in Actors, path \in Paths :
        /\ pod[p].deleted[path] <= clock
        /\ \A d \in MadeBy(p) :
              /\ Supersedes(p, path, minted[d].gone[p][path]) /\ NeverDeleted(p, path, d)
              /\ \A e \in MadeBy(p) : d <= e => Covers(e, p, path, minted[d].gone[p][path])

\* A user writes or deletes a file: its overlay, and time, change.
LEMMA UserParts ==
  ASSUME IInv, NEW p \in Actors, NEW path \in Paths, Write(p, path) \/ Delete(p, path)
  PROVE  /\ UNCHANGED <<minted, req, held, full, index, crashes, acked>>
         /\ clock' \in Nat /\ clock <= clock' /\ clock' # 0
         /\ \A q \in Actors \ {p} : pod'[q] = pod[q]
         /\ pod'[p].has = pod[p].has /\ pod'[p].head = pod[p].head /\ pod'[p].at = pod[p].at
         /\ \A other \in Paths \ {path} : pod'[p].upper[other] = pod[p].upper[other]
                                          /\ pod'[p].deleted[other] = pod[p].deleted[other]
         /\ \/ pod'[p].upper[path] = clock' /\ pod'[p].deleted[path] = 0
            \/ pod'[p].upper[path] = 0 /\ pod'[p].deleted[path] = Unstamped
<1>1. pod \in [Actors -> PodOver(Known)] /\ clock \in Nat /\ MaxClock \in Nat
      /\ clock \in 1..MaxClock
  BY RefPushAssumption DEF IInv, TypeOK, Known
<1>2. UNCHANGED <<minted, req, held, full, index, crashes, acked>>
      /\ clock' \in Nat /\ clock <= clock' /\ clock' # 0
  <2>1. \A time \in Now : time \in Nat /\ clock <= time /\ time # 0
    BY <1>1 DEF Now
  <2> QED BY <2>1 DEF Write, Delete, storeVars
<1>3. pod[p] \in PodOver(Known) /\ pod[p].upper \in [Paths -> 0..MaxClock]
      /\ pod[p].deleted \in [Paths -> Unstamped..MaxClock]
  BY <1>1 DEF PodOver
<1>4. PICK time, stamp :
        /\ pod' = [pod EXCEPT ![p].upper[path] = time, ![p].deleted[path] = stamp]
        /\ (time = clock' /\ stamp = 0) \/ (time = 0 /\ stamp = Unstamped)
  BY DEF Write, Delete
<1> DEFINE mine == [pod[p] EXCEPT !.upper = [pod[p].upper EXCEPT ![path] = time],
                                  !.deleted = [pod[p].deleted EXCEPT ![path] = stamp]]
<1>5. pod' = [pod EXCEPT ![p] = mine]
  BY <1>1, <1>3, <1>4 DEF PodOver
<1>6. /\ mine.has = pod[p].has /\ mine.head = pod[p].head /\ mine.at = pod[p].at
      /\ mine.upper = [pod[p].upper EXCEPT ![path] = time]
      /\ mine.deleted = [pod[p].deleted EXCEPT ![path] = stamp]
  BY <1>3 DEF PodOver
<1> HIDE DEF mine
<1>7. pod'[p] = mine /\ \A q \in Actors \ {p} : pod'[q] = pod[q]
  BY <1>1, <1>5
<1>8. /\ mine.upper[path] = time /\ mine.deleted[path] = stamp
      /\ \A other \in Paths \ {path} : mine.upper[other] = pod[p].upper[other]
                                       /\ mine.deleted[other] = pod[p].deleted[other]
  BY <1>3, <1>6
<1> QED BY <1>2, <1>4, <1>6, <1>7, <1>8

LEMMA StampNat ==
  ASSUME IInv, NEW p \in Actors, NEW d \in MadeBy(p), NEW path \in Paths
  PROVE  minted[d].gone[p][path] \in Nat /\ d \in Nat /\ d \in Known
<1>1. d \in Known /\ WellFormed(minted)
  BY DEF MadeBy, IInv
<1> QED BY <1>1, StampIsNumber DEF Known, Digests, WellFormed

\* What a user does is not older than any deletion there is.
LEMMA UserStamps ==
  ASSUME IInv, OwnStamps, NEW p \in Actors, NEW path \in Paths, Write(p, path) \/ Delete(p, path)
  PROVE  OwnStamps'
<1>1. /\ minted' = minted /\ clock' \in Nat /\ clock <= clock' /\ clock' # 0 /\ clock \in Nat
      /\ \A q \in Actors \ {p} : pod'[q] = pod[q]
      /\ \A other \in Paths \ {path} : pod'[p].upper[other] = pod[p].upper[other]
                                       /\ pod'[p].deleted[other] = pod[p].deleted[other]
      /\ \/ pod'[p].upper[path] = clock' /\ pod'[p].deleted[path] = 0
         \/ pod'[p].upper[path] = 0 /\ pod'[p].deleted[path] = Unstamped
  BY UserParts, TimesTyped
<1>2. \A q \in Actors : MadeBy(q)' = MadeBy(q)
  BY <1>1 DEF MadeBy, Known
<1> SUFFICES ASSUME NEW q \in Actors, NEW other \in Paths
             PROVE  /\ pod'[q].deleted[other] <= clock'
                    /\ \A d \in MadeBy(q) :
                          /\ Supersedes(q, other, minted[d].gone[q][other])'
                          /\ NeverDeleted(q, other, d)'
                          /\ \A e \in MadeBy(q) : d <= e => Covers(e, q, other, minted[d].gone[q][other])'
  BY <1>1, <1>2 DEF OwnStamps
<1>3. pod[q].deleted[other] <= clock /\ pod[q].deleted[other] \in Int
      /\ (pod'[q].deleted[other] <= clock' \/ (q = p /\ other = path))
  BY <1>1, TimesTyped DEF OwnStamps
<1>4. pod'[q].deleted[other] <= clock'
  BY <1>1, <1>3 DEF Unstamped
<1>5. ASSUME NEW d \in MadeBy(q)
      PROVE  /\ Supersedes(q, other, minted[d].gone[q][other])'
             /\ NeverDeleted(q, other, d)'
             /\ \A e \in MadeBy(q) : d <= e => Covers(e, q, other, minted[d].gone[q][other])'
  <2> PICK stamp : stamp = minted[d].gone[q][other]
    OBVIOUS
  <2>1. stamp \in Nat /\ Supersedes(q, other, stamp) /\ NeverDeleted(q, other, d)
        /\ \A e \in MadeBy(q) : d <= e => Covers(e, q, other, stamp)
    BY StampNat DEF OwnStamps
  <2>2. Supersedes(q, other, stamp)' /\ NeverDeleted(q, other, d)'
    <3>1. CASE q = p /\ other = path
      BY <1>1, <2>1, <3>1 DEF Supersedes, NeverDeleted, Unstamped
    <3>2. CASE ~(q = p /\ other = path)
      <4>1. pod'[q].upper[other] = pod[q].upper[other] /\ pod'[q].deleted[other] = pod[q].deleted[other]
        BY <1>1, <3>2
      <4> QED BY <1>1, <2>1, <4>1 DEF Supersedes, NeverDeleted
    <3> QED BY <3>1, <3>2
  <2>3. \A e \in MadeBy(q) : d <= e => Covers(e, q, other, stamp)'
    BY <1>1, <2>1 DEF Covers
  <2> QED BY <1>1, <2>2, <2>3 DEF Covers, Supersedes
<1> QED BY <1>4, <1>5

\* A step that leaves the overlays, time and what the pods made alone.
LEMMA QuietStamps ==
  ASSUME IInv, OwnStamps, clock' = clock, \A d \in Known : minted'[d] = minted[d],
         \A q \in Actors : /\ MadeBy(q)' = MadeBy(q)
                           /\ pod'[q].upper = pod[q].upper /\ pod'[q].deleted = pod[q].deleted
  PROVE  OwnStamps'
<1> SUFFICES ASSUME NEW q \in Actors, NEW path \in Paths
             PROVE  /\ pod'[q].deleted[path] <= clock'
                    /\ \A d \in MadeBy(q) :
                          /\ Supersedes(q, path, minted[d].gone[q][path])'
                          /\ NeverDeleted(q, path, d)'
                          /\ \A e \in MadeBy(q) : d <= e => Covers(e, q, path, minted[d].gone[q][path])'
  BY DEF OwnStamps
<1>1. pod'[q].deleted[path] <= clock'
  BY DEF OwnStamps
<1>2. ASSUME NEW d \in MadeBy(q)
      PROVE  /\ Supersedes(q, path, minted[d].gone[q][path])'
             /\ NeverDeleted(q, path, d)'
             /\ \A e \in MadeBy(q) : d <= e => Covers(e, q, path, minted[d].gone[q][path])'
  <2> PICK stamp : stamp = minted[d].gone[q][path]
    OBVIOUS
  <2>1. /\ Supersedes(q, path, stamp) /\ NeverDeleted(q, path, d)
        /\ \A e \in MadeBy(q) : d <= e => Covers(e, q, path, stamp)
    BY DEF OwnStamps
  <2>2. \A e \in MadeBy(q) : minted'[e] = minted[e]
    BY DEF MadeBy
  <2>3. Supersedes(q, path, stamp)' /\ NeverDeleted(q, path, d)'
    BY <2>1, <2>2 DEF Supersedes, NeverDeleted
  <2>4. \A e \in MadeBy(q) : d <= e => Covers(e, q, path, stamp)'
    BY <2>1, <2>2 DEF Covers
  <2> QED BY <2>2, <2>3, <2>4 DEF Covers, Supersedes
<1> QED BY <1>1, <1>2

\* A push replaces the whiteout layer of its pod by deletions that are not older.
LEMMA BuildStamps ==
  ASSUME IInv, EditInv, OwnHeads, OwnStamps, NEW p \in Actors, Push(p) \/ Reopen(p)
  PROVE  OwnStamps'
<1> PICK new, n, deletions : /\ new = OverlayHead(p) /\ n = DigestOf(minted, new)
                             /\ deletions = OverlayDeletions(p)
  OBVIOUS
<1>1. /\ clock' = clock /\ \A q \in Actors \ {p} : pod'[q] = pod[q]
      /\ pod'[p].upper = pod[p].upper /\ pod'[p].deleted = deletions
      /\ minted' = minted \/ minted' = Put(minted, new)
  BY BuildParts
<1>2. WellFormed(minted) /\ new \in ManifestOver(Known) /\ clock \in Nat /\ clock > 0
  BY OverlayTyped DEF IInv, TypeOK
<1>3. ASSUME NEW path \in Paths
      PROVE  /\ pod[p].upper[path] \in Nat /\ pod[p].deleted[path] \in Int
             /\ pod[p].deleted[path] <= clock
             /\ deletions[path] = IF pod[p].deleted[path] = -1 THEN clock ELSE pod[p].deleted[path]
             /\ pod[p].upper[path] # 0 => pod[p].deleted[path] = 0
             /\ pod[p].deleted[path] > 0 \/ pod[p].deleted[path] = 0 \/ pod[p].deleted[path] = -1
  BY TimesTyped, OverlaidFile DEF OwnStamps, EditInv, Timely, Unstamped
\* With deletions stamped, the overlay of every pod supersedes what it did.
<1>4. ASSUME NEW q \in Actors, NEW path \in Paths
      PROVE  /\ pod'[q].deleted[path] <= clock'
             /\ \A stamp \in Nat : Supersedes(q, path, stamp) => Supersedes(q, path, stamp)'
             /\ pod'[q].upper[path] = 0 /\ pod'[q].deleted[path] = 0
                   => pod[q].upper[path] = 0 /\ pod[q].deleted[path] = 0
  <2>1. CASE q = p
    BY <1>1, <1>2, <1>3, <2>1 DEF Supersedes
  <2>2. CASE q # p
    BY <1>1, <2>2 DEF Supersedes, OwnStamps
  <2> QED BY <2>1, <2>2
<1>5. ASSUME NEW q \in Actors, NEW path \in Paths, NEW d \in MadeBy(q)
      PROVE  /\ minted'[d] = minted[d] /\ minted[d].gone[q][path] \in Nat
             /\ Supersedes(q, path, minted[d].gone[q][path])'
             /\ NeverDeleted(q, path, d)'
             /\ \A e \in MadeBy(q) : d <= e => Covers(e, q, path, minted[d].gone[q][path])'
  <2> PICK stamp : stamp = minted[d].gone[q][path]
    OBVIOUS
  <2>1. stamp \in Nat /\ d \in Known
    BY StampNat
  <2>2. /\ Supersedes(q, path, stamp) /\ NeverDeleted(q, path, d)
        /\ \A e \in MadeBy(q) : d <= e => Covers(e, q, path, stamp)
    BY DEF OwnStamps
  <2>3. \A e \in Known : minted'[e] = minted[e]
    BY <1>1, <1>2, MintedBy
  <2>4. Supersedes(q, path, stamp)' /\ NeverDeleted(q, path, d)'
    BY <1>4, <2>1, <2>2, <2>3 DEF NeverDeleted
  <2>5. \A e \in MadeBy(q) : d <= e => Covers(e, q, path, stamp)'
    BY <2>2, <2>3 DEF Covers, MadeBy
  <2> QED BY <2>1, <2>3, <2>4, <2>5 DEF Covers, Supersedes
<1>6. CASE minted' = minted
  <2>1. \A q \in Actors : MadeBy(q)' = MadeBy(q)
    BY <1>6 DEF MadeBy, Known
  <2> QED BY <1>4, <1>5, <1>6, <2>1 DEF OwnStamps
<1>7. CASE minted' # minted
  <2>1. Known' = Known \cup {n} /\ minted'[n] = new /\ n \in Nat /\ \A d \in Known : d \in Nat /\ d < n
    <3>1. ~\E d \in Digests(minted) : minted[d] = new
      BY <1>1, <1>7 DEF Put
    <3>2. n = Len(minted) + 1 /\ minted' = Append(minted, new) /\ Len(minted) \in Nat
      BY <1>1, <1>2, <1>7, <3>1 DEF DigestOf, Put, WellFormed
    <3>3. new \in ManifestOver(Nat)
      BY <1>2, ManifestWiden DEF Known, Digests, WellFormed
    <3> QED BY <1>2, <3>2, <3>3 DEF Known, Digests, WellFormed
  <2>2. \A d \in Known : minted'[d] = minted[d]
    BY <1>1, <1>2, MintedBy
  <2>3. new.by = p /\ p # Publisher
    BY OverlaidFile, HeadMergeAssumption DEF Publisher, OverlayHead, Overlaid
  <2>4. /\ MadeBy(p)' = MadeBy(p) \cup {n}
        /\ \A q \in Actors \ {p} : MadeBy(q)' = MadeBy(q)
    BY <2>1, <2>2, <2>3 DEF MadeBy
  <2>5. pod[p].head \in MadeBy(p)
    BY DEF EditInv, HeadHad, OwnHeads
  <2>6. ASSUME NEW path \in Paths
        PROVE  /\ new.gone[p][path] \in Nat
               /\ Supersedes(p, path, new.gone[p][path])'
               /\ NeverDeleted(p, path, n)'
    <3> PICK last, h : h = pod[p].head /\ last = minted[h]
      OBVIOUS
    <3>1. /\ Supersedes(p, path, last.gone[p][path])' /\ last.gone[p][path] \in Nat
          /\ NeverDeleted(p, path, h)' /\ minted'[h] = last
      <4>1. /\ Supersedes(p, path, minted[h].gone[p][path])' /\ NeverDeleted(p, path, h)'
            /\ minted[h].gone[p][path] \in Nat /\ minted'[h] = minted[h]
        BY <1>5, <2>5
      <4> QED BY <4>1 DEF Supersedes
    <3>3. new.gone[p] = IF deletions = Blank THEN last.gone[p] ELSE deletions
      BY OverlaidGone
    <3>4. new.files[path] = IF pod[p].upper[path] # 0 THEN [mtime |-> pod[p].upper[path], actor |-> p]
                            ELSE IF deletions[path] # 0 THEN None ELSE last.files[path]
      BY OverlaidFile
    <3>5. /\ new.gone[p][path] \in Nat /\ Supersedes(p, path, new.gone[p][path])'
      <4>1. CASE deletions = Blank
        BY <3>1, <3>3, <4>1
      <4>2. CASE deletions # Blank
        <5>1. new.gone[p][path] = deletions[path]
          BY <3>3, <4>2
        <5>2. deletions[path] \in Nat /\ deletions[path] <= clock
          BY <1>2, <1>3
        <5>3. pod[p].upper[path] # 0 => deletions[path] = 0
          BY <1>3
        <5>4. Supersedes(p, path, deletions[path])'
          BY <1>1, <1>3, <5>2, <5>3 DEF Supersedes
        <5> QED BY <5>1, <5>2, <5>4
      <4> QED BY <4>1, <4>2
    <3>6. NeverDeleted(p, path, n)'
      <4> SUFFICES ASSUME pod'[p].upper[path] = 0, pod'[p].deleted[path] = 0 PROVE new.files[path] # None
        BY <2>1 DEF NeverDeleted
      <4>1. new.files[path] = last.files[path]
        BY <1>1, <3>4
      <4> QED BY <3>1, <4>1 DEF NeverDeleted
    <3> QED BY <3>5, <3>6
  <2>7. ASSUME NEW path \in Paths, NEW stamp \in Nat, Supersedes(p, path, stamp)'
        PROVE  Covers(n, p, path, stamp)'
    <3>1. CASE pod[p].upper[path] # 0
      <4>1. new.files[path] = [mtime |-> pod[p].upper[path], actor |-> p]
        BY <3>1, OverlaidFile
      <4>2. new.files[path] # None
        <5>1. [mtime |-> pod[p].upper[path], actor |-> p] \in Register
          BY <1>3 DEF Register
        <5> QED BY <4>1, <5>1, RefPushAssumption
      <4> QED BY <1>1, <2>1, <2>7, <3>1, <4>1, <4>2 DEF Covers, Supersedes
    <3>2. CASE pod[p].upper[path] = 0 /\ deletions[path] # 0
      <4>1. new.files[path] = None
        BY <3>2, OverlaidFile
      <4>2. new.gone[p][path] = deletions[path]
        BY <3>2, OverlaidFile
      <4>3. deletions[path] > 0
        BY <1>2, <1>3, <3>2
      <4> QED BY <1>1, <2>1, <2>7, <4>1, <4>2, <4>3 DEF Covers, Supersedes
    <3>3. CASE pod[p].upper[path] = 0 /\ deletions[path] = 0
      <4>1. stamp = 0
        BY <1>1, <2>7, <3>3 DEF Supersedes
      <4>2. new.files[path] # None
        BY <1>1, <2>1, <2>6, <3>3 DEF NeverDeleted
      <4>3. new.files[path] \in Register
        BY <1>2, <4>2 DEF ManifestOver
      <4>4. new.files[path].mtime \in Nat
        BY <4>3, RegisterNumbers
      <4> QED BY <2>1, <4>1, <4>2, <4>4 DEF Covers
    <3> QED BY <3>1, <3>2, <3>3
  <2>8. ASSUME NEW q \in Actors, NEW path \in Paths, NEW d \in MadeBy(q)'
        PROVE  /\ Supersedes(q, path, minted[d].gone[q][path])'
               /\ NeverDeleted(q, path, d)'
               /\ \A e \in MadeBy(q)' : d <= e => Covers(e, q, path, minted[d].gone[q][path])'
    <3>1. CASE q # p
      <4>1. d \in MadeBy(q) /\ MadeBy(q)' = MadeBy(q)
        BY <2>4, <3>1
      <4> QED BY <1>5, <4>1 DEF Covers, Supersedes
    <3>2. CASE q = p /\ d \in MadeBy(p)
      <4> PICK stamp : stamp = minted[d].gone[p][path]
        OBVIOUS
      <4>1. /\ minted'[d] = minted[d] /\ stamp \in Nat /\ Supersedes(p, path, stamp)'
            /\ NeverDeleted(p, path, d)'
            /\ \A e \in MadeBy(p) : d <= e => Covers(e, p, path, stamp)'
        <5>1. /\ minted'[d] = minted[d] /\ minted[d].gone[p][path] \in Nat
              /\ Supersedes(p, path, minted[d].gone[p][path])' /\ NeverDeleted(p, path, d)'
              /\ \A e \in MadeBy(p) : d <= e => Covers(e, p, path, minted[d].gone[p][path])'
          BY <1>5, <3>2
        <5> QED BY <5>1 DEF Covers, Supersedes
      <4>2. Covers(n, p, path, stamp)'
        BY <2>7, <4>1
      <4>3. \A e \in MadeBy(p)' : d <= e => Covers(e, p, path, stamp)'
        BY <2>4, <4>1, <4>2
      <4> QED BY <3>2, <4>1, <4>3 DEF Covers, Supersedes
    <3>3. CASE q = p /\ d = n
      <4> PICK stamp : stamp = new.gone[p][path]
        OBVIOUS
      <4>1. stamp \in Nat /\ Supersedes(p, path, stamp)' /\ NeverDeleted(p, path, n)'
        <5>1. new.gone[p][path] \in Nat /\ Supersedes(p, path, new.gone[p][path])' /\ NeverDeleted(p, path, n)'
          BY <2>6
        <5> QED BY <5>1 DEF Supersedes
      <4>2. Covers(n, p, path, stamp)'
        BY <2>7, <4>1
      <4>3. \A e \in MadeBy(p)' : n <= e => e = n
        BY <2>1, <2>4 DEF MadeBy
      <4> QED BY <2>1, <3>3, <4>1, <4>2, <4>3 DEF Covers, Supersedes
    <3> QED BY <2>4, <3>1, <3>2, <3>3
  <2> QED BY <1>4, <2>8 DEF OwnStamps
<1> QED BY <1>6, <1>7

\* Only the pods' own pushes and their users' edits touch their deletions.
LEMMA StampsStay ==
  ASSUME IInv, EditInv, OwnHeads, OwnStamps, [Next]_vars
  PROVE  OwnStamps'
<1>1. pod \in [Actors -> PodOver(Known)]
  BY DEF IInv, TypeOK, Known
<1>2. CASE \E p \in Actors, path \in Paths : Write(p, path) \/ Delete(p, path)
  BY <1>2, UserStamps
<1>3. CASE \E p \in Actors : Push(p) \/ Reopen(p)
  BY <1>3, BuildStamps
<1>4. ASSUME NEW p \in Actors, JoinHeads(p) PROVE OwnStamps'
  <2>1. UNCHANGED <<pod, clock>> /\ Joined(p) \in ManifestOver(Known) /\ Joined(p).by = MergeActor
        /\ (minted' = minted \/ minted' = Put(minted, Joined(p)))
    BY <1>4, JoinParts
  <2>2. /\ Known \subseteq Known' /\ \A d \in Known : minted'[d] = minted[d]
        /\ \A d \in Known' : d \in Known \/ minted'[d] = Joined(p)
    <3>1. CASE minted' = minted
      BY <3>1 DEF Known
    <3>2. CASE minted' = Put(minted, Joined(p))
      BY <2>1, <3>2, MintedBy
    <3> QED BY <2>1, <3>1, <3>2
  <2>3. \A q \in Actors : MergeActor \notin {q, Publisher}
    BY HeadMergeAssumption DEF MergeActor, Publisher
  <2>4. \A q \in Actors : MadeBy(q)' = MadeBy(q)
    BY <2>1, <2>2, <2>3 DEF MadeBy
  <2> QED BY <2>1, <2>2, <2>4, QuietStamps
<1>5. ASSUME UNCHANGED <<minted, clock>>,
             \A q \in Actors : pod'[q].upper = pod[q].upper /\ pod'[q].deleted = pod[q].deleted
      PROVE  OwnStamps'
  BY <1>5, QuietStamps DEF MadeBy, Known
<1>6. ASSUME NEW p \in Actors, Ask(p) \/ SendManifest(p) \/ SendLayers(p) \/ TransferFails(p) \/ Pull(p)
      PROVE  OwnStamps'
  <2>1. UNCHANGED <<minted, clock>>
    BY <1>6 DEF Ask, SendManifest, SendLayers, TransferFails, Pull
  <2>2. pod[p] \in PodOver(Known)
    BY <1>1
  <2>3. /\ \A q \in Actors \ {p} : pod'[q] = pod[q]
        /\ pod'[p].upper = pod[p].upper /\ pod'[p].deleted = pod[p].deleted
    <3>1. CASE Ask(p) \/ SendManifest(p) \/ SendLayers(p) \/ TransferFails(p)
      <4>1. PICK at : pod' = [pod EXCEPT ![p].at = at]
        BY <3>1 DEF Ask, SendManifest, SendLayers, TransferFails
      <4> QED BY <1>1, <2>2, <4>1 DEF PodOver
    <3>2. CASE Pull(p)
      <4> PICK remote : remote = GetRef(p)
        OBVIOUS
      <4>1. \/ pod' = [pod EXCEPT ![p].opening = FALSE]
            \/ pod' = [pod EXCEPT ![p].opening = FALSE, ![p].head = remote, ![p].base = remote,
                                  ![p].has = @ \cup {remote}]
        BY <3>2 DEF Pull
      <4> QED BY <1>1, <2>2, <4>1 DEF PodOver
    <3> QED BY <1>6, <3>1, <3>2
  <2> QED BY <1>5, <2>1, <2>3
<1>7. ASSUME UNCHANGED <<minted, clock, pod>> PROVE OwnStamps'
  BY <1>5, <1>7
<1>8. ASSUME NEW p \in Actors, HandlerStep(p), ~JoinHeads(p) PROVE OwnStamps'
  BY <1>7, <1>8 DEF HandlerStep, Receive, Keep, LoadIndex, Truncate, Fill, podVars
<1>9. CASE Crash \/ UNCHANGED vars
  BY <1>7, <1>9 DEF Crash, vars, podVars
<1> QED BY <1>2, <1>3, <1>4, <1>6, <1>8, <1>9 DEF Next, PodStep

-----------------------------------------------------------------------------
(* What is stored and put of a pod's own heads is in its head's history.    *)
\* The index i lists, of a pod's own heads, only those its head goes back to.
Tied(i) ==
    \A p \in Actors, r \in Refs :
        i[r] # None /\ minted[i[r]].by = p => r = Basis[p] /\ InHistory(minted, i[r], pod[p].head)
Listed(i) == \A r \in Refs : i[r] # None
\* What the put of p may settle on: a merge, the head that is there or the pod's.
Settles(p, head) ==
    \/ minted[head].by = MergeActor
    \/ head = pod[p].head
    \/ index # Torn /\ head = index[Basis[p]]
TiedPut(p) ==
    LET put == req[p]
    IN  /\ put.at # "none" => put.want = pod[p].head
        /\ put.at = "index" => Settles(p, put.final)
        /\ put.at = "truncate" =>
              /\ Settles(p, put.snap[Basis[p]]) /\ put.snap = [index EXCEPT ![Basis[p]] = put.snap[Basis[p]]]
        /\ put.at = "fill" => Tied(put.snap)
        /\ put.at \in {"truncate", "fill"} => Listed(put.snap)
Tieds == (index # Torn => Tied(index) /\ Listed(index)) /\ \A p \in Actors : TiedPut(p)

\* A pod's head moves on along its history.
LEMMA TiedOn ==
  ASSUME IInv, WellFormed(minted'), Extends(minted', minted), NEW i \in IndexOver(Known), Tied(i),
         \A q \in Actors : InHistory(minted', pod[q].head, pod'[q].head)
  PROVE  Tied(i)'
<1> SUFFICES ASSUME NEW p \in Actors, NEW r \in Refs, i[r] # None, minted'[i[r]].by = p
             PROVE  r = Basis[p] /\ InHistory(minted', i[r], pod'[p].head)
  BY DEF Tied
<1>1. i[r] \in Known
  BY DEF IndexOver
<1>2. r = Basis[p] /\ InHistory(minted, i[r], pod[p].head)
  BY <1>1 DEF Tied, Extends, Known
<1>3. pod[p].head \in Known /\ WellFormed(minted) /\ Known \subseteq Known'
  BY Widen, TimesTyped DEF IInv
<1>4. IsAncestor(minted, Digests(minted), i[r], pod[p].head) /\ pod[p].head \in Digests(minted)
      /\ Digests(minted) \subseteq Digests(minted')
  BY <1>2, <1>3 DEF InHistory, Known
<1>5. IsAncestor(minted', Digests(minted'), i[r], pod[p].head)
  <2> HIDE DEF Known
  <2> QED BY <1>3, <1>4, FoundStays
<1>6. IsAncestor(minted', Digests(minted'), pod[p].head, pod'[p].head) /\ pod[p].head \in Digests(minted')
  BY <1>4 DEF InHistory
<1> QED BY <1>2, <1>5, <1>6, FoundThrough DEF InHistory

\* The index stays; puts stay too or are tied again.
LEMMA TiedsMove ==
  ASSUME IInv, Tieds, WellFormed(minted'), Extends(minted', minted), index' = index,
         \A q \in Actors : InHistory(minted', pod[q].head, pod'[q].head),
         \A q \in Actors : \/ req'[q] = req[q] /\ (req[q].at = "none" \/ pod'[q].head = pod[q].head)
                           \/ TiedPut(q)'
  PROVE  Tieds'
<1>1. ASSUME index' # Torn PROVE Tied(index)' /\ Listed(index)'
  <2>1. PICK i : i = index
    OBVIOUS
  <2>2. i \in IndexOver(Known) /\ Tied(i) /\ Listed(i) /\ i = index'
    BY <1>1, <2>1 DEF IInv, TypeOK, Tieds, Known
  <2>3. Tied(i)'
    BY <2>2, TiedOn
  <2> QED BY <2>2, <2>3 DEF Tied, Listed
<1>2. ASSUME NEW q \in Actors PROVE TiedPut(q)'
  <2> SUFFICES ASSUME req'[q] = req[q], req[q].at = "none" \/ pod'[q].head = pod[q].head PROVE TiedPut(q)'
    OBVIOUS
  <2>1. TiedPut(q) /\ RequestState
    BY DEF Tieds, IInv
  <2>2. CASE req[q].at = "none"
    BY <2>2 DEF TiedPut
  <2>3. CASE req[q].at # "none"
    <3>1. pod'[q].head = pod[q].head
      BY <2>3
    <3>2. ASSUME NEW head \in Known, Settles(q, head) PROVE Settles(q, head)'
      BY <3>1, <3>2 DEF Settles, Extends, Known
    <3>3. req'[q].want = pod'[q].head
      BY <2>1, <2>3, <3>1 DEF TiedPut
    <3>0. req'[q].at \in {"truncate", "fill"} => Listed(req'[q].snap)
      BY <2>1, <2>3 DEF TiedPut
    <3>4. ASSUME req'[q].at = "index" PROVE Settles(q, req[q].final)'
      <4>1. PICK final : final = req[q].final
        OBVIOUS
      <4>2. final \in Known /\ Settles(q, final) /\ final = req'[q].final
        BY <2>1, <3>4, <4>1 DEF TiedPut, RequestState, Complete, IInv, TypeOK, Known
      <4>3. Settles(q, final)'
        BY <3>2, <4>2
      <4> QED BY <4>2, <4>3 DEF Settles
    <3>5. ASSUME req'[q].at = "truncate"
          PROVE  Settles(q, req[q].snap[Basis[q]])'
                 /\ req'[q].snap = [index' EXCEPT ![Basis[q]] = req'[q].snap[Basis[q]]]
      <4>1. PICK final : final = req[q].snap[Basis[q]]
        OBVIOUS
      <4>2. final \in Complete /\ Settles(q, final) /\ final = req'[q].snap[Basis[q]]
        BY <2>1, <3>5, <4>1, RefPushAssumption DEF TiedPut, RequestState, IndexOver, Listed
      <4>3. final \in Known
        BY <4>2 DEF Complete, IInv, TypeOK, Known
      <4>4. Settles(q, final)'
        BY <3>2, <4>2, <4>3
      <4> QED BY <2>1, <3>5, <4>2, <4>4 DEF Settles, TiedPut
    <3>6. ASSUME req'[q].at = "fill" PROVE Tied(req[q].snap)'
      <4>1. PICK i : i = req[q].snap
        OBVIOUS
      <4>2. i \in IndexOver(Complete) /\ Tied(i) /\ i = req'[q].snap
        BY <2>1, <3>6, <4>1 DEF TiedPut, RequestState
      <4>3. i \in IndexOver(Known)
        BY <4>2 DEF IndexOver, Complete, IInv, TypeOK, Known
      <4>4. Tied(i)'
        BY <4>2, <4>3, TiedOn
      <4> QED BY <4>2, <4>4 DEF Tied
    <3> QED BY <3>0, <3>3, <3>4, <3>5, <3>6 DEF TiedPut
  <2> QED BY <2>2, <2>3
<1> QED BY <1>1, <1>2 DEF Tieds

\* Adding manifests, which leaves the heads of pods alone.
LEMMA HeadsAlone ==
  ASSUME IInv, NEW p \in Actors, pod'[p].head = pod[p].head
  PROVE  InHistory(minted', pod[p].head, pod'[p].head)
BY SelfFound DEF InHistory

\* buildOverlayHead mints on the pod's head.
LEMMA BuildHead ==
  ASSUME IInv, NEW p \in Actors, Push(p) \/ Reopen(p)
  PROVE  InHistory(minted', pod[p].head, pod'[p].head)
<1>1. \/ minted' = minted /\ pod'[p].head = pod[p].head
      \/ minted' = Put(minted, OverlayHead(p)) /\ pod'[p].head = DigestOf(minted, OverlayHead(p))
  BY BuildParts
<1>2. CASE pod'[p].head = pod[p].head
  BY <1>2, HeadsAlone
<1>3. CASE minted' = Put(minted, OverlayHead(p)) /\ pod'[p].head = DigestOf(minted, OverlayHead(p))
  <2>1. pod[p].head \in Digests(minted) /\ OverlayHead(p) \in ManifestOver(Digests(minted))
        /\ OverlayHead(p).parents = <<pod[p].head>> /\ WellFormed(minted)
    BY OverlayTyped, TimesTyped DEF Known, OverlayHead, Overlaid
  <2>2. 1 \in DOMAIN OverlayHead(p).parents /\ OverlayHead(p).parents[1] = pod[p].head
    BY <2>1
  <2>3. InHistory(minted, pod[p].head, OverlayHead(p).parents[1])
    BY <2>2, SelfFound DEF InHistory
  <2> QED BY <1>3, <2>1, <2>2, <2>3, NewHistory
<1> QED BY <1>1, <1>2, <1>3

\* A push starts while the pod has no put.
LEMMA BuildTieds ==
  ASSUME IInv, Tieds, NEW p \in Actors, Push(p) \/ Reopen(p)
  PROVE  Tieds'
<1>1. /\ req[p] = Idle /\ UNCHANGED <<req, index>>
      /\ \A q \in Actors \ {p} : pod'[q] = pod[q]
  BY BuildParts
<1>2. WellFormed(minted') /\ Extends(minted', minted)
  BY Mints DEF Next, PodStep
<1>3. \A q \in Actors : InHistory(minted', pod[q].head, pod'[q].head)
  BY <1>1, BuildHead, HeadsAlone
<1>4. \A q \in Actors : req'[q] = req[q] /\ (req[q].at = "none" \/ pod'[q].head = pod[q].head)
  BY <1>1 DEF Idle
<1> QED BY <1>1, <1>2, <1>3, <1>4, TiedsMove

\* Users edit, pods ask and send, and the manager takes up a put.
LEMMA QuietTieds ==
  ASSUME IInv, Tieds, NEW p \in Actors,
         \/ \E path \in Paths : Write(p, path) \/ Delete(p, path)
         \/ Ask(p) \/ SendManifest(p) \/ SendLayers(p) \/ TransferFails(p) \/ Receive(p)
  PROVE  Tieds'
<1>1. /\ UNCHANGED <<minted, index>>
      /\ \A q \in Actors : pod'[q].head = pod[q].head
      /\ \A q \in Actors \ {p} : req'[q] = req[q]
      /\ \/ req'[p] = req[p] \/ (req'[p].at = "sent" /\ req'[p].want = pod[p].head)
         \/ (req'[p].at = "decide" /\ req'[p].want = req[p].want /\ req[p].at = "sent")
  <2>1. pod \in [Actors -> PodOver(Known)] /\ req \in [Actors -> RequestOver(Known)]
    BY DEF IInv, TypeOK, Known
  <2>2. pod[p] \in PodOver(Known) /\ req[p] \in RequestOver(Known)
    BY <2>1
  <2>3. CASE \E path \in Paths : Write(p, path) \/ Delete(p, path)
    BY <2>3, UserParts
  <2>4. CASE Ask(p) \/ SendManifest(p) \/ TransferFails(p)
    BY <2>1, <2>2, <2>4 DEF Ask, SendManifest, TransferFails, PodOver, storeVars
  <2>5. CASE SendLayers(p)
    BY <2>1, <2>2, <2>5 DEF SendLayers, PodOver, Idle, RequestOver
  <2>6. CASE Receive(p)
    BY <2>1, <2>2, <2>6 DEF Receive, RequestOver, podVars, storeVars
  <2> QED BY <2>3, <2>4, <2>5, <2>6
<1>2. WellFormed(minted') /\ Extends(minted', minted)
  BY <1>1 DEF IInv, Extends, WellFormed
<1>3. TiedPut(p) /\ RequestState
  BY DEF Tieds, IInv
<1>4. req'[p] = req[p] \/ TiedPut(p)'
  BY <1>1, <1>3 DEF TiedPut
<1> QED BY <1>1, <1>2, <1>4, HeadsAlone, TiedsMove

\* A pod takes up the head of its ref; its own heads are listed nowhere else.
LEMMA PullTieds ==
  ASSUME IInv, HInv, crashes = 0, Tieds, NEW p \in Actors, Pull(p)
  PROVE  Tieds'
<1>1. /\ UNCHANGED <<minted, req, index>> /\ req[p] = Idle
      /\ \A q \in Actors \ {p} : pod'[q] = pod[q]
      /\ pod'[p].head = pod[p].head \/ (pod'[p].head = GetRef(p) /\ GetRef(p) # None)
  <2>1. pod \in [Actors -> PodOver(Known)]
    BY DEF IInv, TypeOK, Known
  <2>2. pod[p] \in PodOver(Known)
    BY <2>1
  <2> QED BY <2>1, <2>2 DEF Pull, storeVars, PodOver
<1>2. WellFormed(minted') /\ Extends(minted', minted)
  BY <1>1 DEF IInv, Extends, WellFormed
<1>3. CASE pod'[p].head = pod[p].head
  BY <1>1, <1>2, <1>3, HeadsAlone, TiedsMove DEF Idle
<1>4. CASE pod'[p].head = GetRef(p) /\ GetRef(p) # None
  <2>1. index # Torn /\ pod'[p].head = index[Basis[p]] /\ Basis[p] \in Refs
    BY <1>4, RefPushAssumption DEF GetRef, ReadIndex
  <2>2. \A q \in Actors : req[q].at # "fill"
    BY <2>1 DEF HInv, TornWhileFilling
  <2>3. Tied(index) /\ Listed(index)
    BY <2>1 DEF Tieds
  <2>4. Tied(index)'
    <3> SUFFICES ASSUME NEW q \in Actors, NEW r \in Refs, index[r] # None, minted[index[r]].by = q
                 PROVE  r = Basis[q] /\ InHistory(minted, index[r], pod'[q].head)
      BY <1>1 DEF Tied, InHistory
    <3>1. r = Basis[q] /\ InHistory(minted, index[r], pod[q].head)
      BY <2>3 DEF Tied
    <3> QED BY <1>1, <2>1, <3>1, SelfFound DEF InHistory
  <2>5. \A q \in Actors : TiedPut(q)'
    BY <1>1, <2>2 DEF Tieds, TiedPut, Settles, Idle, Listed
  <2> QED BY <1>1, <2>3, <2>4, <2>5 DEF Tieds, Listed
<1> QED BY <1>1, <1>3, <1>4

\* A put that is settled or given up; what it settles on was there or the pod's.
LEMMA SettleTieds ==
  ASSUME IInv, HInv, crashes = 0, Tieds, NEW p \in Actors, Keep(p) \/ JoinHeads(p)
  PROVE  Tieds'
<1>1. Handling(p) /\ req[p].at = "decide" /\ req[p] \in RequestOver(Known)
  BY DEF Keep, JoinHeads, Handling, IInv, TypeOK, Known
<1>2. index # Torn /\ req[p].cur = index[Basis[p]] /\ req[p].want = pod[p].head /\ TiedPut(p)
  BY <1>1, Handled DEF HandlerKeeps, Tieds, TiedPut
<1>3. /\ UNCHANGED <<pod, index>> /\ \A q \in Actors \ {p} : req'[q] = req[q]
      /\ WellFormed(minted') /\ Extends(minted', minted)
      /\ req \in [Actors -> RequestOver(Known)]
  <2>1. WellFormed(minted') /\ Extends(minted', minted)
    BY Mints DEF Next, HandlerStep
  <2>2. CASE Keep(p)
    BY <2>1, <2>2 DEF Keep, podVars, storeVars, IInv, TypeOK, Known
  <2>3. CASE JoinHeads(p)
    BY <2>1, <2>3, JoinParts DEF IInv, TypeOK, Known
  <2> QED BY <2>2, <2>3
<1>4. TiedPut(p)'
  <2>1. CASE Keep(p)
    <3>1. req'[p].at = "index" /\ req'[p].want = req[p].want /\ req'[p].final \in {req[p].want, req[p].cur}
      BY <1>1, <1>3, <2>1 DEF Keep, Settled, RequestOver
    <3> QED BY <1>2, <1>3, <3>1 DEF TiedPut, Settles
  <2>2. CASE req' = [req EXCEPT ![p] = Idle]
    BY <1>3, <2>2 DEF TiedPut, Idle
  <2>3. CASE /\ JoinHeads(p) /\ minted' = Put(minted, Joined(p))
             /\ req' = [req EXCEPT ![p].at = "index", ![p].final = DigestOf(minted, Joined(p))]
    <3>1. minted'[DigestOf(minted, Joined(p))].by = MergeActor
      BY <2>3, JoinParts, PutFound DEF IInv, Known
    <3>2. req'[p].at = "index" /\ req'[p].want = req[p].want
          /\ req'[p].final = DigestOf(minted, Joined(p))
      BY <1>1, <1>3, <2>3 DEF RequestOver
    <3> QED BY <1>2, <1>3, <3>1, <3>2 DEF TiedPut, Settles
  <2> QED BY <2>1, <2>2, <2>3, JoinParts
<1>5. \A q \in Actors : InHistory(minted', pod[q].head, pod'[q].head)
  BY <1>3, HeadsAlone
<1> QED BY <1>3, <1>4, <1>5, TiedsMove

\* The next index has what was settled on for the ref, the rest as it was.
LEMMA LoadTieds ==
  ASSUME IInv, HInv, crashes = 0, Tieds, NEW p \in Actors, LoadIndex(p)
  PROVE  Tieds'
<1>1. Handling(p) /\ req[p].at = "index" /\ req[p] \in RequestOver(Known)
  BY DEF LoadIndex, Handling, IInv, TypeOK, Known
<1>2. index # Torn /\ TiedPut(p) /\ Listed(index) /\ index \in [Refs -> Known \cup {None}]
  BY <1>1, Handled, IndexTyped DEF Tieds
<1>3. UNCHANGED <<minted, pod, index>> /\ \A q \in Actors \ {p} : req'[q] = req[q]
  BY DEF LoadIndex, podVars, storeVars, IInv, TypeOK
<1>4. req'[p].at = "truncate" /\ req'[p].want = req[p].want
      /\ req'[p].snap = [index EXCEPT ![Basis[p]] = req[p].final]
  <2>1. req \in [Actors -> RequestOver(Known)]
    BY DEF IInv, TypeOK, Known
  <2> QED BY <1>1, <1>2, <2>1 DEF LoadIndex, ReadIndex, RequestOver
<1>5. Basis[p] \in Refs /\ req[p].final # None
  <2>1. req[p].final \in Digests(minted) /\ WellFormed(minted)
    BY <1>1 DEF IInv, RequestState, Complete, TypeOK
  <2>2. req[p].final \in Nat
    BY <2>1 DEF WellFormed, Digests
  <2> QED BY <2>2, RefPushAssumption, HeadMergeAssumption
<1>6. TiedPut(p)'
  <2>1. req'[p].snap[Basis[p]] = req[p].final /\ Settles(p, req[p].final)
        /\ req'[p].want = pod[p].head
    BY <1>1, <1>2, <1>4, <1>5 DEF TiedPut
  <2>2. Listed(req'[p].snap)
    BY <1>2, <1>4, <1>5 DEF Listed
  <2> QED BY <1>2, <1>3, <1>4, <2>1, <2>2 DEF TiedPut, Settles
<1>7. WellFormed(minted') /\ Extends(minted', minted)
  BY <1>3 DEF IInv, Extends, WellFormed
<1> QED BY <1>3, <1>6, <1>7, HeadsAlone, TiedsMove

\* What is about to be written is tied, for the pod's head is the pod's own.
LEMMA TruncateTieds ==
  ASSUME IInv, HInv, EditInv, OwnHeads, crashes = 0, Tieds, NEW p \in Actors, Truncate(p)
  PROVE  Tieds'
<1>1. Handling(p) /\ req[p].at = "truncate"
  BY DEF Truncate, Handling
<1>2. index # Torn /\ TiedPut(p) /\ Tied(index) /\ \A q \in Actors \ {p} : ~Handling(q)
  BY <1>1, Handled DEF Tieds
<1>3. index' = Torn /\ UNCHANGED <<minted, pod>> /\ (\A q \in Actors \ {p} : req'[q] = req[q])
      /\ req'[p] = [req[p] EXCEPT !.at = "fill"] /\ req[p] \in RequestOver(Known)
  BY DEF Truncate, podVars, IInv, TypeOK, Known
<1>4. \A q \in Actors \ {p} : TiedPut(q)'
  BY <1>2, <1>3 DEF Handling, TiedPut, Tieds
<1>5. TiedPut(p)'
  <2>1. PICK i : i = req[p].snap
    OBVIOUS
  <2>2. req'[p].at = "fill" /\ req'[p].want = req[p].want /\ req'[p].snap = i
    <3>1. req'[p].at = "fill" /\ req'[p].want = req[p].want /\ req'[p].snap = req[p].snap
      BY <1>3 DEF RequestOver
    <3> QED BY <2>1, <3>1
  <2>3. /\ Settles(p, i[Basis[p]]) /\ i = [index EXCEPT ![Basis[p]] = i[Basis[p]]]
        /\ Listed(i) /\ req[p].want = pod[p].head /\ index \in [Refs -> Known \cup {None}]
    BY <1>1, <1>2, <2>1, IndexTyped DEF TiedPut
  <2>4. Tied(i)
    <3> SUFFICES ASSUME NEW q \in Actors, NEW r \in Refs, i[r] # None, minted[i[r]].by = q
                 PROVE  r = Basis[q] /\ InHistory(minted, i[r], pod[q].head)
      BY DEF Tied
    <3>1. CASE i[r] = index[r]
      BY <1>2, <3>1 DEF Tied
    <3>2. CASE i[r] # index[r]
      <4>1. r = Basis[p] /\ i[r] = i[Basis[p]]
        BY <2>3, <3>2
      <4>2. minted[i[r]].by # MergeActor /\ q # Publisher
        BY HeadMergeAssumption DEF MergeActor, Publisher
      <4>3. i[r] = pod[p].head
        BY <2>3, <3>2, <4>1, <4>2 DEF Settles
      <4>4. pod[p].head \in MadeBy(p)
        BY DEF EditInv, HeadHad, OwnHeads
      <4>5. q = p
        BY <4>2, <4>3, <4>4 DEF MadeBy
      <4> QED BY <4>1, <4>3, <4>5, SelfFound DEF InHistory
    <3> QED BY <3>1, <3>2
  <2>5. Tied(i)'
    BY <1>3, <2>4 DEF Tied, InHistory
  <2> QED BY <1>3, <2>2, <2>3, <2>5 DEF TiedPut
<1> QED BY <1>3, <1>4, <1>5 DEF Tieds

LEMMA FillTieds ==
  ASSUME IInv, HInv, crashes = 0, Tieds, NEW p \in Actors, Fill(p)
  PROVE  Tieds'
<1>1. Handling(p) /\ req[p].at = "fill"
  BY DEF Fill, Handling
<1>2. index = Torn /\ TiedPut(p) /\ \A q \in Actors \ {p} : ~Handling(q)
  BY <1>1, Handled DEF Tieds
<1>3. index' = req[p].snap /\ UNCHANGED <<minted, pod>> /\ (\A q \in Actors \ {p} : req'[q] = req[q])
      /\ req'[p] = Idle
  BY <1>2 DEF Fill, podVars, IInv, TypeOK
<1>4. \A q \in Actors : TiedPut(q)'
  <2>1. TiedPut(p)'
    BY <1>3 DEF TiedPut, Idle
  <2>2. ASSUME NEW q \in Actors \ {p} PROVE TiedPut(q)'
    BY <1>2, <1>3 DEF Handling, TiedPut, Tieds
  <2> QED BY <2>1, <2>2
<1>5. Tied(index)' /\ Listed(index)'
  BY <1>1, <1>2, <1>3 DEF TiedPut, Tied, Listed, InHistory
<1> QED BY <1>4, <1>5 DEF Tieds

LEMMA TiedsStay ==
  ASSUME IInv, HInv, EditInv, OwnHeads, crashes = 0, crashes' = 0, Tieds, [Next]_vars
  PROVE  Tieds'
<1>1. CASE \E p \in Actors, path \in Paths : Write(p, path) \/ Delete(p, path)
  BY <1>1, QuietTieds
<1>2. ASSUME NEW p \in Actors, PodStep(p) \/ HandlerStep(p) PROVE Tieds'
  <2>1. CASE Push(p) \/ Reopen(p)
    BY <2>1, BuildTieds
  <2>2. CASE Ask(p) \/ SendManifest(p) \/ SendLayers(p) \/ TransferFails(p) \/ Receive(p)
    BY <2>2, QuietTieds
  <2>3. CASE Pull(p)
    BY <2>3, PullTieds
  <2>4. CASE Keep(p) \/ JoinHeads(p)
    BY <2>4, SettleTieds
  <2>5. CASE LoadIndex(p) \/ Truncate(p) \/ Fill(p)
    BY <2>5, LoadTieds, TruncateTieds, FillTieds
  <2> QED BY <1>2, <2>1, <2>2, <2>3, <2>4, <2>5 DEF PodStep, HandlerStep
<1>3. ~Crash
  BY DEF Crash
<1>4. CASE UNCHANGED vars
  <2>1. UNCHANGED <<minted, pod, req, index>>
    BY <1>4 DEF vars, podVars, storeVars
  <2>2. WellFormed(minted') /\ Extends(minted', minted)
    BY <2>1 DEF IInv, Extends, WellFormed
  <2> QED BY <2>1, <2>2, HeadsAlone, TiedsMove
<1> QED BY <1>1, <1>2, <1>3, <1>4 DEF Next

-----------------------------------------------------------------------------
(* The one merge there is.                                                  *)
\* The heads of two pods that reached the manager with all they go back to have
\* the published head as their nearest common ancestor.
LEMMA NearestIsStart ==
  ASSUME IInv, Lineage, NEW p \in Actors, NEW q \in Actors, p # q,
         NEW x \in MadeBy(p), NEW y \in MadeBy(q),
         \A h \in Known : InHistory(minted, h, x) => h \in held,
         \A h \in Known : InHistory(minted, h, y) => h \in held
  PROVE  CommonAncestor(minted, held, y, x) = 1
<1>1. WellFormed(minted) /\ x \in Digests(minted) /\ y \in Digests(minted)
  BY DEF IInv, MadeBy, Known
<1>2. ASSUME NEW r \in Actors, NEW h \in MadeBy(r),
             \A d \in Known : InHistory(minted, d, h) => d \in held
      PROVE  \E i \in DOMAIN Reach(minted, held, h) : Reach(minted, held, h)[i].digest = 1
  <2>1. PICK S : S = {d \in Digests(minted) : InHistory(minted, d, h)}
    OBVIOUS
  <2>2. h \in Digests(minted) /\ h \in S /\ S \in SUBSET Digests(minted) /\ S \subseteq held
    BY <1>2, <2>1, SelfFound DEF MadeBy, Known, InHistory
  <2>3. ASSUME NEW d \in S PROVE d = 1 \/ \E y2 \in S : minted[d].parents = <<y2>> /\ y2 < d
    <3>1. d \in MadeBy(r) /\ InHistory(minted, d, h) /\ d \in Digests(minted)
      BY <2>1, OwnHistory
    <3>2. CASE d = 1
      BY <3>2
    <3>3. CASE d # 1
      <4>1. PICK y2 \in MadeBy(r) : minted[d].parents = <<y2>> /\ y2 < d
        BY <3>1, <3>3, OwnParent
      <4>2. y2 \in Digests(minted) /\ 1 \in DOMAIN minted[d].parents /\ minted[d].parents[1] = y2
        BY <4>1 DEF MadeBy, Known
      <4>3. IsAncestor(minted, Digests(minted), y2, d)
        BY <3>1, <4>2, ParentFound
      <4>4. InHistory(minted, y2, h)
        BY <3>1, <4>3, FoundThrough DEF InHistory
      <4> QED BY <2>1, <4>1, <4>2, <4>4
    <3> QED BY <3>2, <3>3
  <2> QED BY <1>1, <2>2, <2>3, StartReached
<1>3. PICK i \in DOMAIN Reach(minted, held, y) : Reach(minted, held, y)[i].digest = 1
  BY <1>2
<1>4. PICK j \in DOMAIN Reach(minted, held, x) : Reach(minted, held, x)[j].digest = 1
  BY <1>2
<1>5. <<i, j>> \in Shared(Reach(minted, held, y), Reach(minted, held, x))
  BY <1>3, <1>4 DEF Shared
<1>6. PICK base : base = CommonAncestor(minted, held, y, x)
  OBVIOUS
<1>7. base \in Digests(minted) /\ InHistory(minted, base, y) /\ InHistory(minted, base, x)
  BY <1>1, <1>5, <1>6, CommonIsShared DEF InHistory
<1>8. base \in MadeBy(p) /\ base \in MadeBy(q)
  BY <1>7, OwnHistory
<1>9. minted[base].by = Publisher
  BY <1>8, HeadMergeAssumption DEF MadeBy
<1> QED BY <1>6, <1>7, <1>9 DEF Lineage, Known

Merges == {e \in held : minted[e].by = MergeActor}
\* Some manifest that x of pod p was made on never reached the manager.
Hole(p, x) == \E h \in MadeBy(p) : h \notin held /\ InHistory(minted, h, x) /\ h < x
\* f is nothing, or the file of x with every deletion that y carries older.
Prevails(f, x, y, path) ==
    f = None \/ (f = minted[x].files[path] /\ \A stamp \in DeletionStamp(minted[y], path) : stamp < f.mtime)
\* The files of a merge e of x and y against a base that has every file.
Sound(e, x, y) ==
    \A path \in Paths :
        LET f == minted[e].files[path]
            a == minted[x].files[path]
            b == minted[y].files[path]
        IN  /\ a # None /\ b # None => f \in {a, b} /\ f.mtime >= a.mtime /\ f.mtime >= b.mtime
            /\ a # None /\ b = None => Prevails(f, x, y, path)
            /\ a = None /\ b # None => Prevails(f, y, x, path)
            /\ a = None /\ b = None => f = None
\* The put of p joined its head x with the head y of a pod q into e ...
JoinsHeads(e, p, q, x, y) ==
    /\ x \in MadeBy(p) /\ y \in MadeBy(q) /\ Basis[p] = Basis[q]
    /\ minted[e].parents \in {<<x, y>>, <<y, x>>}
    /\ x <= pod[p].head /\ y <= pod[q].head
    /\ (p # q /\ Sound(e, x, y)) \/ Hole(p, x) \/ Hole(q, y)
\* ... which the ref takes up, in place of y.
TakesUp(e, p, y) ==
    /\ index # Torn =>
          index[Basis[p]] = e \/ (index[Basis[p]] = y /\ req[p].at \in {"index", "truncate"})
    /\ \A o \in Actors :
          /\ req[o].at = "index" /\ Basis[o] = Basis[p] => req[o].final = e
          /\ req[o].at \in {"truncate", "fill"} => req[o].snap[Basis[p]] = e
MergeOf(e) ==
    \E p, q \in Actors : \E x, y \in Known : JoinsHeads(e, p, q, x, y) /\ TakesUp(e, p, y)
MergeKnown == \A e \in Merges : (\A d \in Merges : d = e) => MergeOf(e)

\* What the pods made stays theirs.
LEMMA MadeStays ==
  ASSUME IInv, WellFormed(minted'), Extends(minted', minted)
  PROVE  /\ Known \subseteq Known' /\ Known \subseteq Nat
         /\ \A p \in Actors : MadeBy(p) \subseteq MadeBy(p)' /\ MadeBy(p) \subseteq Known
         /\ \A d, h \in Known : InHistory(minted, d, h) => InHistory(minted', d, h)
<1>1. WellFormed(minted) /\ Known \subseteq Known' /\ Known \subseteq Nat
  BY Widen DEF IInv, Known, Digests
<1>2. ASSUME NEW d \in Known, NEW h \in Known, InHistory(minted, d, h) PROVE InHistory(minted', d, h)
  <2>1. Digests(minted) \subseteq Digests(minted') /\ h \in Digests(minted)
    BY <1>1 DEF Known
  <2> QED BY <1>1, <1>2, <2>1, FoundStays DEF InHistory
<1>3. \A p \in Actors : MadeBy(p) \subseteq MadeBy(p)' /\ MadeBy(p) \subseteq Known
  BY <1>1 DEF MadeBy, Extends, Known
<1> QED BY <1>1, <1>2, <1>3

\* A hole stays: nothing but the manifest itself, sent by its pod, would fill it.
LEMMA HoleStays ==
  ASSUME IInv, WellFormed(minted'), Extends(minted', minted), NEW p \in Actors, NEW x \in Known,
         Hole(p, x), \A h \in MadeBy(p) : h \in held' => h \in held \/ ~(h < x)
  PROVE  Hole(p, x)'
<1>1. PICK h \in MadeBy(p) : h \notin held /\ InHistory(minted, h, x) /\ h < x
  BY DEF Hole
<1>2. h \in MadeBy(p)' /\ InHistory(minted', h, x) /\ h \notin held'
  BY <1>1, MadeStays
<1> QED BY <1>1, <1>2 DEF Hole

\* A step leaves what was joined as it is.
LEMMA JoinsStay ==
  ASSUME IInv, Lineage, WellFormed(minted'), Extends(minted', minted),
         NEW p \in Actors, NEW q \in Actors, NEW x \in Known, NEW y \in Known, NEW e \in Known,
         JoinsHeads(e, p, q, x, y), x <= pod'[p].head, y <= pod'[q].head,
         \A h \in held' : h \in held \/ minted'[h].by = MergeActor
                          \/ \E o \in Actors : h = pod[o].head /\ h \in MadeBy(o)
  PROVE  JoinsHeads(e, p, q, x, y)'
<1>1. minted'[e] = minted[e] /\ minted'[x] = minted[x] /\ minted'[y] = minted[y]
  BY DEF Extends, Known
<1>2. x \in MadeBy(p)' /\ y \in MadeBy(q)'
  BY MadeStays DEF JoinsHeads
<1>3. ASSUME NEW o \in Actors, NEW z \in Known, z <= pod[o].head, Hole(o, z) PROVE Hole(o, z)'
  <2>1. ASSUME NEW h \in MadeBy(o), h \in held', h \notin held, h < z PROVE FALSE
    <3>1. h \in Known /\ minted'[h] = minted[h] /\ minted[h].by # MergeActor
      BY HeadMergeAssumption DEF MadeBy, Extends, Known, MergeActor, Publisher
    <3>2. PICK o2 \in Actors : h = pod[o2].head /\ h \in MadeBy(o2)
      BY <2>1, <3>1
    <3>3. CASE o2 = o
      <4>1. h \in Nat /\ z \in Nat
        BY <3>1 DEF Known, Digests
      <4> QED BY <1>3, <2>1, <3>2, <3>3, <4>1
    <3>4. CASE o2 # o
      <4>1. minted[h].by = Publisher
        BY <3>2, <3>4, HeadMergeAssumption DEF MadeBy
      <4> QED BY <2>1, <3>1, <4>1 DEF Lineage
    <3> QED BY <3>3, <3>4
  <2> QED BY <1>3, <2>1, HoleStays
<1>4. ASSUME Sound(e, x, y) PROVE Sound(e, x, y)'
  BY <1>1, <1>4 DEF Sound, Prevails
<1>5. x <= pod[p].head /\ y <= pod[q].head /\ ((p # q /\ Sound(e, x, y)) \/ Hole(p, x) \/ Hole(q, y))
  BY DEF JoinsHeads
<1>6. (p # q /\ Sound(e, x, y)') \/ Hole(p, x)' \/ Hole(q, y)'
  BY <1>3, <1>4, <1>5
<1> QED BY <1>1, <1>2, <1>6 DEF JoinsHeads

\* mergeHeads against the published head, of which every file is there.
LEMMA JoinSound ==
  ASSUME IInv, Lineage, NEW x \in Known, NEW y \in Known, NEW e,
         minted'[e] = JoinOver(minted, y, x, 1), minted'[x] = minted[x], minted'[y] = minted[y]
  PROVE  Sound(e, x, y)'
<1>1. PICK A, B : A = minted[x] /\ B = minted[y]
  OBVIOUS
<1>2. WellFormed(minted) /\ x \in Digests(minted) /\ y \in Digests(minted) /\ 1 # None
  BY HeadMergeAssumption DEF IInv, Known
<1>3. \A path \in Paths : /\ minted'[e].files[path] = JoinPath(B, A, Start, path)
  BY <1>1, <1>2 DEF JoinOver, Join, Lineage
<1> SUFFICES ASSUME NEW path \in Paths
    PROVE  LET f == minted'[e].files[path]
               a == A.files[path]
               b == B.files[path]
           IN  /\ a # None /\ b # None => f \in {a, b} /\ f.mtime >= a.mtime /\ f.mtime >= b.mtime
               /\ a # None /\ b = None
                    => f = None \/ (f = a /\ \A stamp \in DeletionStamp(B, path) : stamp < f.mtime)
               /\ a = None /\ b # None
                    => f = None \/ (f = b /\ \A stamp \in DeletionStamp(A, path) : stamp < f.mtime)
               /\ a = None /\ b = None => f = None
  BY <1>1 DEF Sound, Prevails
<1>4. PICK f, a, b : f = minted'[e].files[path] /\ a = A.files[path] /\ b = B.files[path]
  OBVIOUS
<1>5. f = JoinPath(B, A, Start, path) /\ Start.files[path] # None /\ Start # None
  <2>1. Start.files[path] # None
    BY HeadMergeAssumption, RefPushAssumption DEF Start, Register, Publisher
  <2>2. minted[1] \in ManifestOver(Nat)
    BY <1>2, ElementIn DEF WellFormed, Digests
  <2>3. Start # None
    BY <2>2, RefPushAssumption DEF Lineage
  <2> QED BY <1>3, <1>4, <2>1, <2>3
<1>6. a \in Register \cup {None} /\ b \in Register \cup {None}
  BY <1>1, <1>2, <1>4, FileOrNone
<1>7. \A stamp \in DeletionStamp(A, path) \cup DeletionStamp(B, path) : stamp \in Nat
  BY <1>1, <1>2, StampIsNumber DEF DeletionStamp
<1>8. CASE a # None /\ b # None
  <2>1. a \in Register /\ b \in Register /\ f = NewerOf(b, a)
    BY <1>4, <1>5, <1>6, <1>8 DEF JoinPath
  <2>2. f \in {a, b} /\ AtLeast(f, a) /\ AtLeast(f, b)
    BY <2>1, NewerIsAtLeast
  <2>3. a.mtime \in Nat /\ b.mtime \in Nat
    BY <2>1, RegisterNumbers
  <2> QED BY <1>4, <1>8, <2>2, <2>3 DEF AtLeast
<1>9. CASE a # None /\ b = None
  <2>1. f = Winner(A, B, Start, path)
    BY <1>4, <1>5, <1>9 DEF JoinPath
  <2>2. a.mtime \in Nat
    BY <1>6, <1>9, RegisterNumbers
  <2>3. f = None \/ (f = a /\ \A stamp \in DeletionStamp(B, path) : ~(stamp >= a.mtime))
    BY <1>4, <1>5, <2>1 DEF Winner
  <2>4. f = None \/ (f = a /\ \A stamp \in DeletionStamp(B, path) : stamp < a.mtime)
    BY <1>7, <2>2, <2>3
  <2> QED BY <1>4, <1>9, <2>4
<1>10. CASE a = None /\ b # None
  <2>1. f = Winner(B, A, Start, path)
    BY <1>4, <1>5, <1>10 DEF JoinPath
  <2>2. b.mtime \in Nat
    BY <1>6, <1>10, RegisterNumbers
  <2>3. f = None \/ (f = b /\ \A stamp \in DeletionStamp(A, path) : ~(stamp >= b.mtime))
    BY <1>4, <1>5, <2>1 DEF Winner
  <2>4. f = None \/ (f = b /\ \A stamp \in DeletionStamp(A, path) : stamp < b.mtime)
    BY <1>7, <2>2, <2>3
  <2> QED BY <1>4, <1>10, <2>4
<1>11. CASE a = None /\ b = None
  BY <1>4, <1>5, <1>11 DEF JoinPath
<1> QED BY <1>8, <1>9, <1>10, <1>11

\* What a merge joins, when there was none before: the put's own head and that of
\* a pod of the same ref, not all of whose histories the manager knows, or else
\* two pods' heads joined against the published head.
LEMMA JoinsTwo ==
  ASSUME IInv, HInv, EditInv, OwnHeads, crashes = 0, Lineage, Tieds, NEW p \in Actors, JoinHeads(p),
         minted' = Put(minted, Joined(p)), NEW e, e = DigestOf(minted, Joined(p)),
         held' = held \cup {e}, \A d \in Merges' : d = e
  PROVE  \E q \in Actors : \E x, y \in Known : y = req[p].cur /\ JoinsHeads(e, p, q, x, y)'
<1>1. /\ req[p].at = "decide" /\ Handling(p) /\ pod' = pod
      /\ ~IsAncestor(minted, held, req[p].cur, req[p].want)
      /\ Joined(p) \in ManifestOver(Digests(minted)) /\ Joined(p).by = MergeActor
  BY JoinParts DEF Handling, Known
<1>2. index # Torn /\ req[p].cur = index[Basis[p]] /\ req[p].want = pod[p].head /\ Tied(index)
  BY <1>1, Handled DEF HandlerKeeps, Tieds, TiedPut
<1>3. PICK x, y : x = req[p].want /\ y = req[p].cur
  OBVIOUS
<1>4. x \in MadeBy(p) /\ x \in held /\ y \in held /\ x \in Known /\ y \in Known /\ y # None
  <2>1. x \in held /\ y \in held
    BY <1>3, JoinParts
  <2>2. x \in Known /\ y \in Known /\ WellFormed(minted)
    BY <2>1 DEF IInv, TypeOK, Known
  <2>3. y # None
    BY <2>2, HeadMergeAssumption DEF Known, Digests
  <2> QED BY <1>2, <1>3, <2>1, <2>2, <2>3 DEF EditInv, HeadHad, OwnHeads
<1>5. /\ WellFormed(minted) /\ WellFormed(minted') /\ Extends(minted', minted)
      /\ Known \subseteq Known' /\ Known \subseteq Nat /\ minted'[e] = Joined(p)
  <2>1. WellFormed(minted') /\ Extends(minted', minted)
    BY Mints DEF Next, HandlerStep
  <2>2. WellFormed(minted)
    BY DEF IInv
  <2> QED BY <1>1, <2>1, <2>2, PutFound, MadeStays
<1>6. minted'[e].by = MergeActor /\ minted'[e].parents \in {<<x, y>>, <<y, x>>}
      /\ Joined(p) = JoinOver(minted, y, x, CommonAncestor(minted, held, y, x))
  <2>1. Joined(p) = JoinOver(minted, y, x, CommonAncestor(minted, held, y, x))
    BY <1>3 DEF Joined
  <2> DEFINE base == CommonAncestor(minted, held, y, x)
  <2> HIDE DEF base
  <2>2. Joined(p) = JoinOver(minted, y, x, base)
    BY <2>1 DEF base
  <2>3. Joined(p).parents \in {<<x, y>>, <<y, x>>}
    BY <2>2 DEF JoinOver, Join
  <2> QED BY <1>1, <1>5, <2>1, <2>3
<1>7. minted[y].by # MergeActor
  <2> SUFFICES ASSUME minted[y].by = MergeActor PROVE FALSE
    OBVIOUS
  <2>1. y \in Merges'
    BY <1>4, <1>5 DEF Merges, Extends, Known
  <2>2. y = e
    BY <2>1
  <2>3. e \in Digests(minted')
    BY <1>4, <1>5, <2>2 DEF Known
  <2>4. \E i \in DOMAIN minted'[e].parents : minted'[e].parents[i] = y
    <3>1. CASE minted'[e].parents = <<x, y>>
      <4>1. 2 \in DOMAIN <<x, y>> /\ <<x, y>>[2] = y
        OBVIOUS
      <4> QED BY <3>1, <4>1
    <3>2. CASE minted'[e].parents = <<y, x>>
      <4>1. 1 \in DOMAIN <<y, x>> /\ <<y, x>>[1] = y
        OBVIOUS
      <4> QED BY <3>2, <4>1
    <3> QED BY <1>6, <3>1, <3>2
  <2>5. y < e
    BY <1>5, <2>3, <2>4, ParentKnown
  <2> QED BY <1>4, <1>5, <2>2, <2>5
<1>8. PICK q \in Actors : y \in MadeBy(q) /\ Basis[q] = Basis[p] /\ InHistory(minted, y, pod[q].head)
  <2>1. minted[y] \in ManifestOver(Nat)
    BY <1>4, <1>5, ElementIn DEF WellFormed, Known, Digests
  <2>2. minted[y].by \in Actors \cup {Publisher}
    BY <1>7, <2>1 DEF ManifestOver
  <2>3. CASE minted[y].by = Publisher
    <3>1. y = 1 /\ y \in MadeBy(p)
      BY <1>4, <2>3 DEF Lineage, MadeBy
    <3>2. InHistory(minted, y, pod[p].head)
      BY <1>2, <1>3, <1>4, <3>1, FromStart
    <3> QED BY <3>1, <3>2
  <2>4. ASSUME NEW q \in Actors, minted[y].by = q
        PROVE  y \in MadeBy(q) /\ Basis[q] = Basis[p] /\ InHistory(minted, y, pod[q].head)
    <3>1. Basis[p] \in Refs /\ index[Basis[p]] = y
      BY <1>2, <1>3, RefPushAssumption
    <3>2. Basis[p] = Basis[q] /\ InHistory(minted, y, pod[q].head)
      BY <1>2, <1>4, <2>4, <3>1 DEF Tied
    <3> QED BY <1>4, <2>4, <3>2 DEF MadeBy
  <2> QED BY <2>2, <2>3, <2>4
<1>9. x <= pod[p].head /\ y <= pod[q].head
  <2>1. pod[q].head \in Known
    BY TimesTyped
  <2>2. y <= pod[q].head
    BY <1>4, <1>5, <1>8, <2>1, HistoryOlder DEF Known
  <2>3. x = pod[p].head /\ x \in Nat
    BY <1>2, <1>3, <1>4, <1>5
  <2> QED BY <2>2, <2>3
<1>10. ASSUME NEW o \in Actors, NEW z \in MadeBy(o), z \in held, ~Hole(o, z)
       PROVE  \A h \in Known : InHistory(minted, h, z) => h \in held
  <2> SUFFICES ASSUME NEW h \in Known, InHistory(minted, h, z), h \notin held PROVE FALSE
    OBVIOUS
  <2>1. h \in MadeBy(o) /\ z \in Known
    BY <1>10, OwnHistory DEF MadeBy
  <2>2. h <= z /\ h # z /\ h \in Nat /\ z \in Nat
    BY <1>5, <1>10, <2>1, HistoryOlder DEF Known
  <2> QED BY <1>10, <2>1, <2>2 DEF Hole
<1>11. (p # q /\ Sound(e, x, y)') \/ Hole(p, x) \/ Hole(q, y)
  <2> SUFFICES ASSUME ~Hole(p, x), ~Hole(q, y) PROVE p # q /\ Sound(e, x, y)'
    OBVIOUS
  <2>1. /\ \A h \in Known : InHistory(minted, h, x) => h \in held
        /\ \A h \in Known : InHistory(minted, h, y) => h \in held
    BY <1>4, <1>8, <1>10
  <2>2. p # q
    <3> SUFFICES ASSUME p = q PROVE FALSE
      OBVIOUS
    <3>1. InHistory(minted, y, x)
      BY <1>2, <1>3, <1>8
    <3>2. IsAncestor(minted, held, y, x)
      BY <1>4, <1>5, <2>1, <3>1, HeldHistory DEF Known
    <3> QED BY <1>1, <1>3, <3>2
  <2>3. CommonAncestor(minted, held, y, x) = 1
    BY <1>4, <1>8, <2>1, <2>2, NearestIsStart
  <2>4. minted'[e] = JoinOver(minted, y, x, 1)
    BY <1>5, <1>6, <2>3
  <2> QED BY <1>4, <1>5, <2>2, <2>4, JoinSound DEF Extends, Known
<1>12. ASSUME NEW o \in Actors, NEW z \in Known, Hole(o, z) PROVE Hole(o, z)'
  <2>1. ASSUME NEW h \in MadeBy(o), h \in held' PROVE h \in held
    <3>1. minted'[h] = minted[h] /\ minted[h].by # MergeActor
      BY HeadMergeAssumption, <1>5 DEF MadeBy, Extends, Known, MergeActor, Publisher
    <3> QED BY <1>6, <2>1, <3>1
  <2> QED BY <1>5, <1>12, <2>1, HoleStays
<1>13. x \in MadeBy(p)' /\ y \in MadeBy(q)'
  BY <1>4, <1>5, <1>8, MadeStays
<1>14. x <= pod'[p].head /\ y <= pod'[q].head
  BY <1>1, <1>9
<1>15. (p # q /\ Sound(e, x, y)') \/ Hole(p, x)' \/ Hole(q, y)'
  BY <1>4, <1>11, <1>12
<1>16. JoinsHeads(e, p, q, x, y)'
  BY <1>6, <1>8, <1>13, <1>14, <1>15 DEF JoinsHeads
<1> QED BY <1>3, <1>4, <1>16

\* Puts are decided and given up, pods push and edit: the index stays.
LEMMA MergeQuiet ==
  ASSUME IInv, Lineage, WellFormed(minted'), Extends(minted', minted), NEW e \in Known, MergeOf(e),
         index' = index,
         \A o \in Actors : pod[o].head <= pod'[o].head /\ pod'[o].head \in Nat,
         \A h \in held' : h \in held \/ minted'[h].by = MergeActor
                          \/ \E o \in Actors : h = pod[o].head /\ h \in MadeBy(o),
         \A o \in Actors : req[o].at \in {"index", "truncate"} \/ req'[o].at \in {"index", "truncate", "fill"}
                              => req'[o] = req[o]
  PROVE  MergeOf(e)'
<1>1. PICK p \in Actors, q \in Actors, x \in Known, y \in Known :
         JoinsHeads(e, p, q, x, y) /\ TakesUp(e, p, y)
  BY DEF MergeOf
<1>2. x <= pod'[p].head /\ y <= pod'[q].head
  <2>1. \A o \in Actors : pod[o].head \in Nat
    BY TimesTyped DEF Known, Digests
  <2>2. x \in Nat /\ y \in Nat /\ x <= pod[p].head /\ y <= pod[q].head
    BY <1>1 DEF JoinsHeads, Known, Digests
  <2>3. pod[p].head \in Nat /\ pod'[p].head \in Nat /\ pod[p].head <= pod'[p].head
    BY <2>1
  <2>4. pod[q].head \in Nat /\ pod'[q].head \in Nat /\ pod[q].head <= pod'[q].head
    BY <2>1
  <2> QED BY <2>2, <2>3, <2>4
<1>3. JoinsHeads(e, p, q, x, y)'
  BY <1>1, <1>2, JoinsStay
<1>4. TakesUp(e, p, y)'
  BY <1>1 DEF TakesUp
<1> QED BY <1>1, <1>3, <1>4, MadeStays DEF MergeOf

\* A step of the handler that changes neither pods nor manifests.
LEMMA MergeTurn ==
  ASSUME IInv, Lineage, UNCHANGED <<minted, pod, held>>, NEW e \in Known,
         NEW p \in Actors, NEW q \in Actors, NEW x \in Known, NEW y \in Known,
         JoinsHeads(e, p, q, x, y), TakesUp(e, p, y)'
  PROVE  MergeOf(e)'
<1>1. WellFormed(minted') /\ Extends(minted', minted)
  BY DEF IInv, Extends, WellFormed
<1>2. x <= pod'[p].head /\ y <= pod'[q].head
  BY DEF JoinsHeads
<1>3. JoinsHeads(e, p, q, x, y)'
  BY <1>1, <1>2, JoinsStay
<1> QED BY <1>1, <1>3, MadeStays DEF MergeOf

\* A pod that takes up its ref's head takes up one it joined, not the merge.
LEMMA PullMerge ==
  ASSUME IInv, Lineage, OwnHeads', NEW e \in Known, minted[e].by = MergeActor, MergeOf(e),
         NEW o \in Actors, Pull(o)
  PROVE  MergeOf(e)'
<1>1. PICK p \in Actors, q \in Actors, x \in Known, y \in Known :
         JoinsHeads(e, p, q, x, y) /\ TakesUp(e, p, y)
  BY DEF MergeOf
<1>2. /\ UNCHANGED <<minted, req, index, held>> /\ req[o] = Idle
      /\ \A r \in Actors \ {o} : pod'[r] = pod[r]
      /\ \/ pod'[o].head = pod[o].head
         \/ pod'[o].head = GetRef(o) /\ GetRef(o) # None /\ GetRef(o) \in pod'[o].has
  <2>1. pod \in [Actors -> PodOver(Known)]
    BY DEF IInv, TypeOK, Known
  <2>2. pod[o] \in PodOver(Known)
    BY <2>1
  <2> QED BY <2>1, <2>2 DEF Pull, storeVars, PodOver
<1>3. WellFormed(minted') /\ Extends(minted', minted) /\ held' = held
  BY <1>2 DEF IInv, Extends, WellFormed
<1>4. x <= pod'[p].head /\ y <= pod'[q].head
  <2>1. CASE pod'[o].head = pod[o].head
    BY <1>1, <1>2, <2>1 DEF JoinsHeads
  <2>2. CASE pod'[o].head = GetRef(o) /\ GetRef(o) # None /\ GetRef(o) \in pod'[o].has
    <3>1. index # Torn /\ GetRef(o) = index[Basis[o]]
      BY <2>2, RefPushAssumption DEF GetRef, ReadIndex
    <3>2. GetRef(o) \in MadeBy(o)
      BY <1>2, <2>2 DEF OwnHeads, MadeBy, Known
    <3>3. GetRef(o) # e
      BY <3>2, HeadMergeAssumption DEF MadeBy, MergeActor, Publisher
    <3>4. o # p
      BY <1>1, <1>2, <3>1, <3>3 DEF TakesUp, Idle
    <3>5. ASSUME o = q PROVE y <= pod'[q].head
      <4>1. GetRef(o) = y
        BY <1>1, <3>1, <3>3, <3>5 DEF TakesUp, JoinsHeads
      <4>2. y \in Nat
        BY DEF Known, Digests
      <4> QED BY <2>2, <3>5, <4>1, <4>2
    <3> QED BY <1>1, <1>2, <3>4, <3>5 DEF JoinsHeads
  <2> QED BY <1>2, <2>1, <2>2
<1>5. JoinsHeads(e, p, q, x, y)'
  BY <1>1, <1>3, <1>4, JoinsStay
<1>6. TakesUp(e, p, y)'
  BY <1>1, <1>2 DEF TakesUp
<1> QED BY <1>3, <1>5, <1>6, MadeStays DEF MergeOf

\* Next to a merge, a put keeps it: no head of a pod descends from it.
LEMMA KeepMerge ==
  ASSUME IInv, HInv, EditInv, OwnHeads, Lineage, Tieds, crashes = 0,
         NEW e \in Known, minted[e].by = MergeActor, MergeOf(e), NEW o \in Actors, Keep(o)
  PROVE  MergeOf(e)'
<1>1. PICK p \in Actors, q \in Actors, x \in Known, y \in Known :
         JoinsHeads(e, p, q, x, y) /\ TakesUp(e, p, y)
  BY DEF MergeOf
<1>2. /\ req[o].at = "decide" /\ Handling(o) /\ Settled(o) # None
      /\ req' = [req EXCEPT ![o].at = "index", ![o].final = Settled(o)]
      /\ UNCHANGED <<minted, pod, held, index>> /\ req \in [Actors -> RequestOver(Known)]
  BY DEF Keep, Handling, podVars, storeVars, IInv, TypeOK, Known
<1>3. /\ index # Torn /\ req[o].cur = index[Basis[o]] /\ req[o].want = pod[o].head
      /\ \A r \in Actors \ {o} : ~Handling(r)
  BY <1>2, Handled DEF HandlerKeeps, Tieds, TiedPut
<1>4. index[Basis[p]] = e
  BY <1>1, <1>2, <1>3 DEF TakesUp, Handling
<1>5. ASSUME Basis[o] = Basis[p] PROVE Settled(o) = e
  <2>1. req[o].cur = e
    BY <1>3, <1>4, <1>5
  <2>2. req[o].want \in MadeBy(o) /\ req[o].want \in Known
    BY <1>3 DEF EditInv, HeadHad, OwnHeads, MadeBy
  <2>3. e \notin MadeBy(o)
    BY HeadMergeAssumption DEF MadeBy, MergeActor, Publisher
  <2>4. ~IsAncestor(minted, held, e, req[o].want)
    <3> SUFFICES ASSUME IsAncestor(minted, held, e, req[o].want) PROVE FALSE
      OBVIOUS
    <3>1. held \subseteq Digests(minted) /\ WellFormed(minted) /\ Extends(minted, minted)
      BY DEF IInv, TypeOK, Extends, WellFormed
    <3>2. PICK w : w = req[o].want
      OBVIOUS
    <3>3. InHistory(minted, e, w)
      BY <2>2, <3>1, <3>2, FoundStays DEF InHistory, Known
    <3> QED BY <2>2, <2>3, <3>2, <3>3, OwnHistory
  <2>5. e # None
    BY HeadMergeAssumption DEF Known, Digests
  <2> QED BY <1>2, <2>1, <2>2, <2>3, <2>4, <2>5 DEF Settled
<1>6. TakesUp(e, p, y)'
  <2>1. /\ req'[o].at = "index" /\ req'[o].final = Settled(o)
        /\ \A r \in Actors \ {o} : req'[r] = req[r]
    BY <1>2 DEF RequestOver
  <2>2. \A r \in Actors \ {o} : req'[r].at \notin {"index", "truncate", "fill"}
    BY <1>3, <2>1 DEF Handling
  <2>3. index' # Torn => index'[Basis[p]] = e
    BY <1>2, <1>4
  <2> QED BY <1>5, <2>1, <2>2, <2>3 DEF TakesUp
<1> QED BY <1>1, <1>2, <1>6, MergeTurn

\* The index is read, emptied and written: the ref of the merge gets the merge.
LEMMA WriteMerge ==
  ASSUME IInv, HInv, Lineage, crashes = 0, NEW e \in Known, MergeOf(e),
         NEW o \in Actors, LoadIndex(o) \/ Truncate(o) \/ Fill(o)
  PROVE  MergeOf(e)'
<1>1. PICK p \in Actors, q \in Actors, x \in Known, y \in Known :
         JoinsHeads(e, p, q, x, y) /\ TakesUp(e, p, y)
  BY DEF MergeOf
<1>2. /\ Handling(o) /\ UNCHANGED <<minted, pod, held>> /\ req \in [Actors -> RequestOver(Known)]
  BY DEF LoadIndex, Truncate, Fill, Handling, podVars, storeVars, IInv, TypeOK, Known
<1>3. /\ (index = Torn <=> req[o].at = "fill") /\ \A r \in Actors \ {o} : ~Handling(r)
  BY <1>2, Handled
<1>4. \A r \in Actors \ {o} : req'[r] = req[r] /\ req'[r].at \notin {"index", "truncate", "fill"}
  BY <1>2, <1>3 DEF LoadIndex, Truncate, Fill, Handling
<1>5. TakesUp(e, p, y)'
  <2>1. CASE LoadIndex(o)
    <3>1. req[o].at = "index" /\ index # Torn /\ index' = index
      BY <1>3, <2>1 DEF LoadIndex, storeVars
    <3>2. req'[o].at = "truncate" /\ req'[o].snap = [index EXCEPT ![Basis[o]] = req[o].final]
      BY <1>2, <2>1, <3>1 DEF LoadIndex, ReadIndex, RequestOver
    <3>3. index \in [Refs -> Known \cup {None}] /\ Basis[o] \in Refs /\ Basis[p] \in Refs
      BY <3>1, IndexTyped, RefPushAssumption
    <3>4. index[Basis[p]] = e \/ (index[Basis[p]] = y /\ p = o)
      BY <1>1, <1>3, <3>1 DEF TakesUp, Handling
    <3>5. Basis[o] = Basis[p] => req[o].final = e
      BY <1>1, <3>1 DEF TakesUp
    <3>6. req'[o].snap[Basis[p]] = e
      BY <3>2, <3>3, <3>4, <3>5
    <3> QED BY <1>4, <3>1, <3>2, <3>4, <3>6 DEF TakesUp
  <2>2. CASE Truncate(o)
    <3>1. index' = Torn /\ req'[o].at = "fill" /\ req'[o].snap = req[o].snap /\ req[o].at = "truncate"
      BY <1>2, <2>2 DEF Truncate, RequestOver
    <3> QED BY <1>1, <1>4, <3>1 DEF TakesUp
  <2>3. CASE Fill(o)
    <3>1. req[o].at = "fill" /\ index' = req[o].snap /\ req'[o].at = "none"
      BY <1>2, <1>3, <2>3 DEF Fill, Idle
    <3> QED BY <1>1, <1>4, <3>1 DEF TakesUp
  <2> QED BY <2>1, <2>2, <2>3
<1> QED BY <1>1, <1>2, <1>5, MergeTurn

LEMMA MergeStays ==
  ASSUME ~Overlap, IInv, HInv, EditInv, OwnHeads, OwnHeads', Lineage, Tieds,
         crashes = 0, crashes' = 0, MergeKnown, [Next]_vars
  PROVE  MergeKnown'
<1> SUFFICES ASSUME NEW e \in Merges', \A d \in Merges' : d = e PROVE MergeOf(e)'
  BY DEF MergeKnown
<1>1. /\ WellFormed(minted') /\ Extends(minted', minted) /\ held \subseteq held'
      /\ \A d \in Known : minted'[d] = minted[d]
      /\ held \subseteq Known /\ held \subseteq Digests(minted)
  BY Mints DEF IInv, TypeOK, Known
\* Unless it is minted now, the merge was there.
<1>2. ASSUME e \in held
      PROVE  e \in Known /\ minted[e].by = MergeActor /\ MergeOf(e)
  <2>1. e \in Known /\ minted[e].by = MergeActor
    BY <1>1, <1>2 DEF Merges
  <2>2. Merges \subseteq Merges'
    BY <1>1 DEF Merges
  <2>3. e \in Merges /\ \A d \in Merges : d = e
    BY <1>2, <2>1, <2>2 DEF Merges
  <2> QED BY <2>1, <2>3 DEF MergeKnown
<1>3. ASSUME NEW o \in Actors, JoinHeads(o), minted' = Put(minted, Joined(o)),
             held' = held \cup {DigestOf(minted, Joined(o))},
             req' = [req EXCEPT ![o].at = "index", ![o].final = DigestOf(minted, Joined(o))]
      PROVE  MergeOf(e)'
  <2>1. PICK new : new = DigestOf(minted, Joined(o))
    OBVIOUS
  <2>2. minted'[new].by = MergeActor /\ req[o].at = "decide" /\ Handling(o) /\ UNCHANGED <<pod, index>>
    BY <1>3, <2>1, JoinParts, PutFound DEF IInv, Known, Handling
  <2>3. new = e
    BY <1>3, <2>1, <2>2 DEF Merges
  <2>4. PICK q \in Actors, x \in Known, y \in Known : y = req[o].cur /\ JoinsHeads(e, o, q, x, y)'
    <3>1. e = DigestOf(minted, Joined(o)) /\ held' = held \cup {e}
      BY <1>3, <2>1, <2>3
    <3> QED BY <1>3, <3>1, JoinsTwo
  <2>5. /\ (\A r \in Actors \ {o} : ~Handling(r)) /\ index # Torn /\ index[Basis[o]] = y
    BY <2>2, <2>4, Handled DEF HandlerKeeps
  <2>6. /\ req'[o].at = "index" /\ req'[o].final = e
        /\ \A r \in Actors \ {o} : req'[r] = req[r] /\ req'[r].at \notin {"index", "truncate", "fill"}
    BY <1>3, <2>1, <2>3, <2>5 DEF Handling, IInv, TypeOK, RequestOver
  <2>7. TakesUp(e, o, y)'
    BY <2>2, <2>5, <2>6 DEF TakesUp
  <2> QED BY <1>1, <2>4, <2>7, MadeStays DEF MergeOf
<1>4. \A o \in Actors : pod[o].head \in Nat /\ pod[o].head <= pod[o].head
  BY TimesTyped DEF Known, Digests
<1>5. ASSUME NEW o \in Actors, Push(o) \/ Reopen(o) PROVE MergeOf(e)'
  <2>1. UNCHANGED <<req, held, index>> /\ \A r \in Actors \ {o} : pod'[r] = pod[r]
    BY <1>5, BuildParts
  <2>2. pod[o].head \in Digests(minted') /\ pod'[o].head \in Digests(minted')
    <3>1. pod' \in [Actors -> PodOver(Digests(minted'))]
      BY Inductive DEF IInv, TypeOK
    <3>2. pod'[o] \in PodOver(Digests(minted'))
      BY <3>1
    <3>3. pod[o].head \in Known /\ Known \subseteq Known'
      BY <1>1, TimesTyped, MadeStays
    <3> QED BY <3>2, <3>3 DEF PodOver, Known
  <2>3. pod[o].head <= pod'[o].head /\ pod'[o].head \in Nat
    BY <1>1, <1>5, <2>2, BuildHead, HistoryOlder DEF Digests
  <2>4. e \in held
    BY <2>1 DEF Merges
  <2> QED BY <1>1, <1>2, <1>4, <2>1, <2>3, <2>4, MergeQuiet
<1>6. ASSUME NEW o \in Actors, \/ \E path \in Paths : Write(o, path) \/ Delete(o, path)
                               \/ Ask(o) \/ TransferFails(o) \/ Receive(o)
      PROVE  MergeOf(e)'
  <2>1. pod \in [Actors -> PodOver(Known)] /\ req \in [Actors -> RequestOver(Known)]
    BY DEF IInv, TypeOK, Known
  <2>2. pod[o] \in PodOver(Known) /\ req[o] \in RequestOver(Known)
    BY <2>1
  <2>3. UNCHANGED <<held, index>> /\ \A r \in Actors : pod'[r].head = pod[r].head
    <3>1. CASE \E path \in Paths : Write(o, path) \/ Delete(o, path)
      BY <3>1, UserParts
    <3>2. CASE Ask(o) \/ TransferFails(o) \/ Receive(o)
      BY <2>1, <2>2, <3>2 DEF Ask, TransferFails, Receive, PodOver, storeVars, podVars
    <3> QED BY <1>6, <3>1, <3>2
  <2>4. \A r \in Actors : req[r].at \in {"index", "truncate"} \/ req'[r].at \in {"index", "truncate", "fill"}
                            => req'[r] = req[r]
    <3>1. CASE Receive(o)
      BY <2>1, <3>1 DEF Receive, RequestOver
    <3>2. CASE Ask(o) \/ TransferFails(o) \/ \E path \in Paths : Write(o, path) \/ Delete(o, path)
      BY <3>2, UserParts DEF Ask, TransferFails
    <3> QED BY <1>6, <3>1, <3>2
  <2>5. e \in held
    BY <2>3 DEF Merges
  <2> QED BY <1>1, <1>2, <1>4, <2>3, <2>4, <2>5, MergeQuiet
<1>7. ASSUME NEW o \in Actors, SendManifest(o) \/ SendLayers(o) PROVE MergeOf(e)'
  <2>1. pod \in [Actors -> PodOver(Known)] /\ req \in [Actors -> RequestOver(Known)] /\ PushThenPut
    BY DEF IInv, TypeOK, Known, HInv
  <2>2. pod[o] \in PodOver(Known) /\ req[o].at = "none"
    BY <1>7, <2>1 DEF SendManifest, SendLayers, PushThenPut
  <2>3. UNCHANGED <<minted, index>> /\ (\A r \in Actors : pod'[r].head = pod[r].head)
        /\ held' \in {held, held \cup {pod[o].head}}
    <3>1. CASE SendManifest(o)
      BY <2>1, <2>2, <3>1 DEF SendManifest, PodOver
    <3>2. CASE SendLayers(o)
      BY <2>1, <2>2, <3>2 DEF SendLayers, PodOver, storeVars
    <3> QED BY <1>7, <3>1, <3>2
  <2>4. \A r \in Actors : req[r].at \in {"index", "truncate"} \/ req'[r].at \in {"index", "truncate", "fill"}
                            => req'[r] = req[r]
    BY <1>7, <2>1, <2>2 DEF SendManifest, SendLayers, RequestOver, Idle
  <2>5. pod[o].head \in MadeBy(o)
    BY DEF EditInv, HeadHad, OwnHeads
  <2>6. e \in held
    BY <1>1, <2>3, <2>5, HeadMergeAssumption DEF Merges, MadeBy, MergeActor, Publisher
  <2>7. \A h \in held' : h \in held \/ \E r \in Actors : h = pod[r].head /\ h \in MadeBy(r)
    BY <2>3, <2>5
  <2> QED BY <1>1, <1>2, <1>4, <2>3, <2>4, <2>6, <2>7, MergeQuiet
<1>8. ASSUME NEW o \in Actors, Keep(o) \/ Pull(o) \/ LoadIndex(o) \/ Truncate(o) \/ Fill(o)
      PROVE  MergeOf(e)'
  <2>1. e \in held
    BY <1>8 DEF Keep, Pull, LoadIndex, Truncate, Fill, storeVars, Merges
  <2> QED BY <1>2, <1>8, <2>1, KeepMerge, PullMerge, WriteMerge
<1>9. ASSUME NEW o \in Actors, JoinHeads(o) PROVE MergeOf(e)'
  <2>1. CASE UNCHANGED <<minted, held, full>> /\ req' = [req EXCEPT ![o] = Idle]
    <3>1. UNCHANGED <<pod, index>> /\ req[o].at = "decide"
      BY <1>9, JoinParts
    <3>2. \A r \in Actors : req[r].at \in {"index", "truncate"} \/ req'[r].at \in {"index", "truncate", "fill"}
                              => req'[r] = req[r]
      BY <2>1, <3>1 DEF IInv, TypeOK, Idle
    <3>3. e \in held
      BY <2>1 DEF Merges
    <3> QED BY <1>1, <1>2, <1>4, <2>1, <3>1, <3>2, <3>3, MergeQuiet
  <2> QED BY <1>3, <1>9, <2>1, JoinParts
<1>10. CASE UNCHANGED vars
  <2>1. UNCHANGED <<minted, pod, req, held, index>>
    BY <1>10 DEF vars, podVars, storeVars
  <2>2. e \in held
    BY <2>1 DEF Merges
  <2> QED BY <1>1, <1>2, <1>4, <2>1, <2>2, MergeQuiet
<1>11. ~Crash
  BY DEF Crash
<1> QED BY <1>5, <1>6, <1>7, <1>8, <1>9, <1>10, <1>11 DEF Next, PodStep, HandlerStep

-----------------------------------------------------------------------------
(* A deletion that was pushed holds.                                        *)
\* As long as the manager stays up and no pod takes up another's head.
Provenance == crashes = 0 /\ OwnHeads => Lineage /\ OwnStamps /\ Tieds /\ MergeKnown

LEMMA InitProvenance == Init => Provenance
<1> SUFFICES ASSUME Init PROVE Lineage /\ OwnStamps /\ Tieds /\ MergeKnown
  BY DEF Provenance
<1>1. minted = <<Start>> /\ Digests(minted) = {1} /\ minted[1] = Start /\ Known = {1}
      /\ held = {1} /\ clock = 1
  <2>1. Len(<<Start>>) = 1
    OBVIOUS
  <2> QED BY <2>1 DEF Init, Digests, Known
<1>2. /\ Start.by = Publisher /\ \A q \in Actors, path \in Paths : Start.gone[q][path] = 0
      /\ \A path \in Paths : Start.files[path] # None /\ Start.files[path].mtime = 0
  BY RefPushAssumption DEF Start, NoWhiteouts, Register, Publisher
<1>3. \A q \in Actors : q # Publisher /\ q # MergeActor
  BY HeadMergeAssumption DEF Publisher, MergeActor
<1>4. Lineage
  BY <1>1, <1>2, <1>3 DEF Lineage
<1>5. \A p \in Actors, path \in Paths : pod[p].upper[path] = 0 /\ pod[p].deleted[path] = 0
  BY DEF Init, Blank
<1>6. OwnStamps
  <2> SUFFICES ASSUME NEW p \in Actors, NEW path \in Paths
      PROVE  /\ pod[p].deleted[path] <= clock
             /\ \A d \in MadeBy(p) :
                  /\ Supersedes(p, path, minted[d].gone[p][path]) /\ NeverDeleted(p, path, d)
                  /\ \A e \in MadeBy(p) : d <= e => Covers(e, p, path, minted[d].gone[p][path])
    BY DEF OwnStamps
  <2>1. \A d \in MadeBy(p) : d = 1
    BY <1>1 DEF MadeBy
  <2>2. Supersedes(p, path, 0) /\ NeverDeleted(p, path, 1) /\ Covers(1, p, path, 0)
    BY <1>1, <1>2, <1>5 DEF Supersedes, NeverDeleted, Covers
  <2>3. minted[1].gone[p][path] = 0
    BY <1>1, <1>2
  <2> QED BY <1>1, <1>5, <2>1, <2>2, <2>3
<1>7. Tieds
  <2>1. index = [r \in Refs |-> 1] /\ \A p \in Actors : req[p].at = "none"
    BY DEF Init, Idle
  <2>2. Tied(index) /\ Listed(index)
    BY <1>1, <1>2, <1>3, <2>1, HeadMergeAssumption DEF Tied, Listed
  <2> QED BY <2>1, <2>2 DEF Tieds, TiedPut
<1>8. Merges = {}
  BY <1>1, <1>2 DEF Merges, Publisher, MergeActor
<1> QED BY <1>4, <1>6, <1>7, <1>8 DEF MergeKnown

LEMMA ProvenanceInductive ==
  ~Overlap /\ IInv /\ HInv /\ EditInv /\ Provenance /\ [Next]_vars => Provenance'
<1> SUFFICES ASSUME ~Overlap, IInv, HInv, EditInv, Provenance, [Next]_vars, crashes' = 0, OwnHeads'
             PROVE  (Lineage /\ OwnStamps /\ Tieds /\ MergeKnown)'
  BY DEF Provenance
<1>1. crashes = 0
  <2>1. crashes \in Nat
    BY RefPushAssumption DEF IInv, TypeOK
  <2>2. CASE \E p \in Actors, path \in Paths : Write(p, path) \/ Delete(p, path)
    BY <2>2 DEF Write, Delete
  <2>3. CASE \E p \in Actors : PodStep(p)
    BY <2>3 DEF PodStep, Push, Reopen, Build, Ask, SendManifest, SendLayers, TransferFails, Pull
  <2>4. CASE \E p \in Actors : HandlerStep(p)
    BY <2>4 DEF HandlerStep, Receive, Keep, JoinHeads, LoadIndex, Truncate, Fill
  <2> QED BY <2>1, <2>2, <2>3, <2>4 DEF Next, Crash, vars
<1>2. OwnHeads
  BY HeadsStay
<1>3. Lineage /\ OwnStamps /\ Tieds /\ MergeKnown
  BY <1>1, <1>2 DEF Provenance
<1>4. Lineage'
  BY <1>2, <1>3, LineageStays DEF EditInv
<1>5. OwnStamps'
  BY <1>2, <1>3, StampsStay
<1>6. Tieds'
  BY <1>1, <1>2, <1>3, TiedsStay
<1>7. MergeKnown'
  BY <1>1, <1>2, <1>3, MergeStays
<1> QED BY <1>4, <1>5, <1>6, <1>7

\* A pod's later manifest covers every deletion in an earlier one.
LEMMA LaterCovers ==
  ASSUME IInv, Lineage, OwnStamps, NEW p \in Actors, NEW d \in MadeBy(p), NEW e \in MadeBy(p), d <= e,
         NEW path \in Paths, NEW stamp \in DeletionStamp(minted[d], path)
  PROVE  stamp \in Nat /\ (stamp = 0 \/ Covers(e, p, path, stamp))
<1>1. PICK q \in Actors : stamp = minted[d].gone[q][path]
  BY DEF DeletionStamp
<1>2. stamp \in Nat
  BY <1>1, StampIsNumber DEF IInv, MadeBy, Known
<1>3. CASE q = p
  BY <1>1, <1>2, <1>3 DEF OwnStamps
<1>4. CASE q # p
  BY <1>1, <1>2, <1>4, OwnWhiteouts DEF Blank
<1> QED BY <1>3, <1>4

\* Of two heads that were joined, x has the deletion: the join shows the file
\* only with an edit not older.
LEMMA MergeHolds ==
  ASSUME IInv, NEW p \in Actors, NEW x \in Known, NEW y \in Known, NEW e \in Known,
         Sound(e, x, y) \/ Sound(e, y, x), NEW path \in Paths, NEW stamp \in Nat, Covers(x, p, path, stamp)
  PROVE  minted[e].files[path] = None \/ minted[e].files[path].mtime >= stamp
<1> PICK f, a, b : f = minted[e].files[path] /\ a = minted[x].files[path] /\ b = minted[y].files[path]
  OBVIOUS
<1>1. /\ f # None => f.mtime \in Nat
      /\ a # None => a.mtime \in Nat
      /\ minted[x].gone[p][path] \in Nat
  BY TimesTyped, StampIsNumber DEF Known
<1>2. minted[x].gone[p][path] \in DeletionStamp(minted[x], path)
  BY DEF DeletionStamp
<1>3. /\ a # None /\ b # None => f.mtime >= a.mtime
      /\ a # None /\ b = None => f = None \/ f = a
      /\ a = None /\ b # None => f = None \/ minted[x].gone[p][path] < f.mtime
      /\ a = None /\ b = None => f = None
  <2>1. CASE Sound(e, x, y)
    BY <1>2, <2>1 DEF Sound, Prevails
  <2>2. CASE Sound(e, y, x)
    BY <1>2, <2>2 DEF Sound, Prevails
  <2> QED BY <2>1, <2>2
<1>4. /\ a = None => stamp <= minted[x].gone[p][path]
      /\ a # None => stamp <= a.mtime
  BY DEF Covers
<1>5. CASE a = None
  BY <1>1, <1>3, <1>4, <1>5
<1>6. CASE a # None
  BY <1>1, <1>3, <1>4, <1>6
<1> QED BY <1>5, <1>6

\* Where the manager holds all parents and at most one merge, that merge joined
\* two pods' heads of which it knew the histories.
LEMMA MergeIsSound ==
  ASSUME IInv, Lineage, NEW e \in held, MergeOf(e), \A d \in held : ParentsIn(minted, d, held)
  PROVE  \E p, q \in Actors : \E x \in MadeBy(p), y \in MadeBy(q) :
            Sound(e, x, y) /\ minted[e].parents \in {<<x, y>>, <<y, x>>}
<1>1. PICK p \in Actors, q \in Actors, x \in Known, y \in Known : JoinsHeads(e, p, q, x, y)
  BY DEF MergeOf
<1>2. x \in MadeBy(p) /\ y \in MadeBy(q) /\ minted[e].parents \in {<<x, y>>, <<y, x>>}
      /\ ((p # q /\ Sound(e, x, y)) \/ Hole(p, x) \/ Hole(q, y))
  BY <1>1 DEF JoinsHeads
<1>3. x \in held /\ y \in held
  <2>1. \A i \in DOMAIN minted[e].parents : minted[e].parents[i] \in held
    BY DEF ParentsIn
  <2>2. CASE minted[e].parents = <<x, y>>
    <3>1. {1, 2} \subseteq DOMAIN <<x, y>> /\ <<x, y>>[1] = x /\ <<x, y>>[2] = y
      OBVIOUS
    <3>2. minted[e].parents[1] \in held /\ minted[e].parents[2] \in held
      BY <2>1, <2>2, <3>1
    <3> QED BY <2>2, <3>1, <3>2
  <2>3. CASE minted[e].parents = <<y, x>>
    <3>1. {1, 2} \subseteq DOMAIN <<y, x>> /\ <<y, x>>[1] = y /\ <<y, x>>[2] = x
      OBVIOUS
    <3>2. minted[e].parents[1] \in held /\ minted[e].parents[2] \in held
      BY <2>1, <2>3, <3>1
    <3> QED BY <2>3, <3>1, <3>2
  <2> QED BY <1>2, <2>2, <2>3
<1>4. ASSUME NEW o \in Actors, NEW z \in held PROVE ~Hole(o, z)
  <2> SUFFICES ASSUME NEW h \in MadeBy(o), h \notin held, InHistory(minted, h, z) PROVE FALSE
    BY DEF Hole
  <2>1. held \subseteq Digests(minted)
    BY DEF IInv, TypeOK
  <2> QED BY <2>1, ClosedHistory
<1> QED BY <1>2, <1>3, <1>4

\* What the head of a ref shows of a file that an acknowledged head deleted.
LEMMA DeletionsShown == IInv /\ HInv /\ EditInv /\ Provenance => DeletionsHold
<1> SUFFICES ASSUME IInv, HInv, EditInv, Provenance, Undisturbed, \A d \in held : ParentsIn(minted, d, held),
                    \A d, e \in held : minted[d].by = MergeActor /\ minted[e].by = MergeActor => d = e,
                    NEW a \in Visible, NEW path \in Paths, minted[a.head].files[path] = None,
                    NEW stamp \in DeletionStamp(minted[a.head], path)
             PROVE  Shown(a, path) = None \/ Shown(a, path).mtime >= stamp
  BY DEF DeletionsHold
<1>1. crashes = 0 /\ index # Torn /\ a \in acked /\ index[a.ref] # None
  BY DEF Undisturbed, Visible
<1>2. WellFormed(minted) /\ held \subseteq Digests(minted) /\ a.head \in Digests(minted)
      /\ a.ref \in Refs
  BY <1>1 DEF IInv, TypeOK
<1>3. OwnHeads
  BY TimesTyped DEF Undisturbed, OwnHeads, MadeBy
<1>4. Lineage /\ OwnStamps /\ MergeKnown
  BY <1>1, <1>3 DEF Provenance
<1> PICK head, old : head = index[a.ref] /\ old = a.head
  OBVIOUS
<1>5. head \in held /\ head \in Known /\ old \in Known /\ minted[head] \in ManifestOver(Nat)
  <2>1. head \in held
    BY <1>1, <1>2 DEF IInv, HeadComplete
  <2> QED BY <1>2, <2>1, ElementIn DEF Known, WellFormed, Digests
<1>6. InHistory(minted, old, head)
  <2>1. IsAncestor(minted, held, old, head)
    BY <1>1 DEF HInv, HistoryKept
  <2>2. Extends(minted, minted)
    BY <1>2 DEF Extends, WellFormed
  <2> QED BY <1>2, <1>5, <2>1, <2>2, FoundStays DEF InHistory, Known
\* A deletion in the history of one of a pod's own heads.
<1>7. ASSUME NEW p \in Actors, NEW x \in MadeBy(p), InHistory(minted, old, x)
      PROVE  stamp \in Nat /\ (stamp = 0 \/ Covers(x, p, path, stamp))
  <2>1. old \in MadeBy(p) /\ old <= x
    BY <1>2, <1>4, <1>7, OwnHistory, HistoryOlder DEF MadeBy, Known
  <2> QED BY <1>4, <2>1, LaterCovers
<1>8. /\ minted[head].files[path] # None => minted[head].files[path].mtime \in Nat
      /\ stamp \in Nat
  <2>1. stamp \in Nat
    BY <1>2, StampIsNumber DEF DeletionStamp
  <2> QED BY <1>5, <2>1, TimesTyped
<1>9. CASE minted[head].by # MergeActor
  <2>1. PICK p \in Actors : head \in MadeBy(p)
    <3>1. minted[head].by \in Actors \cup {Publisher}
      BY <1>5, <1>9 DEF ManifestOver
    <3>2. CASE minted[head].by \in Actors
      BY <1>5, <3>2 DEF MadeBy
    <3>3. CASE minted[head].by = Publisher
      <4>1. PICK b \in acked : b = a
        BY <1>1
      <4>2. Start.files[path] # None
        BY RefPushAssumption DEF Start, Register, Publisher
      <4>3. head = 1 /\ old <= 1 /\ old \in 1..Len(minted)
        BY <1>2, <1>4, <1>5, <1>6, <3>3, HistoryOlder DEF Lineage, Known, Digests
      <4>4. old = 1
        BY <4>3
      <4> QED BY <1>4, <4>2, <4>4 DEF Lineage
    <3> QED BY <3>1, <3>2, <3>3
  <2>2. stamp = 0 \/ Covers(head, p, path, stamp)
    BY <1>6, <1>7, <2>1
  <2>3. CASE minted[head].files[path] = None
    BY <2>3 DEF Shown
  <2>4. CASE minted[head].files[path] # None
    BY <1>8, <2>2, <2>4 DEF Shown, Covers
  <2> QED BY <2>3, <2>4
<1>10. CASE minted[head].by = MergeActor
  <2>1. MergeOf(head)
    BY <1>4, <1>5, <1>10 DEF MergeKnown, Merges
  <2>2. PICK p \in Actors, q \in Actors : \E x \in MadeBy(p), y \in MadeBy(q) :
           Sound(head, x, y) /\ minted[head].parents \in {<<x, y>>, <<y, x>>}
    BY <1>4, <1>5, <2>1, MergeIsSound
  <2>3. PICK x \in MadeBy(p), y \in MadeBy(q) :
           Sound(head, x, y) /\ minted[head].parents \in {<<x, y>>, <<y, x>>}
    BY <2>2
  <2>4. x \in Known /\ y \in Known
    BY DEF MadeBy
  <2>5. CASE old = head
    BY <2>5 DEF Shown
  <2>6. CASE old # head
    <3>1. InHistory(minted, old, x) \/ InHistory(minted, old, y)
      <4>1. PICK i \in DOMAIN minted[head].parents : InHistory(minted, old, minted[head].parents[i])
        BY <1>2, <1>5, <1>6, <2>6, FoundByParent DEF Known
      <4>2. minted[head].parents[i] \in {x, y}
        <5>1. CASE minted[head].parents = <<x, y>>
          BY <4>1, <5>1
        <5>2. CASE minted[head].parents = <<y, x>>
          BY <4>1, <5>2
        <5> QED BY <2>3, <5>1, <5>2
      <4> QED BY <4>1, <4>2
    <3>2. CASE stamp = 0
      BY <1>8, <3>2 DEF Shown
    <3>3. CASE InHistory(minted, old, x) /\ stamp # 0
      <4>1. Covers(x, p, path, stamp)
        BY <1>7, <3>3
      <4> QED BY <1>5, <1>8, <2>3, <2>4, <4>1, MergeHolds DEF Shown
    <3>4. CASE InHistory(minted, old, y) /\ stamp # 0
      <4>1. Covers(y, q, path, stamp)
        BY <1>7, <3>4
      <4> QED BY <1>5, <1>8, <2>3, <2>4, <4>1, MergeHolds DEF Shown
    <3> QED BY <3>1, <3>2, <3>3, <3>4
  <2> QED BY <2>5, <2>6
<1> QED BY <1>9, <1>10

\* A deletion wins over any edit older than it (mergeHeads, merge.ts:307-316, and
\* the whiteout layer of buildOverlayHead): a file whose deletion was acknowledged
\* comes back only with an edit not older, however many pods push and whatever
\* transfers fail: while the manager stays up, takes puts one at a time and holds
\* the parents of all it holds, while no pod has taken up somebody else's head
\* under its edits, and until heads were merged twice.
THEOREM DeletionsAlwaysHold ==
  ASSUME ~Overlap
  PROVE  Spec => []DeletionsHold
<1>1. Init => IInv /\ HInv /\ EditInv /\ Provenance
  BY InitIInv, InitHInv, InitEdits, InitProvenance
<1>2. IInv /\ HInv /\ EditInv /\ Provenance /\ [Next]_vars => IInv' /\ HInv' /\ EditInv' /\ Provenance'
  BY Inductive, HistoryInductive, EditsInductive, ProvenanceInductive
<1> QED BY <1>1, <1>2, DeletionsShown, PTL DEF Spec

=============================================================================
